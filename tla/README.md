# A verification of the WAGO edge firmware-update API

TLA+ modules, TLC configurations and TLAPS proofs for the program in `src/`: the
WDA-shaped REST API that updates an x86 WAGO edge computer through the host's
`rauc.service`, and the device configuration the same process writes.

Paths without a directory are in `src/container/` or `src/container/providers/`.

## 1. The system

One container, one Python process. `api.py` is a `ThreadingHTTPServer`: every request
is a thread, and so is every installation. The providers are modules that share their
state between those threads; only `firmwareupdate.py` has a lock. Everything they change
outside the process is changed through a subprocess (`rauc`, `busctl`), D-Bus
(NetworkManager) or a file on a mounted volume.

| part | state it keeps | operations | talks to |
|---|---|---|---|
| `firmwareupdate.py` | `st` (status, progress, errorcause, uploads), log ring; upload files in `STAGE_DIR`; install threads | activate, getuploadids, start, finish, confirm, reboot, clear, cancel, settimeout, getlastlogentries; parameter reads | rauc, logind, the upload files, `cached` |
| `providers/__init__.py` | `cached()` boxes; the registry of ids | memoised reads, `cache_clear`, `set_param` | all providers |
| host rauc, bootloader (external) | booted slot, primary slot, good marks, the one installation | install, mark-good, status, boot with fall-back | - |
| `api.py`, uploads | chunk counters; the bytes of an upload | `PATCH /files/{id}` | the upload table |
| `api.py`, parameters | - | single and bulk `PATCH /wda/parameters` | writers of the providers |
| `networking.py`, custom* | `CUSTOM_STORE` (one JSON file) | write hostname, domain, dns; `reapply()` at start | hostnamed, resolved, NetworkManager |
| `wds.py` | `STORE` (one JSON file) | write and read stored intent | the commissioning service polls it |
| `nmcfg.py` + bridge writers | the NetworkManager profile and the running device | set addresses, gateway, dns, search domain | NetworkManager |
| `sysctl.py` | a drop-in file, the kernel's value | write ip forwarding | systemd |
| `presets.py`, `preset.py` | one file per preset, predefined and custom | list, get, save, delete | file system |
| `entrypoint.sh` (one-shot mode) | the staged bundle | check, stage, verify, install, clean up, reboot | rauc, logind |
| `system.py`, `ledstates.py`, `localusers.py` | `cached()` boxes | reads | host files |
| `meta.py`, `openapi.py`, `wdalog.py` | static tables | pure functions, logging | - |

What is hard here: an installation thread reports minutes after it was started, into a
status that calls have changed meanwhile; `finish` is two locked sections and `confirm`
decides on a cached read; a restart wipes the process but neither the host's
installation nor the files; the stores are rewritten as a whole, through one shared
temporary file, by threads without a lock; a profile is read, changed and written back
over several D-Bus calls of which each can fail; a bulk write is a series of writes whose
members depend on each other; a job that systemd has queued runs after its answer; and a
shell script without `pipefail` shares its staging directory with all of them. `PROJECT.json` lists each such hazard
at its line with the properties that cover it.

What makes each part correct:

- *update machine*: one outcome per installation and the right one; an error has its
  cause; Confirmed only on a slot that is good; a confirm that nothing overlaps never
  marks the outgoing slot;  registered uploads have their files; Started ends.
- *stores*: a write is one atomic change of one value, an answered write stays, the
  host follows the store across restarts whose `reapply()` is not refused.
- *profiles*: a profile is never self-contradictory; what a client was answered 204 for
  stays in it, and in the device once a Reapply has succeeded.
- *uploads*: what was acknowledged is in the file, whatever is sent again, late or cut short.
- *cached reads*: an old value is served for no longer than ttl, none after a clear that
  no old value was on its way past, and a 404 for an existing parameter is explained.
- *presets*: a save is atomic; what list and get answer was so at some time during the call.
- *PATCH*: an answer says exactly which members have been applied; ip forwarding that was answered
  as set stays set.
- *one-shot*: it cleans up, installs the bundle it carries, and its summary is true.

## 2. Modules

| module | models | kind |
|---|---|---|
| `Rauc` | the host side of an update: slots, primary, good marks, one installation at a time, boot with fall-back | external, from how the code uses it and the rauc documents in `tests/test_activation.py` |
| `FirmwareUpdate` | `firmwareupdate.py` with `cached` around `rauc_slots`, over `Rauc` | detailed |
| `UpdateTrack` | what a client of the update API is promised | abstract; `FirmwareUpdate` implements it |
| `FirmwareUpdateProofs` | theorems about `FirmwareUpdate` | proofs |
| `ParameterStore` | `_store_read`/`_store_write`, the custom* writers, `reapply()`; `wds.py` | detailed |
| `AtomicStore` | a store of named values that a call changes in one step, but for values whose writers contend | abstract; `ParameterStore` and `Presets` implement it |
| `ParameterStoreProofs` | theorems about `ParameterStore` | proofs |
| `NmProfile` | `nmcfg.py` and the four writers that use it | detailed |
| `NmProfileProofs` | theorems about `NmProfile` | proofs |
| `UploadTransfer` | `do_PATCH` of `/files/{id}` and `parse_byteranges`; extends `FirmwareUpdate` | detailed, composition |
| `UploadTransferProofs` | theorems about `UploadTransfer`; extends `FirmwareUpdateProofs` | proofs |
| `CachedRead` | `cached` with the clock it looks at, a writer that clears it, and the 404 that `None` becomes | detailed |
| `CachedReadProofs` | theorems about `CachedRead` | proofs |
| `Presets` | `presets.py` and its methods in `preset.py` | detailed |
| `PresetsProofs` | theorems about `Presets` | proofs |
| `IpForwarding` | `sysctl.py`: drop-in, queued job, kernel value, boot | component of `BulkPatch` |
| `BulkPatch` | single and bulk `PATCH` of parameters, `writable` and `set_param`, the bridge numbering; extends `IpForwarding` | detailed, composition |
| `BulkPatchProofs` | theorems about `BulkPatch` | proofs |
| `OneShot` | `entrypoint.sh` in one-shot mode, over `Rauc`, beside the server | detailed, composition |
| `OneShotProofs` | theorems about `OneShot` | proofs |
| `MC*` | symmetry sets, sample bundles and request lists for TLC | model checking |

### FirmwareUpdate

A section under `_lock` is one action, named after its method (`Activate`,
`GetUploadIds`, `StartUpload`/`StartEmbedded`, `Clear`, `Cancel`). What is not one
section is split where another thread can come in: `finish` into `FinishCheck`,
`FinishSet`, `FinishClearBox` and the cached read; `confirm` into `ConfirmBegin` (the
`cache_clear`), the cached read, `ConfirmMarkGood`, `ConfirmClearBox`, `ConfirmSet`; a
cached read into `CacheCheck`, `CacheRun`, `CacheStoreV`, `CacheStoreT`, `CacheReturn`,
the bytecode-level steps of `cached.wrapper`. There is no clock: each thread compares the
time it took itself, so any `CacheCheck` may find the ttl passed, and may find it not
passed while the box is `fresh`.
`_install_worker` is the program counter `wpc`: `stage` (copyfile), `spawn` (Popen),
`install` (until rauc ends), `done`/`failed` (until the terminal section). Refused calls
change nothing and are stuttering.

| variable | code |
|---|---|
| `status`, `progress`, `errorcause`, `uploads` | the keys of `st` (`uploads`: the ids) |
| `files` | the `<fid>.raucb` files in `STAGE_DIR` |
| `issued` | ids `uuid4` has returned, so that none is returned twice |
| `wpc`, `src` | the install threads and their `path` |
| `cpc`, `got`, `confirming` | request threads in finish, confirm or a slot read, and the value a fill has computed |
| `box` | `box` of `cached`: `v`, and whether `t` was stored since the last clear, so that a read may be within the ttl |
| `booted`, `primary`, `good`, `busy` | the host (`Rauc`) |

Three history variables (`reported`, `sincePending`, `undisturbed`) are read by no action.
`ContainerRestart` loses the process and leaves an installation of the host as an
orphan; `Reboot` is `m_reboot` granted by logind and, having the same effect, a power cut.
The refinement mapping to `UpdateTrack` reads an installation's phase off `wpc`, and
`pending` and `confirmed` off the host. A worker whose Popen raises is `Vanish` in
`UpdateTrack`, which admits it only where that can happen (`MayVanish`).

### ParameterStore

A write is `Write` (with the decision whether it is applied), `Apply`, `Load`, `Open`
(truncates the `.tmp`), `Dump` (the flush at close; a text of this size is one write),
`Replace`. An open file is tracked by the name it has now (`fd`), because a rename by
another thread turns an open `.tmp` into the open store: that is how a reader can see
a store that someone is still writing. The text itself is abstracted: two threads that
write one file leave the last one's text or a mixture that does not parse (`Flushed`);
a file that does not parse reads as defaults, as `_store_read` does. `Reapply` and
`Listen` are the start of the process. `host` is what hostnamed, resolved or the saved
profile has; whether the device already runs with a saved profile is a question for
`NmProfile`. History: `alone`; `promised`, the value stored by the last call that no other
call overlapped, which later failures and restarts leave as it is; and `failed`, the
parameters whose last call, by a client or by `reapply()`, failed. `AtomicStore` lets a value change outside
a call only while it is `contended`, which here means that calls overlap: any number of
writers implements it.

### NmProfile

A write is `Write`, `ReadStatic` (for addresses and gateway: `static_ipv4`, whose
failure is invisible), `Describe` (`GetSettings`, with the change applied to the copy),
`Update` (`Update2`) and `Reapply`, each but the first with its failure. `ReapplyFails`
ends the call with the same 204 as `Reapply`: the writers only log that the value is not
live. An `Update2` or `Reapply` that failed may have been carried out (a timeout). History:
`alone`, the calls that no other call overlapped; `claims`, the values that the clients of
such calls were answered 204 for; `doubtful`, those of them that a write which went on
from a failed `static_ipv4` may have undone; and `unlive`, those whose own Reapply failed,
until the next Reapply or boot.

### UploadTransfer

A request is `PatchFinds` (the body is read, the upload looked up under the lock, the data
cut out of the body: `Data`), `PatchOpens` or `PatchFindsNoFile`, and `PatchWrites` or
`PatchWriteFails`, none of them under the lock. A body is `Sent(r)` up to any byte: a
connection can break anywhere. `bytes` is the contents of the upload files, `Hole` a byte
nothing was written to; the steps of `FirmwareUpdate` that remove a file take its contents
along (`FilesFollow`). History: `acked`, the ranges answered with 204. A client is assumed
to send one bundle to an id and to declare ranges that lie in it. Bodies without boundary,
range or head are refused (400) and stutter. `note_upload_size` and the chunk counter are
left out because nothing reads them.

The last lines of `parse_byteranges` strip one CRLF from a body that is *shorter* than
declared; its docstring describes the strip as being for one that is longer. The model
follows the code: the longer body is cut to the declared length.

### CachedRead

One `cached` read (`_dns` of `networking.py`), its writer `w_dns`, and any number of
readers. The wrapper is `Read` (the time), `Check`, `Run` (`fn()`), `StoreV`, `StoreT` and
`Return`, which are its bytecode-level steps; the writer is `Apply` (the resolver takes the
servers), `Stored` or `StoreFails`, and `Clear`. The host's value is a version number that
`HostChanges` also moves. `now` is `time.monotonic()`, which begins with the device: the
box's initial `t = 0.0` is valid while it is young. `FirmwareUpdate` keeps its own copy of
these steps around `rauc_slots`, where the ttl may pass at any moment. History:
`outdatedAt`, `clearedAt`, `clean`.

### Presets

`Open`, `Dump`, `Replace` of a save are those of `ParameterStore`, with one `.tmp` for each
name. A save ends with a get. `IsFile` and `Load` of a get are two looks at the directory;
a list is `ListDir`, one `ListLoad` for each file in any order, and `ListDone`. `Restart`
takes the threads and leaves the files. History: `alone`, and `seen`, what the files of the
names a thread reads have held since it began.

### BulkPatch and IpForwarding

`Call` takes a list of members. A member of IP forwarding is `Forwarding`, `Open`, `Dump`,
`Replace`, `RestartUnit`, `Verify`, each with its failure (`RestartTimesOut` is the
uncaught `TimeoutExpired`); one of a bridge is `Writable`, `SetParam` and `IpWriter`, which
all resolve the id anew, and `NmWrite`, one step here because `NmProfile` has its
interleavings. It writes what `static_ipv4` returned, which may be nothing (`StaticReads`).
`Unwritable` and `NmRefused` end the request with an error, `SetParam` with a
`KeyError`. `Number` is the numbering of `bridges()`. `SysctlUnitRuns` is the queued job,
`HostSets` the Docker daemon, `DevicesChange` the host's bridges and leases. History:
`alone`, `before`, `misread` (the members written after a failed read), `promised`,
`foreign`, `shaken`.

### OneShot

One action per command of the script that reads or changes shared state, in its order;
`Fatal` is `fatal` (which removes the staged file, whoever's it is), `Dies` a command under
`set -e` without it, `Kill` the end of the container between any two commands. The staged
file has one name for all containers: `copy` says whether a `cp` is alone with the file it
has open, `source` and `linked` what the host's service reads and whether that is still the
file under the name. `DRY_RUN` and `REBOOT` are choices where they are read. The server
appears as `ServerInstalls` and as the uploads it keeps in the same directory. History:
`alone`, `fresh`, `leftover`.

## 3. Runs that pass

Every property has a mutant of the code in `PROJECT.json` that the same run refutes.

| run | instance | checks | size |
|---|---|---|---|
| `outcomes` | 2 workers, 1 upload id, embedded bundle, failing os.remove, restarts, fairness | `TypeOK`, `ErrorExplained`, `OutcomeIsLatest`, `ProgressSettles`, `StartedOwned`, `UploadsBacked`, `TrackCompleted`, `StartedEnds` | 133 k states |
| `confirm` | 1 worker, 2 request threads, failing rauc and Popen, restarts | `ConfirmedIsGood`, `OutcomeIsLatest`, `UndisturbedConfirmRefused` | 2.9 M |
| `store` | 2 overlapping writers, 3 parameters, failing host and disk, restarts | `TypeOK`, `SettledWriteKept`, `HostFollowsStore`, `AtomicImplemented` | 1.4 M |
| `profile` | 2 overlapping writers, every D-Bus failure, restarts | `TypeOK`, `ClaimsStand`, `ProfileConsistent` | 850 k |
| `transfer` | 2 requests, 1 upload id, 4 bytes in 2 ranges, bodies cut anywhere, 1 worker, failing Popen, restarts | `TransferTypeOK`, `AcknowledgedBytesKept`, `TrackImplemented` | 240 k |
| `cached` | 2 readers, 1 writer, ttl 2, clock to 5, 3 versions, restarts | `TypeOK`, `ReadsCatchUp`, `ClearedIsCurrent`, `NoneExplained` | 405 k |
| `presets` | 2 threads, 2 names of which 1 is predefined, 1 value, failing disk, restarts | `TypeOK`, `ListsRegular`, `GetsExplained`, `AtomicImplemented` | 677 k |
| `patch` | 2 threads, 4 bulk requests of two members and a single one, 1 port, 1 bridge device, all faults, boots | `TypeOK`, `SettledForwarding`, `AnswerMatchesEffect`, `KeyErrorsExplained` | 2.7 M |
| `oneshot` | 2 one-shot containers with different bundles, the server, kills, boots | `TypeOK`, `NothingLeftBehind`, `InstalledIsCarried`, `ReportIsTrue`, `ServerFilesKept` | 1.2 M |

Bounds. The state spaces are finite without a constraint: the number of threads, ids and
values is the only bound, but for `cached`, whose clock stops at `MaxTime` and whose host
changes up to `MaxVersion`: two ttls and a half, and two changes, are room for a fill, a
clear and a later read in every order. Two workers are enough for an outcome that meets a
later installation; two request threads for a fill that overlaps a confirm (a third would
be another poller); two writers for every overlap of a `.tmp`, of a profile or of the
staged file (a third is a second disturber); two requests for a write over acknowledged
bytes, and a bundle of four bytes, CR and LF among them, for a range that ends like a line
and a trailer that starts with one. One percentage stands for all that are neither 0 nor
100. One value is enough for `store` and `presets`, where a value that is there, one that is
not, and a mixture that does not parse are what calls tell apart. The requests of `patch`
are those whose members depend on each other, or come to nothing, or lose something when a
read fails; two
bundles in `oneshot` tell whose was installed. `confirm` leaves uploads out, `outcomes`
leaves request threads out: the two halves share only `status`, and the proofs of section 6
cover their combination and every larger instance. `TrackImplemented` is checked without
request threads too, for time; `PromiseKept` has theirs.

Fairness. `Fairness` of `FirmwareUpdate` is weak fairness of each install thread and each
request thread: the interpreter schedules threads, the copy ends, and `rauc install`
exits, with success or failure. Nothing is assumed of clients. `TrackSpec` asks weak
fairness of each installation. `outcomes` runs without symmetry. No other module has a
loop or a wait in which a fair thread could fail to progress, so none states liveness.

Deadlock is checked in every run: cancel, a restart or a new request is always possible.

## 4. Behaviour that contradicts a statement

Each of these runs checks one statement of a docstring, a comment or the README, and TLC
finds a behaviour of the code that contradicts it. `PROJECT.json` quotes the lines.

| run | statement | behaviour |
|---|---|---|
| `confirm_race` | confirm is refused while a slot is pending | a poller's fill, read before the installation ended, is stored after confirm cleared the cache |
| `misread` | keep the gateway; nothing else is lost | a failed read is written back as DHCP |
| `failed_install` | any failure is FATAL, with a non-zero exit | the pipe into `sed` hides it: Update complete, exit 0, and the reboot that REBOOT asks for |

The models contain these behaviours too, met while writing them and without a run of
their own. Of the update:

- Popen is not guarded in the worker: when it raises, the status stays Started (README: any
  failure is Error). `StartedOwned` and `StartedEnds` hold where it does not raise;
  `UpdateTrack` has the vanished installation as a step of its own.
- An installation that ends after `cancel` moves Inactive to Unconfirmed, and `finish`
  stores Finished over a `cancel` that fell between its two sections. `UpdateTrack`
  admits both: its `Resolve` and `FinishCalled` have no condition on the status.
- `confirm` stores Confirmed over any status, Started included. An installation that ends
  between its read of the pending slot and its mark-good is not seen: the outgoing slot is
  marked good. `UndisturbedConfirmRefused` is about calls that found the slot pending.
- `cancel` forgets the uploads and leaves their files, which no later `clear` finds.
- A `cache_clear` between the store and the return of another thread's cached read
  makes that read return `None`, as does a read before the clock has passed ttl
  (`NoneExplained` says that there is no third case).

Of the stored configuration:

- Two writers of one store, or two saves of one preset, share a `.tmp`: the file can be
  seen half-written, against the comment at `networking.py:330` and that of `presets.save`.
- Overlapping writes of different parameters of one store, or of different keys of one
  profile, can undo each other: `promised` and `claims` are about calls that did not overlap.
- Servers that were applied but not stored (500) stay in effect when they are cleared,
  because `w_dns` finds nothing stored: `HostFollowsStore` exempts `Cleared`.
- A `reapply()` that is refused (no link with carrier, a bus that is not up yet) is a
  warning in the log (`networking.py:576-580`): the listener opens, and the parameter
  claims a value that the host does not have, which the docstring of `reapply` says it is
  there to prevent. Nothing tries again before the next start or write. `HostFollowsStore`
  exempts it with every other call that failed.
- A write whose `Reapply` failed is answered with the same 204 as one that is live: the
  writers put "saved to the profile, not yet live" into the log line and return the value
  (`networking.py:430-440`, `528-538`). The docstring of `set_dns` says of it that "the
  caller must not claim otherwise" (`nmcfg.py:216-217`). `ClaimsStand` exempts those values
  from being live, until the next Reapply or boot, but not from being on disk.
- A `get` whose file is deleted between its two looks raises, where the predefined preset
  or "no such preset" would be the answer.
- "Atomic: a yanked power cord leaves no half file" assumes a file system that orders data
  before the rename: nothing is fsynced, and the models take a rename to be durable.

Of `PATCH`:

- A 204 for the gateway or the addresses of a bridge does not say that the other of the two
  is still there: after a failed `static_ipv4` it has been lost. A bulk request of both can
  be refused for the gateway after its addresses were stored, and one that clears the gateway
  can clear the addresses it has just set. `AnswerMatchesEffect` takes such reads into the course of the
  request, and lets them change nothing else.
- A 503 (README: nothing was stored) leaves the drop-in in place, and the next job or boot
  applies it. As `RestartUnit` only queues a job, "the kernel value did not change" can
  also be answered before the unit has run, and the value comes later.
- A `busctl` that does not answer within the timeout raises `TimeoutExpired`, and a bridge
  that goes between `writable` and `set_param` raises `KeyError`, which the docstring of
  `set_param` says becomes a 404: both end the request without an answer.
- Clearing the addresses of a port without a lease takes its Bridge instance away, so a
  client cannot set them again by that id; a new bridge device can renumber the others.

Of the one-shot container:

- A `cp` or `mkdir` that fails ends the script by `set -e`: no FATAL, no clean-up. A run's
  `fatal` removes the file that another one has staged.
- It removes an empty `STAGE_DIR`, also one that the server's activate has just made:
  `getuploadids`, which does not make it again, then fails.

## 5. What holds nevertheless

The weaker statements that do hold, and that section 3 checks: a late outcome is still
the right outcome of the last installation to report (`OutcomeIsLatest`,
`TrackCompleted`); a confirm that no fill overlapped at its start is refused while a
slot stays pending (`UndisturbedConfirmRefused`); Confirmed is never shown over a slot
that is not good; a store heals with the next write that nothing overlaps, and contention
on one value or preset never reaches another; no overlap of profile writers leaves a
gateway without an address, a failed read can undo nothing but the address or gateway
it was for, in a single write (`ClaimsStand`) and in a bulk one (`AnswerMatchesEffect`), and
a failed Reapply delays the device but loses nothing on disk; the slots in the summary of a one-shot are true even where
"Update complete" is not.

## 6. Proofs

For any number of threads, ids, values and any faults, with `tlapm`. The only
assumptions are the named ones on the constants (`ClientsAssumption` and so on) unless said.

`FirmwareUpdateProofs`: `TypeCorrect`, `ErrorsAreExplained`, `OutcomesAreLatest`,
`UploadsAreBacked`, `ConfirmedSlotsAreGood`, `ProgressIsSettled`, `StartedIsOwned`,
`ConfirmIsRefused`, and `PromiseKept`: Spec implements `TrackSafe`, whatever fails. Two
inductive invariants carry them.

- `StateInv` adds to the properties what makes them inductive: a confirm that is past
  mark-good has left the booted slot good (`MarkedBeforeSet`); rauc is busy only for a
  worker that waits for it (`BusyForInstaller`); while Unconfirmed is shown with less
  than 100 some worker still runs (`LowProgressOwned`).
- `ConfirmInv`: an observed call has a pending slot (`ObservedArePending`), and while an
  undisturbed one is under way nothing that was computed before the slot became pending
  is in the box or in a thread's hand (`NothingConfirmable`).

`NmProfileProofs`: `ProfileTypeCorrect`, `ProfileStaysConsistent` and `ClaimsDoStand` for
any faults; `ClaimsStayInEffect`, without the exceptions of `doubtful` and `unlive`, where
`static_ipv4` does not hide a failed read and no Reapply fails (`misread` shows why the
first is assumed; section 4 says why the second is). All other failures are allowed there.

- Consistency of the profile is not inductive by itself: `Inv` adds that the copy each
  thread is about to write is consistent, and that a thread's value fits its key. No read
  has to be right for it.
- `ClaimInv`: while a claim stands, no call is under way but one that is alone, and what
  that one read still is so (`AloneUndisturbed`), but for addresses and gateway after a
  failed read; `ChangeIsLocal` says that a change made from such a read touches no other
  claim, and `SaveKeepsClaims` draws that through an Update2 that succeeds or times out.

`ParameterStoreProofs`: `StoreTypeCorrect`, `SettledWritesAreKept`, `HostIsFollowing` and
`StoreIsAtomic` (the store implements `AtomicStore`), for any number of overlapping writers.

- `HostIsFollowing` is about every parameter whose last call did not fail, those of an
  earlier life of the process included: a refused write does not take back what an earlier
  one has promised.
- `Inv` says of a call that is alone that its object is the stored one with its change,
  that the `.tmp` it has open is the one it truncated and that the host has its value;
  and of a promise that only such a call is under way (`PromisesStored`). A second call
  ends both, which is why `promised` is forgotten when calls overlap.
- For `StoreIsAtomic`: of all steps of a call that is alone only the rename changes what
  a read returns, and every other call is contended.

`UploadTransferProofs`: `TransferIsUpdate` (a step of the transfer is a step of
`FirmwareUpdate` or a stutter, so the theorems above hold of the composition),
`TransferTypeCorrect` and `AcknowledgedAreKept`, for any bundle, trailer and ranges.
`DeclaredLengthDecides` is what `parse_byteranges` computes for every bundle and every place
where a body can break off; `DataContinues` says of it that, however early a body breaks
off, the data is what its range begins with; `PutsKeeps`, that a write of such data puts bytes of the
bundle where they belong. `TInv` adds to the property that a request under way has a
registered upload and a range (`RequestsBound`), that its data is such a beginning
(`DataIsSent`), and that the property holds of removed uploads too, which have nothing
acknowledged (`AcknowledgedWritten`).

`CachedReadProofs`: `CacheTypeCorrect`, `ReadsDoCatchUp`, `ClearsAreCurrent` and
`NonesAreExplained`, for any number of readers and writers, any ttl and any clock. The
invariant bounds, while the box holds an old value, the time in it and the `now` of every
fill that has yet to stamp it by `outdatedAt` (`StaleBounded`), and the same of an empty box
by `clearedAt` (`EmptyBounded`): the reason why `cached` takes the time before `fn()` and
stores it last. `FillsCarry` says what the fills that have yet to store a value bring.

`PresetsProofs`: `PresetsTypeCorrect`, `ListsAreRegular`, `GetsAreExplained` and
`PresetsAreAtomic`, for any threads, names and values. `seen` is shown to contain the
contents of each file a thread reads now, so what a load finds has been seen; the rest is
the argument of `ParameterStoreProofs` for each name, where only a save that is alone has
its `.tmp` as it left it.

`BulkPatchProofs`: `PatchTypeCorrect`, `ForwardingSettles`, `KeyErrorsAreExplained`,
`AnswersAreTrue`, `IdsAreCounted` and `IdsAreStable`, for any requests, devices and faults.

- A request that is alone finds the two files as it left them (`AloneUndisturbed`), and
  nobody writes while something is promised (`PromiseAtRest`); a job that an earlier
  request has queued then reads the promised drop-in.
- `AnswersAreTrue` holds of requests of any length. `Course` is the configurations a
  request passes through, given which of its reads have failed, a recursive function on its
  members (`CourseSame`: a later read does not change what came before); that it is defined
  is an induction (`CourseDefined`), made from the least number of a set (`NatBySteps`) since the
  library's theorem takes an operator. `AloneOnCourse` then places every step of a member:
  before its effect the configuration is that of the members before it, after it the next.
- `IdsAreCounted`: an instance id never stands for two devices and skips none.
  `IdsAreStable`: devices that come leave an id alone exactly if their names are all later,
  which is how far "sorted so ids are stable" reaches. Both rest on `PlacesCount`: `Place`
  takes the devices that are there to 1, 2, ... one to one.

`OneShotProofs`: `OneShotTypeCorrect`, `CleansUp`, `InstallsWhatItCarries`, `SummaryIsTrue` and
`UploadsAreKept`, for any number of containers and bundles. While a run is alone every
other one is off (`Undisturbed`), so the staged file is its own from the end of its `cp` on
and the slots change with its own installation only. Two facts carry that over the
overwriting of a leftover: a file is open in a `cp` only while that runs
(`OnlyCpHasItOpen`), and a container that is off has no variables (`OffIsBlank`).

Only model-checked: what needs fairness (`StartedEnds`, and that every installation comes
to its outcome in `TrackCompleted`), because liveness and ENABLED are out of the prover's
reach. Every safety property of section 3 is a theorem. No module declares a RECURSIVE
operator.

## 7. Not modelled, and why

- `settimeout` (a number nothing reads), the log ring, `debuginfo`: nothing depends on them.
- The re-entrant lock: a section under it is one action. That it must be re-entrant
  (`logline` takes it inside sections that hold it) is therefore not something a run shows.
- The bytes of the server's embedded bundle. Two embedded starts copy one bundle over the
  same name, so a torn copy can only make an installation fail, which is `InstallFails`;
  `OneShot` has the bytes for the containers, whose bundles differ.
- The bytes of JSON files and the page cache.
- `hostcfg.py`: a stateless client of hostnamed, resolved and logind. Its outcomes are
  inputs of `ParameterStore` and `FirmwareUpdate`.
- Routing, authentication, GETs and the JSON:API envelopes of `api.py`; values that do not
  validate are `Refused` in `BulkPatch` and stutter elsewhere.
- The addresses, routes and names that `networking.py` only reads and formats.
- The read-only providers, metadata, the generated spec, logging: no shared state.
- `rauc-container/`, `build/`, compose files, `docs/`, `tests/`: no behaviour of the
  running service beyond the restart policy.

## 8. Plan

1. `StateLock`: `_lock` and `logline` as a re-entrant lock; no thread waits for ever.
2. The empty `STAGE_DIR` between a server's activate and getuploadids, as a composition of
   `OneShot` and `FirmwareUpdate`.
