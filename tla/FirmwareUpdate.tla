--------------------------- MODULE FirmwareUpdate ---------------------------
(***************************************************************************)
(* providers/firmwareupdate.py: the update state machine `st`, the upload  *)
(* slots it registers and their files, the install worker threads, and the *)
(* request threads of the two methods that are not one critical section    *)
(* (finish and confirm) together with any other reader of rauc_slots(),    *)
(* which is memoised by the `cached` decorator of providers/__init__.py.   *)
(*                                                                         *)
(* A section under `_lock` is one action.  A refused call (a WDA error     *)
(* that changes nothing) is a stuttering step and is not written.          *)
(***************************************************************************)
EXTENDS Naturals, Rauc

CONSTANTS
  Callers,      \* request threads in finish, confirm or a slot parameter read
  Fids,         \* the upload ids uuid4 will hand out, each of them once
  HasEmbedded,  \* the image carries a bundle (os.path.isfile(EMBEDDED))
  Percentages,  \* the percentages rauc prints while it installs
  Faults        \* the environment failures this instance can meet

\* The threads that can run _install_worker are the clients of rauc; their
\* number bounds the installations alive at a time.
Workers == Clients

AllFaults == {"spawn",    \* Popen(["rauc", ...]) raises OSError
              "rauc",     \* `rauc status` and `mark-good` fail
              "remove"}   \* os.remove of an upload fails
ASSUME PercentagesAssumption == Percentages \subseteq 0..100
ASSUME FaultsAssumption == Faults \subseteq AllFaults

VARIABLES
  status, progress, errorcause, uploads,    \* the fields of `st`
  files,        \* upload files in STAGE_DIR
  issued,       \* upload ids handed out so far, over all restarts
  wpc, src,     \* install workers: where they are, what they install
  cpc, got,     \* request threads: where they are, what they read
  confirming,   \* the request threads that run m_confirm
  box,          \* the cache box of rauc_slots
  \* history, read by no action:
  reported,     \* the last outcome a worker reported since the process started
  sincePending, \* confirm calls during which a slot has been pending throughout
  undisturbed   \* those of them that began with no status fill in flight

stVars == <<status, progress, errorcause, uploads>>
fileVars == <<files, issued>>
workerVars == <<wpc, src>>
callerVars == <<cpc, confirming, got, box>>
history == <<reported, sincePending, undisturbed>>
vars == <<stVars, fileVars, workerVars, callerVars, hostVars, history>>

\* STATUS_NAMES.  1, 6 and 9 are enumerated there and never stored in st.
Inactive == 0
Prepared == 2
Started == 3
Unconfirmed == 4
Confirmed == 5
Error == 7
Finished == 8
NotAvailable == 9
StatusNames == 0..9

NoError == 0
AbortByUser == 101
SignatureInvalid == 200
UpdateFailed == 600

Embedded == "embedded"
NoSource == "none"
Sources == Fids \cup {Embedded, NoSource}
WorkerPc == {"idle", "stage", "spawn", "install", "done", "failed"}
CallerPc == {"idle", "finish", "clear", "check", "run", "storeV", "storeT",
             "return", "mark", "clear2", "confirmed"}

\* What rauc_slots() returns: (booted, pending, booted_is_good); "" is no slot.
NoSlot == ""
SlotState == [booted : Slots \cup {NoSlot}, pending : Slots \cup {NoSlot}, good : BOOLEAN]
None == [booted |-> "None", pending |-> "None", good |-> FALSE]

\* The value rauc_slots() computes from one `rauc status`, and its value when
\* rauc fails or prints no JSON.
SlotsNow == [booted  |-> booted,
             pending |-> IF Pending THEN primary ELSE NoSlot,
             good    |-> booted \in good]
SlotsAbsent == [booted |-> NoSlot, pending |-> NoSlot, good |-> TRUE]
RaucSlots == {SlotsNow} \cup (IF "rauc" \in Faults THEN {SlotsAbsent} ELSE {})

TypeOK ==
  /\ HostTypeOK
  /\ status \in StatusNames \ {1, 6, NotAvailable}
  /\ progress \in Percentages \cup {0, 100}
  /\ errorcause \in {NoError, AbortByUser, SignatureInvalid, UpdateFailed}
  /\ uploads \in SUBSET Fids
  /\ files \in SUBSET Fids
  /\ issued \in SUBSET Fids
  /\ wpc \in [Workers -> WorkerPc]
  /\ src \in [Workers -> Sources]
  /\ cpc \in [Callers -> CallerPc]
  /\ confirming \in SUBSET Callers
  /\ got \in [Callers -> SlotState \cup {None}]
  /\ box \in [fresh : BOOLEAN, v : SlotState \cup {None}]
  /\ reported \in {"none", "ok", "failed"}
  /\ sincePending \in SUBSET Callers
  /\ undisturbed \in SUBSET Callers

\* A process that just started; the device is in its factory state.
ProcessInit ==
  /\ status = Inactive /\ progress = 0 /\ errorcause = NoError /\ uploads = {}
  /\ wpc = [w \in Workers |-> "idle"]
  /\ src = [w \in Workers |-> NoSource]
  /\ cpc = [c \in Callers |-> "idle"]
  /\ confirming = {}
  /\ got = [c \in Callers |-> None]
  /\ box = [fresh |-> FALSE, v |-> None]
  /\ reported = "none" /\ sincePending = {} /\ undisturbed = {}

Init == ProcessInit /\ HostInit /\ files = {} /\ issued = {}

----------------------------------------------------------------------------
(* Steps of a thread                                                       *)

\* A worker thread that ends.
WorkerEnds(w) ==
  /\ wpc' = [wpc EXCEPT ![w] = "idle"]
  /\ src' = [src EXCEPT ![w] = NoSource]

WorkerGoes(w, from, to) ==
  /\ wpc[w] = from
  /\ wpc' = [wpc EXCEPT ![w] = to]

CallerGoes(c, from, to) ==
  /\ cpc[c] = from
  /\ cpc' = [cpc EXCEPT ![c] = to]

\* rauc_slots.cache_clear()
ClearBox == box' = [fresh |-> FALSE, v |-> None]

\* A request thread that answers.
NotObserved(c) ==
  /\ sincePending' = sincePending \ {c}
  /\ undisturbed' = undisturbed \ {c}

CallEnds(c) ==
  /\ cpc' = [cpc EXCEPT ![c] = "idle"]
  /\ confirming' = confirming \ {c}
  /\ NotObserved(c)

\* History: the calls under way have seen a moment with no slot pending.
StillPending ==
  IF Pending' THEN UNCHANGED <<sincePending, undisturbed>>
              ELSE sincePending' = {} /\ undisturbed' = {}

----------------------------------------------------------------------------
(* Mutants: the actions below with the mistakes the properties must catch. *)
(* No action of Next uses them.                                            *)

\* m_cancel that ends in Revert.
CancelToRevert ==
  /\ status' = 6 /\ errorcause' = AbortByUser /\ uploads' = {}
  /\ UNCHANGED <<progress, fileVars, workerVars, callerVars, hostVars, history>>

\* m_clear that forgets to empty st["uploads"].
ClearKeepsUploads ==
  /\ files' = files \ uploads
  /\ status' = Inactive /\ progress' = 0 /\ errorcause' = NoError
  /\ UNCHANGED <<uploads, issued, workerVars, callerVars, hostVars, history>>

\* A failed copy that sets the status and not the cause, and one that sets neither.
StageFailsUnexplained(w) ==
  /\ wpc[w] = "stage"
  /\ WorkerEnds(w)
  /\ status' = Error /\ reported' = "failed"
  /\ UNCHANGED <<progress, errorcause, uploads, fileVars, callerVars, hostVars, sincePending, undisturbed>>

StageFailsSilently(w) ==
  /\ wpc[w] = "stage"
  /\ WorkerEnds(w)
  /\ UNCHANGED <<stVars, fileVars, callerVars, hostVars, history>>

\* The worker that takes the end of rauc's output for success.
InstallRefusedUnnoticed(w) ==
  /\ busy # w
  /\ WorkerGoes(w, "install", "done")
  /\ UNCHANGED <<src, stVars, fileVars, callerVars, hostVars, history>>

\* The worker that leaves progress where the last line put it, the one that
\* reports only while Started is shown, and the one that sets the cause and not the
\* status.
ReportDoneKeepsProgress(w) ==
  /\ wpc[w] = "done"
  /\ WorkerEnds(w)
  /\ status' = Unconfirmed /\ reported' = "ok"
  /\ UNCHANGED <<progress, errorcause, uploads, fileVars, callerVars, hostVars, sincePending, undisturbed>>

ReportDoneIfStarted(w) ==
  /\ wpc[w] = "done" /\ status = Started
  /\ WorkerEnds(w)
  /\ status' = Unconfirmed /\ progress' = 100 /\ reported' = "ok"
  /\ UNCHANGED <<errorcause, uploads, fileVars, callerVars, hostVars, sincePending, undisturbed>>

ReportFailedWithoutStatus(w) ==
  /\ wpc[w] = "failed"
  /\ WorkerEnds(w)
  /\ errorcause' \in {SignatureInvalid, UpdateFailed} /\ reported' = "failed"
  /\ UNCHANGED <<status, progress, uploads, fileVars, callerVars, hostVars, sincePending, undisturbed>>

\* m_confirm that trusts the cached slots.
ConfirmBeginCached(c) ==
  /\ CallerGoes(c, "idle", "check")
  /\ confirming' = confirming \cup {c}
  /\ sincePending' = IF Pending THEN sincePending \cup {c} ELSE sincePending
  /\ undisturbed' = IF Pending /\ \A d \in Callers : cpc[d] # "storeV"
                    THEN undisturbed \cup {c} ELSE undisturbed
  /\ UNCHANGED <<got, box, stVars, fileVars, workerVars, hostVars, reported>>

\* m_confirm that goes on when mark-good failed.
ConfirmMarkGoodIgnored(c) ==
  /\ "rauc" \in Faults
  /\ CallerGoes(c, "mark", "clear2")
  /\ NotObserved(c)
  /\ UNCHANGED <<confirming, got, box, stVars, fileVars, workerVars, hostVars, reported>>

\* m_finish that stores the status it has checked: the slots are read first.
FinishSetsChecked(c) ==
  /\ CallerGoes(c, "finish", "clear")
  /\ status' = Unconfirmed
  /\ UNCHANGED <<progress, errorcause, uploads, confirming, got, box, fileVars, workerVars, hostVars, history>>

----------------------------------------------------------------------------
(* The methods that are one critical section                               *)

\* m_activate.  A stage directory that cannot be made is a refused call.
Activate ==
  /\ status \in {Inactive, NotAvailable}
  /\ status' = Prepared /\ progress' = 0 /\ errorcause' = NoError /\ uploads' = {}
  /\ UNCHANGED <<fileVars, workerVars, callerVars, hostVars, history>>

\* m_getuploadids for any number of names.  When creating a file fails midway
\* the call is refused, but the ids of the earlier names stay registered: S is
\* then that prefix.
GetUploadIds ==
  /\ status >= 2
  /\ \E S \in SUBSET (Fids \ issued) :
       /\ S # {}
       /\ uploads' = uploads \cup S
       /\ files' = files \cup S
       /\ issued' = issued \cup S
  /\ UNCHANGED <<status, progress, errorcause, workerVars, callerVars, hostVars, history>>

\* m_start: the common part, and the thread it hands the bundle s to.
StartWith(w, s, at) ==
  /\ status >= 2
  /\ wpc[w] = "idle"
  /\ status' = Started /\ progress' = 0
  /\ wpc' = [wpc EXCEPT ![w] = at]
  /\ src' = [src EXCEPT ![w] = s]
  /\ UNCHANGED <<errorcause, uploads, fileVars, callerVars, hostVars, history>>

StartUpload(w) == \E f \in uploads : StartWith(w, f, "spawn")
StartEmbedded(w) == HasEmbedded /\ StartWith(w, Embedded, "stage")

\* m_clear removes the files of the registered uploads and resets st.
Clear ==
  /\ \E kept \in {{}} \cup (IF "remove" \in Faults THEN SUBSET uploads ELSE {}) :
       files' = files \ (uploads \ kept)
  /\ status' = Inactive /\ progress' = 0 /\ errorcause' = NoError /\ uploads' = {}
  /\ UNCHANGED <<issued, workerVars, callerVars, hostVars, history>>

\* m_cancel forgets the uploads and leaves their files and the worker alone.
Cancel ==
  /\ status' = Inactive /\ errorcause' = AbortByUser /\ uploads' = {}
  /\ UNCHANGED <<progress, fileVars, workerVars, callerVars, hostVars, history>>

----------------------------------------------------------------------------
(* _install_worker                                                         *)

\* copyfile of the embedded bundle, and its failure.
StageCopied(w) ==
  /\ WorkerGoes(w, "stage", "spawn")
  /\ UNCHANGED <<src, stVars, fileVars, callerVars, hostVars, history>>

StageFails(w) ==
  /\ wpc[w] = "stage"
  /\ WorkerEnds(w)
  /\ status' = Error /\ errorcause' = UpdateFailed
  /\ reported' = "failed"
  /\ UNCHANGED <<progress, uploads, fileVars, callerVars, hostVars, sincePending, undisturbed>>

Spawn(w) ==
  /\ WorkerGoes(w, "spawn", "install")
  /\ UNCHANGED <<src, stVars, fileVars, callerVars, hostVars, history>>

\* Popen raises: nothing catches it, the thread ends and st keeps its value.
SpawnRaises(w) ==
  /\ "spawn" \in Faults
  /\ wpc[w] = "spawn"
  /\ WorkerEnds(w)
  /\ UNCHANGED <<stVars, fileVars, callerVars, hostVars, history>>

\* rauc.service takes the bundle, whose file is still there ...
InstallBegins(w) ==
  /\ wpc[w] = "install"
  /\ src[w] \in files \cup {Embedded}
  /\ HostAccept(w)
  /\ UNCHANGED <<stVars, fileVars, workerVars, callerVars, history>>

\* ... or the client fails at once: busy service, missing file, bad signature.
InstallRefused(w) ==
  /\ busy # w
  /\ WorkerGoes(w, "install", "failed")
  /\ UNCHANGED <<src, stVars, fileVars, callerVars, hostVars, history>>

InstallSucceeds(w) ==
  /\ busy = w
  /\ WorkerGoes(w, "install", "done")
  /\ HostInstalled
  /\ UNCHANGED <<src, stVars, fileVars, callerVars, history>>

InstallFails(w) ==
  /\ busy = w
  /\ WorkerGoes(w, "install", "failed")
  /\ HostInstallFailed
  /\ StillPending
  /\ UNCHANGED <<src, stVars, fileVars, callerVars, reported>>

\* A percentage line; the pipe may still hold lines after rauc has ended.
ProgressLine(w) ==
  /\ busy = w \/ wpc[w] \in {"done", "failed"}
  /\ progress' \in Percentages
  /\ UNCHANGED <<status, errorcause, uploads, fileVars, workerVars, callerVars, hostVars, history>>

\* The terminal section of the worker, whatever st holds by then.
ReportDone(w) ==
  /\ wpc[w] = "done"
  /\ WorkerEnds(w)
  /\ status' = Unconfirmed /\ progress' = 100
  /\ reported' = "ok"
  /\ UNCHANGED <<errorcause, uploads, fileVars, callerVars, hostVars, sincePending, undisturbed>>

ReportFailed(w) ==
  /\ wpc[w] = "failed"
  /\ WorkerEnds(w)
  /\ status' = Error
  /\ errorcause' \in {SignatureInvalid, UpdateFailed}
  /\ reported' = "failed"
  /\ UNCHANGED <<progress, uploads, fileVars, callerVars, hostVars, sincePending, undisturbed>>

\* An installation whose client died with the container comes to its end.
OrphanEnds ==
  /\ busy = Orphan
  /\ HostInstalled \/ HostInstallFailed
  /\ StillPending
  /\ UNCHANGED <<stVars, fileVars, workerVars, callerVars, reported>>

----------------------------------------------------------------------------
(* cached(5) around rauc_slots(): check, run, two stores, return           *)

\* Each thread compares the time of a fill with one it took itself, earlier: any
\* of them may find the ttl passed, or not.  The time of a cleared box is over.
CacheCheck(c) ==
  /\ \/ CallerGoes(c, "check", "run")
     \/ box.fresh /\ CallerGoes(c, "check", "return")
  /\ UNCHANGED <<confirming, got, box, stVars, fileVars, workerVars, hostVars, history>>

CacheRun(c) ==
  /\ CallerGoes(c, "run", "storeV")
  /\ \E v \in RaucSlots : got' = [got EXCEPT ![c] = v]
  /\ UNCHANGED <<confirming, box, stVars, fileVars, workerVars, hostVars, history>>

CacheStoreV(c) ==
  /\ CallerGoes(c, "storeV", "storeT")
  /\ box' = [box EXCEPT !.v = got[c]]
  /\ got' = [got EXCEPT ![c] = None]
  /\ UNCHANGED <<confirming, stVars, fileVars, workerVars, hostVars, history>>

CacheStoreT(c) ==
  /\ CallerGoes(c, "storeT", "return")
  /\ box' = [box EXCEPT !.fresh = TRUE]
  /\ UNCHANGED <<confirming, got, stVars, fileVars, workerVars, hostVars, history>>

\* m_confirm refuses when no slot is booted or one is pending; a read of None
\* does not unpack, and the call dies with it.
Confirmable(v) == v # None /\ v.booted # NoSlot /\ v.pending = NoSlot

CacheReturn(c) ==
  /\ cpc[c] = "return"
  /\ \/ /\ c \in confirming /\ Confirmable(box.v)
        /\ cpc' = [cpc EXCEPT ![c] = "mark"]
        /\ UNCHANGED <<confirming, sincePending, undisturbed>>
     \/ /\ c \notin confirming \/ ~Confirmable(box.v)
        /\ CallEnds(c)
  /\ UNCHANGED <<got, box, stVars, fileVars, workerVars, hostVars, reported>>

----------------------------------------------------------------------------
(* The request threads                                                     *)

\* A GET of activationstate, bootedslot, pendingslot or confirmed.
PollSlots(c) ==
  /\ CallerGoes(c, "idle", "check")
  /\ UNCHANGED <<confirming, got, box, stVars, fileVars, workerVars, hostVars, history>>

\* m_finish: the check of the status and the store are two sections.
FinishCheck(c) ==
  /\ status = Unconfirmed
  /\ CallerGoes(c, "idle", "finish")
  /\ UNCHANGED <<confirming, got, box, stVars, fileVars, workerVars, hostVars, history>>

FinishSet(c) ==
  /\ CallerGoes(c, "finish", "clear")
  /\ status' = Finished
  /\ UNCHANGED <<progress, errorcause, uploads, confirming, got, box, fileVars, workerVars, hostVars, history>>

FinishClearBox(c) ==
  /\ CallerGoes(c, "clear", "check")
  /\ ClearBox
  /\ UNCHANGED <<confirming, got, stVars, fileVars, workerVars, hostVars, history>>

\* m_confirm begins by dropping the cached slots.
ConfirmBegin(c) ==
  /\ CallerGoes(c, "idle", "check")
  /\ confirming' = confirming \cup {c}
  /\ ClearBox
  /\ sincePending' = IF Pending THEN sincePending \cup {c} ELSE sincePending
  /\ undisturbed' = IF Pending /\ \A d \in Callers : cpc[d] # "storeV"
                    THEN undisturbed \cup {c} ELSE undisturbed
  /\ UNCHANGED <<got, stVars, fileVars, workerVars, hostVars, reported>>

ConfirmMarkGood(c) ==
  /\ CallerGoes(c, "mark", "clear2")
  /\ HostMarkGood
  /\ NotObserved(c)
  /\ UNCHANGED <<confirming, got, box, stVars, fileVars, workerVars, reported>>

ConfirmMarkGoodFails(c) ==
  /\ "rauc" \in Faults
  /\ cpc[c] = "mark"
  /\ CallEnds(c)
  /\ UNCHANGED <<got, box, stVars, fileVars, workerVars, hostVars, reported>>

ConfirmClearBox(c) ==
  /\ CallerGoes(c, "clear2", "confirmed")
  /\ ClearBox
  /\ UNCHANGED <<confirming, got, stVars, fileVars, workerVars, hostVars, history>>

ConfirmSet(c) ==
  /\ cpc[c] = "confirmed"
  /\ CallEnds(c)
  /\ status' = Confirmed
  /\ UNCHANGED <<progress, errorcause, uploads, got, box, fileVars, workerVars, hostVars, reported>>

----------------------------------------------------------------------------
(* Restarts                                                                *)

\* Everything the process holds is lost; the files in STAGE_DIR are not.
ProcessGone ==
  /\ status' = Inactive /\ progress' = 0 /\ errorcause' = NoError /\ uploads' = {}
  /\ wpc' = [w \in Workers |-> "idle"]
  /\ src' = [w \in Workers |-> NoSource]
  /\ cpc' = [c \in Callers |-> "idle"]
  /\ confirming' = {}
  /\ got' = [c \in Callers |-> None]
  /\ box' = [fresh |-> FALSE, v |-> None]
  /\ reported' = "none" /\ sincePending' = {} /\ undisturbed' = {}
  /\ UNCHANGED fileVars

ContainerRestart == ProcessGone /\ HostLosesClients

\* m_reboot with Confirm=true, granted by logind.  A power cut has this effect too.
Reboot == ProcessGone /\ HostBoot

----------------------------------------------------------------------------

WorkerStep(w) ==
  \/ StageCopied(w) \/ StageFails(w) \/ Spawn(w) \/ SpawnRaises(w)
  \/ InstallBegins(w) \/ InstallRefused(w) \/ InstallSucceeds(w) \/ InstallFails(w)
  \/ ReportDone(w) \/ ReportFailed(w)

CallerStep(c) ==
  \/ FinishSet(c) \/ FinishClearBox(c)
  \/ CacheCheck(c) \/ CacheRun(c) \/ CacheStoreV(c) \/ CacheStoreT(c) \/ CacheReturn(c)
  \/ ConfirmMarkGood(c) \/ ConfirmMarkGoodFails(c) \/ ConfirmClearBox(c) \/ ConfirmSet(c)

\* A step of the process that runs, or of the host.
Served ==
  \/ Activate \/ GetUploadIds \/ Clear \/ Cancel
  \/ \E w \in Workers : StartUpload(w) \/ StartEmbedded(w) \/ ProgressLine(w) \/ WorkerStep(w)
  \/ OrphanEnds
  \/ \E c \in Callers : PollSlots(c) \/ FinishCheck(c) \/ ConfirmBegin(c) \/ CallerStep(c)

Next == Served \/ ContainerRestart \/ Reboot

Spec == Init /\ [][Next]_vars

\* Threads are scheduled, the copy and `rauc install` come to an end.
Fairness ==
  /\ \A w \in Workers : WF_vars(WorkerStep(w))
  /\ \A c \in Callers : WF_vars(CallerStep(c))

FairSpec == Spec /\ Fairness

----------------------------------------------------------------------------
(* Safety                                                                  *)

\* A client that reads Error(7) finds the cause of the failure beside it, whatever
\* calls and workers interleaved ("on Error(7) read -errorcause", README 6.3).
ErrorExplained == status = Error => errorcause \in {SignatureInvalid, UpdateFailed}

\* Unconfirmed(4) and Error(7) are the outcome of the installation that reported
\* last: no other step of any thread, and no later failure, leaves a stale one.
OutcomeIsLatest ==
  /\ status = Unconfirmed => reported = "ok"
  /\ status = Error => reported = "failed"

\* Once every worker thread has ended, Unconfirmed(4) is shown with progress 100:
\* neither a second installation nor a line still in the pipe leaves it lower.
ProgressSettles ==
  status = Unconfirmed /\ (\A w \in Workers : wpc[w] = "idle") => progress = 100

\* Where Popen does not raise, Started(3) is shown only while some worker has its
\* outcome still to report: nobody waits for an update that is over, whichever
\* calls, failures and restarts came in between.
StartedOwned ==
  status = Started /\ "spawn" \notin Faults => \E w \in Workers : wpc[w] # "idle"

\* A registered upload has its file, so a PATCH of /files/{id} that found the id
\* can open it, and while the machine is inactive no upload is registered.
UploadsBacked ==
  /\ uploads \subseteq files
  /\ status = Inactive => uploads = {}

\* Confirmed(5) is shown only while the slot that runs is marked good: m_confirm
\* stores it after mark-good succeeded, with other calls and installs in between.
ConfirmedIsGood == status = Confirmed => booted \in good

\* confirm is refused while a slot is pending (m_confirm's docstring): a call that
\* no status fill overlapped at its start, and during which a slot was pending
\* all the time, never gets as far as mark-good.
UndisturbedConfirmRefused ==
  \A c \in sincePending \cap undisturbed : cpc[c] # "mark"

----------------------------------------------------------------------------
(* What the documentation says of the sequence                             *)

\* "Refused while a slot is still pending" (m_confirm): a confirm during all of
\* which a slot was pending does not reach mark-good.
ConfirmRefusedWhilePending == \A c \in sincePending : cpc[c] # "mark"

\* "any failure -> Error(7)" (module docstring): Started does not last, whether
\* the installation succeeds or fails.
StartedEnds == status = Started ~> status # Started

----------------------------------------------------------------------------
(* The promise to a client                                                 *)

InstallOf(w) ==
  CASE wpc[w] \in {"stage", "spawn", "install"} -> "flashing"
    [] wpc[w] = "done" -> "flashed"
    [] wpc[w] = "failed" -> "broken"
    [] OTHER -> "none"

Track == INSTANCE UpdateTrack WITH
  Installs   <- Workers,
  MayVanish  <- "spawn" \in Faults,
  install    <- [w \in Workers |-> InstallOf(w)],
  unattended <- busy = Orphan,
  pending    <- Pending,
  confirmed  <- booted \in good

\* Whatever the threads, the cache and the restarts do, a client sees what
\* UpdateTrack allows: one outcome per installation, and the right one.
TrackImplemented == Track!TrackSafe

\* Moreover every installation comes to its end.
TrackCompleted == Track!TrackSpec
=============================================================================
