--------------------------- MODULE ParameterStore ---------------------------
(***************************************************************************)
(* The two parameter stores, /app/data/wds-model.json (providers/wds.py)   *)
(* and the custom* values (providers/networking.py): a JSON object in one  *)
(* file, replaced as a whole by write-to-.tmp and rename.  The custom*     *)
(* values are applied to the host first, and once more when the process    *)
(* starts.  Every request is a thread of ThreadingHTTPServer and neither   *)
(* store has a lock.                                                       *)
(*                                                                         *)
(* An open file is known by the name it has: `fd' says whether the file a  *)
(* thread has open is now the .tmp, now the store, or has no name any more.*)
(* A value that does not validate is refused at once and not written here. *)
(***************************************************************************)
EXTENDS Naturals

CONSTANTS
  Writers,      \* request threads
  Hostname,     \* custom parameters that are not applied when cleared
  Reverting,    \* custom parameters whose clearing is applied, if a value was stored
  Intent,       \* wds parameters: stored and never applied
  Values,       \* what can be written besides Cleared
  Cleared,      \* "" or [], the default a missing key reads as
  Faults        \* the environment failures this instance can meet

Pids == Hostname \cup Reverting \cup Intent
HostPids == Hostname \cup Reverting
Contents == Values \cup {Cleared}

AllFaults == {"host",    \* no link has carrier; hostnamed, resolved or NetworkManager refuses
              "disk"}    \* makedirs, open, write or rename raises OSError

ASSUME ClearedAssumption == Cleared \notin Values
ASSUME PidsAssumption ==
  Hostname \cap Reverting = {} /\ HostPids \cap Intent = {} /\ "none" \notin Pids
ASSUME StoreFaultsAssumption == Faults \subseteq AllFaults

VARIABLES
  store, tmp,     \* the two files
  host,           \* what hostnamed, resolved or the profile has for a custom parameter
  pc, arg,        \* request threads: where they are, what they write
  data, fd,       \* the object they read and changed, the file they have open
  booting, todo,  \* reapply() runs before the listener opens
  \* history, read by no action:
  alone,          \* calls that no other call overlapped so far
  promised,       \* the value the last such call stored, while no calls overlapped
  failed          \* custom parameters whose last call failed, in reapply() or for a client

fileVars == <<store, tmp>>
threadVars == <<pc, arg, data, fd>>
bootVars == <<booting, todo>>
history == <<alone, promised, failed>>
vars == <<fileVars, host, threadVars, bootVars, history>>

Documents == [Pids -> Contents]
Defaults == [p \in Pids |-> Cleared]

\* _store_read / _read: a file that is missing or does not parse reads as {}.
\* `doc' is what a read of the file makes of it.
File == [form : {"absent", "empty", "torn", "whole"}, doc : Documents]
Absent == [form |-> "absent", doc |-> Defaults]
Empty == [form |-> "empty", doc |-> Defaults]
Torn == [form |-> "torn", doc |-> Defaults]
Whole(d) == [form |-> "whole", doc |-> d]

NoArg == [pid |-> "none"]
Args == [pid : Pids, value : Contents]
Unknown == [known |-> FALSE]
Promise(v) == [known |-> TRUE, value |-> v]

TypeOK ==
  /\ store \in File
  /\ tmp \in File
  /\ host \in [HostPids -> Contents]
  /\ pc \in [Writers -> {"idle", "apply", "load", "open", "dump", "replace"}]
  /\ arg \in [Writers -> Args \cup {NoArg}]
  /\ data \in [Writers -> Documents]
  /\ fd \in [Writers -> {"none", "tmp", "store", "gone"}]
  /\ booting \in BOOLEAN
  /\ todo \in SUBSET HostPids
  /\ alone \in SUBSET Writers
  /\ promised \in [Pids -> {Unknown} \cup {Promise(v) : v \in Contents}]
  /\ failed \in SUBSET HostPids

Threads ==
  /\ pc = [w \in Writers |-> "idle"]
  /\ arg = [w \in Writers |-> NoArg]
  /\ data = [w \in Writers |-> Defaults]
  /\ fd = [w \in Writers |-> "none"]

Init ==
  /\ store = Absent /\ tmp = Absent
  /\ host = [p \in HostPids |-> Cleared]
  /\ Threads
  /\ booting = TRUE /\ todo = HostPids
  /\ alone = {} /\ promised = [p \in Pids |-> Unknown] /\ failed = {}

----------------------------------------------------------------------------
(* A call                                                                  *)

Resting == \A w \in Writers : pc[w] = "idle"

\* w_hostname skips an empty name; w_dns and w_domain apply a cleared value
\* if one was stored.
Applies(p, v) ==
  \/ p \in HostPids /\ v # Cleared
  \/ p \in Reverting /\ store.doc[p] # Cleared

\* History: a call that begins while another is under way is not alone, and
\* from then on nothing is known of the store.
Enters(w) ==
  IF Resting THEN alone' = {w} /\ UNCHANGED promised
             ELSE alone' = {} /\ promised' = [p \in Pids |-> Unknown]

Calls(w, p, v) ==
  /\ pc[w] = "idle"
  /\ pc' = [pc EXCEPT ![w] = IF Applies(p, v) THEN "apply" ELSE "load"]
  /\ arg' = [arg EXCEPT ![w] = [pid |-> p, value |-> v]]
  /\ Enters(w)
  /\ UNCHANGED <<fileVars, host, data, fd, failed>>

Answers(w) ==
  /\ pc' = [pc EXCEPT ![w] = "idle"]
  /\ arg' = [arg EXCEPT ![w] = NoArg]
  /\ data' = [data EXCEPT ![w] = Defaults]
  /\ alone' = alone \ {w}

\* WriteError: 503 or 500 for a client, a line in the log for reapply().  What was
\* promised before stays promised: the store has not been replaced.
Fails(w) ==
  /\ Answers(w)
  /\ failed' = failed \cup ({arg[w].pid} \cap HostPids)
  /\ UNCHANGED promised

WriterGoes(w, from, to) ==
  /\ pc[w] = from
  /\ pc' = [pc EXCEPT ![w] = to]

\* The file that thread w has open gets the content c.
Writes(w, c) ==
  /\ tmp' = IF fd[w] = "tmp" THEN c ELSE tmp
  /\ store' = IF fd[w] = "store" THEN c ELSE store

Content(w) == IF fd[w] = "store" THEN store ELSE tmp

\* What one flush of d from the start makes of a file with content c: whole, unless
\* a longer text of another thread is there already and its end shows.
Flushed(c, d) ==
  {Whole(d)} \cup (IF c = Empty \/ c = Whole(d) THEN {} ELSE {Torn})

----------------------------------------------------------------------------
(* Mutants: the actions below with the mistakes the properties must catch. *)
(* No action of Next uses them.                                            *)

\* Every stored value is handed to reapply, those that are not applied included.
RestartReappliesAll ==
  /\ pc' = [w \in Writers |-> "idle"]
  /\ arg' = [w \in Writers |-> NoArg]
  /\ data' = [w \in Writers |-> Defaults]
  /\ fd' = [w \in Writers |-> "none"]
  /\ booting' = TRUE /\ todo' = Pids
  /\ alone' = {}
  /\ \E lost \in SUBSET Reverting :
       host' = [p \in HostPids |-> IF p \in lost THEN Cleared ELSE host[p]]
  /\ failed' = {}
  /\ UNCHANGED <<fileVars, promised>>

\* The store is opened in place of the .tmp.
OpenInPlace(w) ==
  /\ WriterGoes(w, "open", "dump")
  /\ store' = Empty
  /\ fd' = [fd EXCEPT ![w] = "store"]
  /\ UNCHANGED <<tmp, host, arg, data, bootVars, history>>

\* open() without truncation.
OpenKeeps(w) ==
  /\ WriterGoes(w, "open", "dump")
  /\ tmp' = IF tmp = Absent THEN Empty ELSE tmp
  /\ fd' = [fd EXCEPT ![w] = "tmp"]
  /\ UNCHANGED <<store, host, arg, data, bootVars, history>>

\* The listener opens before reapply() is through.
ListenEarly ==
  /\ booting
  /\ Resting
  /\ booting' = FALSE
  /\ UNCHANGED <<fileVars, host, threadVars, todo, history>>

----------------------------------------------------------------------------
(* The handlers                                                            *)

\* A PATCH of p with a value that validates.
Write(w) ==
  /\ ~booting
  /\ \E p \in Pids, v \in Contents : Calls(w, p, v)
  /\ UNCHANGED bootVars

\* One value of reapply(): the stored one is written again, unless it is cleared.
Reapply(w) ==
  /\ booting
  /\ Resting
  /\ \E p \in todo :
       /\ todo' = todo \ {p}
       /\ IF store.doc[p] # Cleared
          THEN Calls(w, p, store.doc[p])
          ELSE UNCHANGED <<fileVars, host, threadVars, history>>
  /\ UNCHANGED booting

Listen ==
  /\ booting
  /\ todo = {} /\ Resting
  /\ booting' = FALSE
  /\ UNCHANGED <<fileVars, host, threadVars, todo, history>>

Apply(w) ==
  /\ WriterGoes(w, "apply", "load")
  /\ host' = [host EXCEPT ![arg[w].pid] = arg[w].value]
  /\ UNCHANGED <<fileVars, arg, data, fd, bootVars, history>>

\* WriteError(503).  A call that only timed out has been carried out.
ApplyRefused(w) ==
  /\ "host" \in Faults
  /\ pc[w] = "apply"
  /\ host' \in {host, [host EXCEPT ![arg[w].pid] = arg[w].value]}
  /\ Fails(w)
  /\ UNCHANGED <<fileVars, fd, bootVars>>

\* _store_write: read and change the object ...
Load(w) ==
  /\ WriterGoes(w, "load", "open")
  /\ data' = [data EXCEPT ![w] = [store.doc EXCEPT ![arg[w].pid] = arg[w].value]]
  /\ UNCHANGED <<fileVars, host, arg, fd, bootVars, history>>

\* ... open the .tmp, which truncates it ...
Open(w) ==
  /\ WriterGoes(w, "open", "dump")
  /\ tmp' = Empty
  /\ fd' = [fd EXCEPT ![w] = "tmp"]
  /\ UNCHANGED <<store, host, arg, data, bootVars, history>>

OpenFails(w) ==
  /\ "disk" \in Faults
  /\ pc[w] = "open"
  /\ Fails(w)
  /\ UNCHANGED <<fileVars, host, fd, bootVars>>

\* ... dump the object, which reaches the file when it is closed ...
Dump(w) ==
  /\ WriterGoes(w, "dump", "replace")
  /\ \E c \in Flushed(Content(w), data[w]) : Writes(w, c)
  /\ fd' = [fd EXCEPT ![w] = "none"]
  /\ UNCHANGED <<host, arg, data, bootVars, history>>

DumpFails(w) ==
  /\ "disk" \in Faults
  /\ pc[w] = "dump"
  /\ \E c \in {Torn, Content(w)} : Writes(w, c)
  /\ fd' = [fd EXCEPT ![w] = "none"]
  /\ Fails(w)
  /\ UNCHANGED <<host, bootVars>>

\* ... and rename it.  Whoever has the file open has the store open now.
Replace(w) ==
  /\ pc[w] = "replace"
  /\ tmp # Absent
  /\ store' = tmp
  /\ tmp' = Absent
  /\ fd' = [x \in Writers |-> CASE fd[x] = "tmp" -> "store"
                                [] fd[x] = "store" -> "gone"
                                [] OTHER -> fd[x]]
  /\ Answers(w)
  /\ promised' = IF w \in alone THEN [promised EXCEPT ![arg[w].pid] = Promise(arg[w].value)]
                                ELSE promised
  /\ failed' = failed \ {arg[w].pid}
  /\ UNCHANGED <<host, bootVars>>

\* Another thread has renamed it away, or the rename fails: 500.
ReplaceFails(w) ==
  /\ pc[w] = "replace"
  /\ tmp = Absent \/ "disk" \in Faults
  /\ Fails(w)
  /\ UNCHANGED <<fileVars, host, fd, bootVars>>

\* The process goes at any point, alone or with the device: then what the host
\* holds at run time only (resolved's servers of a link) is lost too.
Restart ==
  /\ pc' = [w \in Writers |-> "idle"]
  /\ arg' = [w \in Writers |-> NoArg]
  /\ data' = [w \in Writers |-> Defaults]
  /\ fd' = [w \in Writers |-> "none"]
  /\ booting' = TRUE /\ todo' = HostPids
  /\ alone' = {} /\ failed' = {}
  /\ \E lost \in SUBSET Reverting :
       host' = [p \in HostPids |-> IF p \in lost THEN Cleared ELSE host[p]]
  /\ UNCHANGED <<fileVars, promised>>

----------------------------------------------------------------------------

WriterStep(w) ==
  \/ Apply(w) \/ ApplyRefused(w) \/ Load(w) \/ Open(w) \/ OpenFails(w)
  \/ Dump(w) \/ DumpFails(w) \/ Replace(w) \/ ReplaceFails(w)

Next ==
  \/ \E w \in Writers : Write(w) \/ Reapply(w) \/ WriterStep(w)
  \/ Listen \/ Restart

Spec == Init /\ [][Next]_vars

----------------------------------------------------------------------------
(* Safety                                                                  *)

Under(p) == \E w \in Writers : arg[w].pid = p

\* What a write that overlapped no other stored stays, whole, until the next one of
\* the parameter is renamed in or calls overlap: later calls that fail at any step, a
\* process killed in the middle of one and the leftovers of earlier overlaps do not
\* touch it (wds.py: "persisted verbatim to STORE and read back verbatim").
SettledWriteKept ==
  \A p \in Pids : promised[p].known =>
    store.form = "whole" /\ store.doc[p] = promised[p].value

\* Once the listener is open the host has what such a write of a custom parameter
\* stored, restarts of the device included: reapply() is there so that a restart does
\* not drop a value "while the parameter still claims" it.  There are two exceptions.
\* The last call for the parameter failed: a client was answered 503 or 500, or
\* reapply() logged "could not reapply" and the start went on.  And a cleared value is
\* not looked at: reapply() skips it.
HostFollowsStore ==
  \A p \in HostPids :
    ~booting /\ promised[p].known /\ ~Under(p) /\ p \notin failed =>
      promised[p].value \in {Cleared, host[p]}

----------------------------------------------------------------------------
(* The promise                                                             *)

\* All parameters are in one file: a write that overlaps another disturbs them all.
Contended == IF \E w \in Writers : pc[w] # "idle" /\ w \notin alone THEN Pids ELSE {}

Atomic == INSTANCE AtomicStore WITH
  Clients <- Writers, Parameters <- Pids, Initially <- Cleared,
  view <- store.doc, request <- arg, contended <- Contended

\* A call that no other overlaps is one atomic change of one value or no change at
\* all, wherever the disk or the host fails and whenever the process is killed, and
\* whatever calls that did overlap left in the files before it.
AtomicImplemented == Atomic!StoreSpec
=============================================================================
