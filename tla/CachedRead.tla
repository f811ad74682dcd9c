----------------------------- MODULE CachedRead -----------------------------
(***************************************************************************)
(* The `cached' decorator of providers/__init__.py around one read of the  *)
(* host, with the clock it looks at: as networking.py uses it for `_dns',  *)
(* which w_dns clears, behind GET /wda/parameters/{id} of api.py.  No lock *)
(* is held: the check, the read, the two stores and the return of a reader *)
(* interleave with those of the others and with the writer.                *)
(*                                                                         *)
(* time.monotonic() counts from the boot of the device.  The host's state  *)
(* is a version number; the read itself never answers None.                *)
(***************************************************************************)
EXTENDS Naturals

CONSTANTS
  Readers,      \* request threads that read the parameter
  Writers,      \* request threads that write it
  Ttl,
  MaxTime,      \* bound of the clock
  MaxVersion    \* bound of the changes of the host

ASSUME TtlAssumption == Ttl \in Nat \ {0}
ASSUME BoundsAssumption == MaxTime \in Nat /\ MaxVersion \in Nat \ {0}

VARIABLES
  now,            \* time.monotonic()
  source,         \* what the host has
  box,            \* the box of the closure
  rpc, begun, got,\* readers: where they are, their `now', what fn() returned
  wpc,            \* writers
  \* history, read by no action:
  outdatedAt,     \* when the box last came to hold, or was given, an old version
  clearedAt,      \* when it was last emptied; 0, when it was made
  clean           \* emptied with no old version on its way, and no change since

readerVars == <<rpc, begun, got>>
history == <<outdatedAt, clearedAt, clean>>
vars == <<now, source, box, readerVars, wpc, history>>

None == 0
Times == 0..MaxTime
Versions == 1..MaxVersion

TypeOK ==
  /\ now \in Times
  /\ source \in Versions
  /\ box \in [t : Times, v : Versions \cup {None}]
  /\ box.t <= now
  /\ rpc \in [Readers -> {"idle", "check", "run", "storeV", "storeT", "return"}]
  /\ begun \in [Readers -> Times]
  /\ \A r \in Readers : begun[r] <= now
  /\ got \in [Readers -> Versions \cup {None}]
  /\ wpc \in [Writers -> {"idle", "store", "clear"}]
  /\ outdatedAt \in Times /\ clearedAt \in Times
  /\ clean \in BOOLEAN

EmptyBox == [t |-> 0, v |-> None]

\* The process starts at any time after the boot.
Init ==
  /\ now \in Times
  /\ source = 1
  /\ box = EmptyBox
  /\ rpc = [r \in Readers |-> "idle"]
  /\ begun = [r \in Readers |-> 0]
  /\ got = [r \in Readers |-> None]
  /\ wpc = [w \in Writers |-> "idle"]
  /\ outdatedAt = 0 /\ clearedAt = 0 /\ clean = FALSE

ReaderGoes(r, from, to) ==
  /\ rpc[r] = from
  /\ rpc' = [rpc EXCEPT ![r] = to]

WriterGoes(w, from, to) ==
  /\ wpc[w] = from
  /\ wpc' = [wpc EXCEPT ![w] = to]

Outdated(v) == v \notin {None, source}

----------------------------------------------------------------------------
(* Mutants: the actions below with the mistakes the properties must catch. *)
(* No action of Next uses them.                                            *)

\* The time of the store in place of the time of the call.
StoreTNow(r) ==
  /\ ReaderGoes(r, "storeT", "return")
  /\ box' = [box EXCEPT !.t = now]
  /\ UNCHANGED <<now, source, begun, got, wpc, history>>

\* The end of the validity in place of its begin.
StoreDeadline(r) ==
  /\ ReaderGoes(r, "storeT", "return")
  /\ begun[r] + Ttl \in Times
  /\ box' = [box EXCEPT !.t = begun[r] + Ttl]
  /\ UNCHANGED <<now, source, begun, got, wpc, history>>

\* The box is stamped before the read.
RunStamped(r) ==
  /\ ReaderGoes(r, "run", "storeV")
  /\ got' = [got EXCEPT ![r] = source]
  /\ box' = [box EXCEPT !.t = begun[r]]
  /\ UNCHANGED <<now, source, begun, wpc, history>>

\* cache_clear that leaves the value, which the next fill that is under way stamps.
ClearTime(w) ==
  /\ WriterGoes(w, "clear", "idle")
  /\ box' = [box EXCEPT !.t = 0]
  /\ clearedAt' = now
  /\ clean' = \A r \in Readers : rpc[r] = "storeV" => got[r] = source
  /\ UNCHANGED <<now, source, readerVars, outdatedAt>>

----------------------------------------------------------------------------
(* A read                                                                  *)

\* The wrapper takes the time ...
Read(r) ==
  /\ ReaderGoes(r, "idle", "check")
  /\ begun' = [begun EXCEPT ![r] = now]
  /\ UNCHANGED <<now, source, box, got, wpc, history>>

\* ... and compares it with that of the box.
Check(r) ==
  /\ ReaderGoes(r, "check", IF begun[r] >= box.t + Ttl THEN "run" ELSE "return")
  /\ UNCHANGED <<now, source, box, begun, got, wpc, history>>

Run(r) ==
  /\ ReaderGoes(r, "run", "storeV")
  /\ got' = [got EXCEPT ![r] = source]
  /\ UNCHANGED <<now, source, box, begun, wpc, history>>

StoreV(r) ==
  /\ ReaderGoes(r, "storeV", "storeT")
  /\ box' = [box EXCEPT !.v = got[r]]
  /\ got' = [got EXCEPT ![r] = None]
  /\ outdatedAt' = IF Outdated(got[r]) THEN now ELSE outdatedAt
  /\ UNCHANGED <<now, source, begun, wpc, clearedAt, clean>>

StoreT(r) ==
  /\ ReaderGoes(r, "storeT", "return")
  /\ box' = [box EXCEPT !.t = begun[r]]
  /\ UNCHANGED <<now, source, begun, got, wpc, history>>

\* The answer is box.v as it is by then: 200, or 404 when it is None.
Return(r) ==
  /\ ReaderGoes(r, "return", "idle")
  /\ UNCHANGED <<now, source, box, begun, got, wpc, history>>

----------------------------------------------------------------------------
(* The host, and a write                                                   *)

Changes ==
  /\ source < MaxVersion
  /\ source' = source + 1
  /\ outdatedAt' = now
  /\ clean' = FALSE
  /\ UNCHANGED <<now, box, readerVars, clearedAt>>

\* DHCP, another tool, or a resolver that follows a write only later.
HostChanges == Changes /\ UNCHANGED wpc

\* w_dns: the resolver takes the servers ...
Apply(w) == WriterGoes(w, "idle", "store") /\ Changes

\* ... they are stored, unless the store fails and nobody clears the box ...
Stored(w) ==
  /\ WriterGoes(w, "store", "clear")
  /\ UNCHANGED <<now, source, box, readerVars, history>>

StoreFails(w) ==
  /\ WriterGoes(w, "store", "idle")
  /\ UNCHANGED <<now, source, box, readerVars, history>>

\* ... and the box is cleared.
Clear(w) ==
  /\ WriterGoes(w, "clear", "idle")
  /\ box' = EmptyBox
  /\ clearedAt' = now
  /\ clean' = \A r \in Readers : rpc[r] = "storeV" => got[r] = source
  /\ UNCHANGED <<now, source, readerVars, outdatedAt>>

Tick ==
  /\ now < MaxTime
  /\ now' = now + 1
  /\ UNCHANGED <<source, box, readerVars, wpc, history>>

\* The process restarts, alone or with the device, whose clock begins again.
Restart ==
  /\ now' \in {0, now}
  /\ box' = EmptyBox
  /\ rpc' = [r \in Readers |-> "idle"]
  /\ begun' = [r \in Readers |-> 0]
  /\ got' = [r \in Readers |-> None]
  /\ wpc' = [w \in Writers |-> "idle"]
  /\ outdatedAt' = 0 /\ clearedAt' = 0 /\ clean' = FALSE
  /\ UNCHANGED source

ReaderStep(r) == Check(r) \/ Run(r) \/ StoreV(r) \/ StoreT(r) \/ Return(r)
WriterStep(w) == Stored(w) \/ StoreFails(w) \/ Clear(w)

Next ==
  \/ \E r \in Readers : Read(r) \/ ReaderStep(r)
  \/ \E w \in Writers : Apply(w) \/ WriterStep(w)
  \/ HostChanges \/ Tick \/ Restart

Spec == Init /\ [][Next]_vars

----------------------------------------------------------------------------
(* Safety                                                                  *)

\* A GET that begins ttl or more after the box came to hold an old value does not
\* answer with an old value, however long a fill, its two stores or the return of
\* any reader took ("memoize a backend read for ttl seconds").
ReadsCatchUp ==
  \A r \in Readers :
    rpc[r] = "return" /\ Outdated(box.v) => begun[r] < outdatedAt + Ttl

\* After the clear at the end of a write ("utilized* must not serve a stale read")
\* no reader answers with a value from before the write, unless one had read that
\* value and not yet stored it when the box was cleared.
ClearedIsCurrent == clean => ~Outdated(box.v)

\* A GET answers that there is no such parameter only if it began within ttl of the
\* boot or of a clear: t = 0.0 and the clear between the two stores leave a box that
\* is empty and valid, but never for longer.
NoneExplained ==
  \A r \in Readers :
    rpc[r] = "return" /\ box.v = None => begun[r] < clearedAt + Ttl
=============================================================================
