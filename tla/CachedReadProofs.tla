-------------------------- MODULE CachedReadProofs --------------------------
(* Theorems about CachedRead, for any number of readers and writers, any    *)
(* ttl and any bounds of the clock and of the versions.                     *)
EXTENDS CachedRead, TLAPS

USE TtlAssumption, BoundsAssumption

\* An old value in the box is bounded by the time in the box, by that of the fills
\* that have yet to write it, and by that of the readers that return.
StaleBounded ==
  Outdated(box.v) =>
    /\ box.t <= outdatedAt
    /\ \A r \in Readers : rpc[r] = "storeT" => begun[r] <= outdatedAt
    /\ \A r \in Readers : rpc[r] = "return" => begun[r] < outdatedAt + Ttl

\* A box with no value was emptied since the time it carries.
EmptyBounded ==
  box.v = None =>
    /\ box.t <= clearedAt
    /\ \A r \in Readers : rpc[r] = "storeT" => begun[r] <= clearedAt
    /\ \A r \in Readers : rpc[r] = "return" => begun[r] < clearedAt + Ttl

\* A fill under way brings a value, after a clear that counts the current one.
FillsCarry ==
  \A r \in Readers : rpc[r] = "storeV" =>
    /\ got[r] \in Versions
    /\ clean => got[r] = source

Inv == TypeOK /\ StaleBounded /\ EmptyBounded /\ FillsCarry /\ ClearedIsCurrent

LEMMA Zero == 0 \in Times /\ 1 \in Versions /\ None \notin Versions
BY DEF Times, Versions, None

LEMMA InvInit == Init => Inv
<1> SUFFICES ASSUME Init PROVE Inv
  OBVIOUS
<1>1. box.t = 0 /\ box.v = None /\ ~Outdated(box.v)
  BY DEF Init, EmptyBox, Outdated
<1>2. \A r \in Readers : begun[r] = 0 /\ rpc[r] = "idle"
  BY DEF Init
<1>3. now \in Times /\ now >= 0
  BY DEF Init, Times
<1>4. TypeOK
  BY <1>2, <1>3, Zero DEF Init, TypeOK, EmptyBox
<1>5. StaleBounded /\ EmptyBounded /\ FillsCarry /\ ClearedIsCurrent
  BY <1>1, <1>2 DEF Init, StaleBounded, EmptyBounded, FillsCarry, ClearedIsCurrent
<1> QED BY <1>4, <1>5 DEF Inv

LEMMA NextVersion ==
  ASSUME TypeOK, Changes
  PROVE  source' \in Versions
BY DEF TypeOK, Changes, Versions

\* A box that is emptied at the current time.
LEMMA Emptied ==
  ASSUME Inv, TypeOK', box' = EmptyBox, UNCHANGED <<now, source, readerVars>>, clearedAt' = now,
         clean' = (\A r \in Readers : rpc[r] = "storeV" => got[r] = source)
  PROVE  Inv'
<1>1. ~Outdated(box.v)' /\ box'.t = 0
  BY DEF Outdated, EmptyBox
<1>2. StaleBounded' /\ ClearedIsCurrent'
  BY <1>1 DEF StaleBounded, ClearedIsCurrent
<1>3. \A r \in Readers : begun'[r] <= now /\ begun'[r] < now + Ttl
  BY DEF Inv, TypeOK, readerVars, Times
<1>4. EmptyBounded'
  BY <1>1, <1>3 DEF EmptyBounded, Inv, TypeOK, Times
<1>5. FillsCarry'
  BY DEF Inv, FillsCarry, readerVars
<1> QED BY <1>2, <1>4, <1>5 DEF Inv

\* The host changes: the box and the readers stay, and what they have is old.
LEMMA HostMoved ==
  ASSUME Inv, Changes, TypeOK'
  PROVE  Inv'
<1>1. UNCHANGED <<box, rpc, begun, got, clearedAt, now>> /\ outdatedAt' = now /\ clean' = FALSE
  BY DEF Changes, readerVars
<1>2. \A r \in Readers : begun[r] <= now /\ begun[r] < now + Ttl
  BY DEF Inv, TypeOK, Times
<1>3. StaleBounded'
  BY <1>1, <1>2 DEF StaleBounded, Inv, TypeOK
<1>4. EmptyBounded'
  BY <1>1 DEF EmptyBounded, Inv
<1>5. FillsCarry' /\ ClearedIsCurrent'
  BY <1>1 DEF FillsCarry, ClearedIsCurrent, Inv
<1> QED BY <1>3, <1>4, <1>5 DEF Inv

LEMMA InvStep == Inv /\ [Next]_vars => Inv'
<1> SUFFICES ASSUME Inv, [Next]_vars PROVE Inv'
  OBVIOUS
<1> USE DEF Inv
<1>1. ASSUME NEW r \in Readers, Read(r) PROVE Inv'
  BY <1>1 DEF Read, ReaderGoes, history, TypeOK, StaleBounded, EmptyBounded, FillsCarry,
     ClearedIsCurrent, Outdated, Times
<1>2. ASSUME NEW r \in Readers, Check(r) PROVE Inv'
  <2>1. TypeOK' /\ FillsCarry' /\ ClearedIsCurrent'
    BY <1>2 DEF Check, ReaderGoes, history, TypeOK, FillsCarry, ClearedIsCurrent, Outdated
  <2>2. UNCHANGED <<box, begun, source, outdatedAt, clearedAt>>
    BY <1>2 DEF Check, history
  <2>3. rpc'[r] = "return" => begun[r] < box.t + Ttl
    BY <1>2 DEF Check, ReaderGoes, TypeOK, Times
  <2>4. /\ \A x \in Readers : x # r => rpc'[x] = rpc[x]
        /\ rpc'[r] # "storeT"
    BY <1>2 DEF Check, ReaderGoes, TypeOK
  <2>5. StaleBounded'
    BY <2>2, <2>3, <2>4 DEF StaleBounded, Outdated, TypeOK, Times
  <2>6. EmptyBounded'
    BY <2>2, <2>3, <2>4 DEF EmptyBounded, TypeOK, Times
  <2> QED BY <2>1, <2>5, <2>6
<1>3. ASSUME NEW r \in Readers, Run(r) PROVE Inv'
  BY <1>3 DEF Run, ReaderGoes, history, TypeOK, StaleBounded, EmptyBounded, FillsCarry,
     ClearedIsCurrent, Outdated, None
<1>4. ASSUME NEW r \in Readers, StoreV(r) PROVE Inv'
  <2>1. /\ box' = [box EXCEPT !.v = got[r]]
        /\ outdatedAt' = IF Outdated(got[r]) THEN now ELSE outdatedAt
        /\ rpc' = [rpc EXCEPT ![r] = "storeT"] /\ rpc[r] = "storeV"
        /\ got' = [got EXCEPT ![r] = None]
        /\ UNCHANGED <<now, source, begun, wpc, clearedAt, clean>>
    BY <1>4 DEF StoreV, ReaderGoes
  <2>2. got[r] \in Versions /\ got[r] # None
    BY <2>1 DEF FillsCarry, Versions, None
  <2>3. box'.v = got[r] /\ box'.t = box.t
    BY <2>1 DEF TypeOK
  <2>4. TypeOK'
    BY <2>1, <2>2 DEF TypeOK
  <2>5. \A x \in Readers : begun[x] <= now /\ begun[x] < now + Ttl
    BY DEF TypeOK, Times
  <2>6. StaleBounded'
    BY <2>1, <2>3, <2>5 DEF StaleBounded, Outdated, TypeOK
  <2>7. EmptyBounded'
    BY <2>2, <2>3 DEF EmptyBounded
  <2>8. FillsCarry' /\ ClearedIsCurrent'
    BY <2>1, <2>3 DEF FillsCarry, ClearedIsCurrent, Outdated, TypeOK
  <2> QED BY <2>4, <2>6, <2>7, <2>8
<1>5. ASSUME NEW r \in Readers, StoreT(r) PROVE Inv'
  <2>1. /\ box' = [box EXCEPT !.t = begun[r]]
        /\ rpc' = [rpc EXCEPT ![r] = "return"] /\ rpc[r] = "storeT"
        /\ UNCHANGED <<now, source, begun, got, wpc, outdatedAt, clearedAt, clean>>
    BY <1>5 DEF StoreT, ReaderGoes, history
  <2>2. box'.v = box.v /\ box'.t = begun[r]
    BY <2>1 DEF TypeOK
  <2>3. TypeOK'
    BY <2>1 DEF TypeOK
  <2>4. StaleBounded'
    BY <2>1, <2>2 DEF StaleBounded, Outdated, TypeOK, Times
  <2>5. EmptyBounded'
    BY <2>1, <2>2 DEF EmptyBounded, TypeOK, Times
  <2>6. FillsCarry' /\ ClearedIsCurrent'
    BY <2>1, <2>2 DEF FillsCarry, ClearedIsCurrent, Outdated, TypeOK
  <2> QED BY <2>3, <2>4, <2>5, <2>6
<1>6. ASSUME NEW r \in Readers, Return(r) PROVE Inv'
  BY <1>6 DEF Return, ReaderGoes, history, TypeOK, StaleBounded, EmptyBounded, FillsCarry,
     ClearedIsCurrent, Outdated
<1>7. CASE HostChanges
  <2>1. TypeOK'
    BY <1>7, NextVersion DEF HostChanges, Changes, readerVars, TypeOK
  <2> QED BY <1>7, <2>1, HostMoved DEF HostChanges
<1>8. ASSUME NEW w \in Writers, Apply(w) PROVE Inv'
  <2>1. TypeOK'
    BY <1>8, NextVersion DEF Apply, Changes, WriterGoes, readerVars, TypeOK
  <2> QED BY <1>8, <2>1, HostMoved DEF Apply
<1>9. ASSUME NEW w \in Writers, Stored(w) \/ StoreFails(w) PROVE Inv'
  BY <1>9 DEF Stored, StoreFails, WriterGoes, readerVars, history, TypeOK, StaleBounded,
     EmptyBounded, FillsCarry, ClearedIsCurrent, Outdated
<1>10. ASSUME NEW w \in Writers, Clear(w) PROVE Inv'
  <2>1. TypeOK'
    BY <1>10 DEF Clear, WriterGoes, readerVars, EmptyBox, TypeOK, Times
  <2> QED BY <1>10, <2>1, Emptied DEF Clear
<1>11. CASE Tick
  BY <1>11 DEF Tick, readerVars, history, TypeOK, StaleBounded, EmptyBounded, FillsCarry,
     ClearedIsCurrent, Outdated, Times
<1>12. CASE Restart
  <2>1. box'.t = 0 /\ box'.v = None /\ ~Outdated(box.v)' /\ clearedAt' = 0
    BY <1>12 DEF Restart, EmptyBox, Outdated
  <2>2. \A r \in Readers : begun'[r] = 0 /\ rpc'[r] = "idle"
    BY <1>12 DEF Restart
  <2>3. now' \in Times /\ now' >= 0
    BY <1>12, Zero DEF Restart, TypeOK, Times
  <2>4. TypeOK'
    BY <1>12, <2>2, <2>3, Zero DEF Restart, EmptyBox, TypeOK
  <2>5. StaleBounded' /\ EmptyBounded' /\ FillsCarry' /\ ClearedIsCurrent'
    BY <2>1, <2>2 DEF StaleBounded, EmptyBounded, FillsCarry, ClearedIsCurrent
  <2> QED BY <2>4, <2>5
<1>13. CASE UNCHANGED vars
  BY <1>13 DEF vars, readerVars, history, TypeOK, StaleBounded, EmptyBounded, FillsCarry,
     ClearedIsCurrent, Outdated
<1> QED BY <1>1, <1>2, <1>3, <1>4, <1>5, <1>6, <1>7, <1>8, <1>9, <1>10, <1>11, <1>12, <1>13
  DEF Next, ReaderStep, WriterStep

----------------------------------------------------------------------------

\* Every reachable state has its type, and neither the box nor a reader has a time
\* that lies ahead of the clock.
THEOREM CacheTypeCorrect == Spec => []TypeOK
<1>1. Inv => TypeOK
  BY DEF Inv
<1> QED BY <1>1, InvInit, InvStep, PTL DEF Spec

\* No GET that begins ttl or more after the box came to hold an old value answers
\* with an old value.
THEOREM ReadsDoCatchUp == Spec => []ReadsCatchUp
<1>1. Inv => ReadsCatchUp
  BY DEF Inv, StaleBounded, ReadsCatchUp
<1> QED BY <1>1, InvInit, InvStep, PTL DEF Spec

\* After a clear that no old value was on its way past, only the current one is served.
THEOREM ClearsAreCurrent == Spec => []ClearedIsCurrent
<1>1. Inv => ClearedIsCurrent
  BY DEF Inv
<1> QED BY <1>1, InvInit, InvStep, PTL DEF Spec

\* A parameter that exists is answered with 404 only within ttl of boot or clear.
THEOREM NonesAreExplained == Spec => []NoneExplained
<1>1. Inv => NoneExplained
  BY DEF Inv, EmptyBounded, NoneExplained
<1> QED BY <1>1, InvInit, InvStep, PTL DEF Spec
=============================================================================
