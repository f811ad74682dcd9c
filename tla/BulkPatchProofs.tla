--------------------------- MODULE BulkPatchProofs ---------------------------
(***************************************************************************)
(* Proofs about BulkPatch, for any number of requests of any length, any   *)
(* devices and any faults.                                                 *)
(***************************************************************************)
EXTENDS BulkPatch, WellFoundedInduction, FiniteSetTheorems, TLAPS

USE DEF courseVars

\* A thread is at a member while it writes it, and at one of the kind it writes; it has
\* the drop-in's file open only between open and close.
ThreadsFit ==
  \A c \in Callers :
    /\ pc[c] \in Looking \cup {"nm"} => Member(c) \in BridgeMembers
    /\ pc[c] \in Writing => Member(c) \in ForwardingMembers
    /\ fd[c] # "none" => pc[c] = "dump"

\* A request that is alone is the only one, and finds the files as it left them.
AloneUndisturbed ==
  \A c \in alone :
    /\ \A d \in Callers : d # c => pc[d] = "idle"
    /\ pc[c] = "dump" => fd[c] = "tmp"
    /\ pc[c] = "replace" => tmp = Whole(Member(c).value)
    /\ pc[c] \in {"restart", "verify"} => dropin = Whole(Member(c).value)

\* Nobody writes the drop-in while something is promised of it.
PromiseAtRest == promised.known => \A c \in Callers : pc[c] \notin Writing

Inv == TypeOK /\ ThreadsFit /\ AloneUndisturbed /\ PromiseAtRest /\ SettledForwarding

----------------------------------------------------------------------------

LEMMA Files ==
  /\ Absent \in File /\ Empty \in File /\ Torn \in File
  /\ \A b \in BOOLEAN : /\ Whole(b) \in File /\ Whole(b).form = "whole" /\ Whole(b).value = b
                        /\ Whole(b) # Absent
  /\ \A f \in File, k \in BOOLEAN : AsIn(f, k) \subseteq BOOLEAN
  /\ \A b \in BOOLEAN, k \in BOOLEAN : AsIn(Whole(b), k) = {b}
<1>1. \A b \in BOOLEAN : Whole(b) \in File /\ Whole(b).form = "whole" /\ Whole(b).value = b
  BY DEF Whole, File
<1>2. Absent.form = "absent" /\ Empty.form = "empty" /\ Torn.form = "torn"
  BY DEF Absent, Empty, Torn
<1>3. \A b \in BOOLEAN : Whole(b) # Absent /\ Whole(b) # Torn
  BY <1>1, <1>2
<1>4. Absent \in File /\ Empty \in File /\ Torn \in File
  BY DEF File
<1>5. ASSUME NEW f \in File, NEW k \in BOOLEAN PROVE AsIn(f, k) \subseteq BOOLEAN
  <2>1. f.form = "whole" => f.value \in BOOLEAN
    BY <1>1, <1>2 DEF File
  <2> QED BY <2>1 DEF AsIn
<1>6. \A b \in BOOLEAN, k \in BOOLEAN : AsIn(Whole(b), k) = {b}
  BY <1>1 DEF AsIn
<1> QED BY <1>1, <1>3, <1>4, <1>5, <1>6

LEMMA MemberKinds ==
  /\ \A m \in ForwardingMembers : m.value \in BOOLEAN /\ m.param = "forwarding"
  /\ \A m \in BridgeMembers :
       \/ m.param = "gateway" /\ m.value \in Gateways \cup {Nothing}
       \/ m.param = "addresses" /\ m.value \in Addresses \cup {Nothing}
  /\ \A m \in BridgeMembers, s \in Static : Changed(m, s) \in Static
<1>1. /\ \A m \in ForwardingMembers : m.value \in BOOLEAN /\ m.param = "forwarding"
      /\ \A m \in BridgeMembers :
           \/ m.param = "gateway" /\ m.value \in Gateways \cup {Nothing}
           \/ m.param = "addresses" /\ m.value \in Addresses \cup {Nothing}
  BY DEF ForwardingMembers, BridgeMembers
<1>2. ASSUME NEW m \in BridgeMembers, NEW s \in Static PROVE Changed(m, s) \in Static
  <2>1. CASE m.param = "gateway"
    BY <1>1, <2>1 DEF Changed, Static
  <2>2. CASE m.param # "gateway"
    BY <1>1, <2>2 DEF Changed, Static
  <2> QED BY <2>1, <2>2
<1> QED BY <1>1, <1>2

LEMMA Promises ==
  \A p \in {Unknown, Promise(TRUE), Promise(FALSE)} : p.known => p.value \in BOOLEAN
<1>1. ~Unknown.known
  BY Zenon DEF Unknown
<1>2. Promise(TRUE).value = TRUE /\ Promise(FALSE).value = FALSE
  BY DEF Promise
<1>3. Promise(TRUE).value \in BOOLEAN /\ Promise(FALSE).value \in BOOLEAN
  BY <1>2
<1> QED BY <1>1, <1>3, Zenon

LEMMA InitInv == Init => Inv
<1> SUFFICES ASSUME Init PROVE Inv
  OBVIOUS
<1> USE DEF Init, SysctlInit, Threads
<1>1. TypeOK
  <2>1. SysctlTypeOK
    BY Files DEF SysctlTypeOK
  <2>2. static \in [Devices -> Static]
    BY DEF Static, Dhcp
  <2>3. req \in [Callers -> Seq(Members)]
    OBVIOUS
  <2>4. /\ pc \in [Callers -> {"idle", "next", "nm"} \cup Looking \cup Writing \cup Ended]
        /\ \A c \in Callers : pc[c] \notin Looking \cup Writing \cup {"nm"}
    BY DEF Looking, Writing
  <2>5. promised \in {Unknown, Promise(TRUE), Promise(FALSE)}
    OBVIOUS
  <2>6. /\ at \in [Callers -> Nat \ {0}] /\ dev \in [Callers -> Devices \cup {NoDevice}]
        /\ alone \in SUBSET Callers /\ shaken \in SUBSET Callers
    OBVIOUS
  <2> HIDE DEF Init, SysctlInit, Threads
  <2>7. present \in SUBSET BridgeDevices /\ addressed \in SUBSET Ports
        /\ foreign \in BOOLEAN /\ before = NoConfiguration /\ misread = {}
    BY DEF Init
  <2> QED BY <2>1, <2>2, <2>3, <2>4, <2>5, <2>6, <2>7 DEF TypeOK
<1>2. ThreadsFit /\ AloneUndisturbed
  BY DEF ThreadsFit, AloneUndisturbed, Looking, Writing
<1>3. PromiseAtRest /\ SettledForwarding
  BY DEF PromiseAtRest, SettledForwarding, Unknown
<1> QED BY <1>1, <1>2, <1>3 DEF Inv

----------------------------------------------------------------------------
(* The steps that change no file and no promise                            *)

\* What such a step of thread c from one place to another has to respect.
LEMMA MoveKeepsInv ==
  ASSUME Inv, NEW c \in Callers, NEW from, NEW to,
         pc[c] = from, pc' = [pc EXCEPT ![c] = to],
         from # "idle", from # "dump",
         to \in {"next", "nm"} \cup Looking \cup Writing \cup Ended,
         to \notin {"dump", "replace", "restart", "verify"},
         at' \in [Callers -> Nat \ {0}],
         \A d \in Callers : d # c => at'[d] = at[d],
         to \in Looking \cup Writing \cup {"nm"} => at' = at /\ at[c] \in DOMAIN req[c],
         to \in Looking \cup {"nm"} => Member(c) \in BridgeMembers,
         to \in Writing => Member(c) \in ForwardingMembers /\ promised' = Unknown,
         dev' \in [Callers -> Devices \cup {NoDevice}],
         \A d \in Callers : d # c => dev'[d] = dev[d],
         to = "nm" => dev'[c] \in Devices,
         static' \in [Devices -> Static], addressed' \in SUBSET Ports,
         promised' \in {promised, Unknown},
         shaken' \in SUBSET Callers, misread' \in SUBSET (Nat \ {0}),
         UNCHANGED <<sysctlVars, present, req, alone, before, foreign>>
  PROVE  Inv'
<1> USE DEF Inv
<1>1. TypeOK'
  <2>1. SysctlTypeOK'
    BY DEF TypeOK, SysctlTypeOK, sysctlVars
  <2>2. \A d \in Callers : pc'[d] = "nm" => dev'[d] \in Devices
    BY DEF TypeOK
  <2>3. \A d \in Callers :
          pc'[d] \in Looking \cup Writing \cup {"nm"} => at'[d] \in DOMAIN req'[d]
    BY DEF TypeOK
  <2>4. /\ pc' \in [Callers -> {"idle", "next", "nm"} \cup Looking \cup Writing \cup Ended]
        /\ promised' \in {Unknown, Promise(TRUE), Promise(FALSE)}
    BY DEF TypeOK
  <2> QED BY <2>1, <2>2, <2>3, <2>4 DEF TypeOK
<1>2. ThreadsFit'
  <2> SUFFICES ASSUME NEW d \in Callers
               PROVE  /\ pc'[d] \in Looking \cup {"nm"} => Member(d)' \in BridgeMembers
                      /\ pc'[d] \in Writing => Member(d)' \in ForwardingMembers
                      /\ fd'[d] # "none" => pc'[d] = "dump"
    BY DEF ThreadsFit
  <2>1. CASE d = c
    BY <2>1 DEF ThreadsFit, TypeOK, Member, sysctlVars
  <2>2. CASE d # c
    BY <2>2 DEF ThreadsFit, TypeOK, Member, sysctlVars
  <2> QED BY <2>1, <2>2
<1>3. AloneUndisturbed'
  <2> SUFFICES ASSUME NEW a \in alone
               PROVE  /\ \A d \in Callers : d # a => pc'[d] = "idle"
                      /\ pc'[a] = "dump" => fd'[a] = "tmp"
                      /\ pc'[a] = "replace" => tmp' = Whole(Member(a).value)'
                      /\ pc'[a] \in {"restart", "verify"} => dropin' = Whole(Member(a).value)'
    BY DEF AloneUndisturbed
  <2>1. a = c
    BY DEF AloneUndisturbed
  <2> QED BY <2>1 DEF AloneUndisturbed, TypeOK
<1>4. PromiseAtRest'
  BY DEF PromiseAtRest, Unknown, TypeOK, Writing
<1>5. SettledForwarding'
  BY DEF SettledForwarding, Unknown, sysctlVars
<1> QED BY <1>1, <1>2, <1>3, <1>4, <1>5

----------------------------------------------------------------------------
(* The other steps                                                         *)

LEMMA CallKeepsInv ==
  ASSUME Inv, NEW c \in Callers, Call(c), shaken' \in SUBSET Callers
  PROVE  Inv'
<1> USE DEF Inv, Call, Goes, Disturbed
<1>1. TypeOK'
  <2>1. SysctlTypeOK'
    BY DEF TypeOK, SysctlTypeOK, sysctlVars
  <2>2. Configuration \in [dropin : File, static : [Devices -> Static]]
    BY DEF Configuration, TypeOK, SysctlTypeOK
  <2>3. before' \in [dropin : File, static : [Devices -> Static]] \cup {NoConfiguration}
    BY <2>2
  <2>4. req' \in [Callers -> Seq(Members)]
    BY OffersAssumption DEF TypeOK
  <2>5. \A d \in Callers : pc'[d] = "nm" => dev'[d] \in Devices
    BY DEF TypeOK
  <2>6. \A d \in Callers :
          pc'[d] \in Looking \cup Writing \cup {"nm"} => at'[d] \in DOMAIN req'[d]
    BY DEF TypeOK, Looking, Writing
  <2>7. /\ pc' \in [Callers -> {"idle", "next", "nm"} \cup Looking \cup Writing \cup Ended]
        /\ alone' \in SUBSET Callers /\ misread' = {}
    BY DEF TypeOK
  <2>8. /\ present' \in SUBSET BridgeDevices /\ addressed' \in SUBSET Ports
        /\ static' \in [Devices -> Static]
        /\ at' \in [Callers -> Nat \ {0}] /\ dev' \in [Callers -> Devices \cup {NoDevice}]
        /\ promised' \in {Unknown, Promise(TRUE), Promise(FALSE)} /\ foreign' \in BOOLEAN
    BY DEF TypeOK, deviceVars
  <2> HIDE DEF Inv, Call, Goes, Disturbed
  <2> QED BY <2>1, <2>3, <2>4, <2>5, <2>6, <2>7, <2>8 DEF TypeOK
<1>2. ThreadsFit'
  <2> SUFFICES ASSUME NEW d \in Callers
               PROVE  /\ pc'[d] \in Looking \cup {"nm"} => Member(d)' \in BridgeMembers
                      /\ pc'[d] \in Writing => Member(d)' \in ForwardingMembers
                      /\ fd'[d] # "none" => pc'[d] = "dump"
    BY DEF ThreadsFit
  <2>1. CASE d = c
    BY <2>1 DEF ThreadsFit, TypeOK, sysctlVars, Looking, Writing
  <2>2. CASE d # c
    BY <2>2 DEF ThreadsFit, TypeOK, Member, sysctlVars
  <2> QED BY <2>1, <2>2
<1>3. AloneUndisturbed'
  BY DEF AloneUndisturbed, TypeOK
<1>4. PromiseAtRest' /\ SettledForwarding'
  BY DEF PromiseAtRest, SettledForwarding, TypeOK, Writing, sysctlVars
<1> QED BY <1>1, <1>2, <1>3, <1>4

LEMMA ReturnKeepsInv ==
  ASSUME Inv, NEW c \in Callers, Return(c), shaken' \in SUBSET Callers
  PROVE  Inv'
<1> USE DEF Inv, Return, Disturbed
<1>1. TypeOK'
  <2>1. SysctlTypeOK'
    BY DEF TypeOK, SysctlTypeOK, sysctlVars
  <2>2. req' \in [Callers -> Seq(Members)]
    BY DEF TypeOK
  <2>3. \A d \in Callers : pc'[d] = "nm" => dev'[d] \in Devices
    BY DEF TypeOK
  <2>4. \A d \in Callers :
          pc'[d] \in Looking \cup Writing \cup {"nm"} => at'[d] \in DOMAIN req'[d]
    BY DEF TypeOK, Looking, Writing
  <2>5. /\ pc' \in [Callers -> {"idle", "next", "nm"} \cup Looking \cup Writing \cup Ended]
        /\ alone' \in SUBSET Callers /\ misread' \in SUBSET (Nat \ {0})
        /\ before' \in [dropin : File, static : [Devices -> Static]] \cup {NoConfiguration}
    BY DEF TypeOK
  <2>6. /\ present' \in SUBSET BridgeDevices /\ addressed' \in SUBSET Ports
        /\ static' \in [Devices -> Static]
        /\ dev' \in [Callers -> Devices \cup {NoDevice}]
        /\ promised' \in {Unknown, Promise(TRUE), Promise(FALSE)} /\ foreign' \in BOOLEAN
    BY DEF TypeOK, deviceVars
  <2>7. at' \in [Callers -> Nat \ {0}]
    BY DEF TypeOK
  <2> HIDE DEF Inv, Return, Disturbed
  <2> QED BY <2>1, <2>2, <2>3, <2>4, <2>5, <2>6, <2>7 DEF TypeOK
<1>2. ThreadsFit'
  <2> SUFFICES ASSUME NEW d \in Callers
               PROVE  /\ pc'[d] \in Looking \cup {"nm"} => Member(d)' \in BridgeMembers
                      /\ pc'[d] \in Writing => Member(d)' \in ForwardingMembers
                      /\ fd'[d] # "none" => pc'[d] = "dump"
    BY DEF ThreadsFit
  <2>1. CASE d = c
    BY <2>1 DEF ThreadsFit, TypeOK, sysctlVars, Looking, Writing, Ended
  <2>2. CASE d # c
    BY <2>2 DEF ThreadsFit, TypeOK, Member, sysctlVars
  <2> QED BY <2>1, <2>2
<1>3. AloneUndisturbed'
  BY DEF AloneUndisturbed, TypeOK, Ended
<1>4. PromiseAtRest' /\ SettledForwarding'
  BY DEF PromiseAtRest, SettledForwarding, TypeOK, Writing, sysctlVars
<1> QED BY <1>1, <1>2, <1>3, <1>4

\* A step of the writer of the drop-in: a file of it, or the queue, changes.
LEMMA WriterKeepsInv ==
  ASSUME Inv, NEW c \in Callers, NEW to,
         pc[c] \in Writing, pc' = [pc EXCEPT ![c] = to],
         to \in Writing \cup {"error", "timeout"},
         SysctlTypeOK',
         \A d \in Callers : d # c => (fd'[d] # "none" => fd[d] # "none"),
         fd'[c] # "none" => to = "dump",
         c \in alone =>
           /\ to = "dump" => fd'[c] = "tmp"
           /\ to = "replace" => tmp' = Whole(Member(c).value)
           /\ to \in {"restart", "verify"} => dropin' = Whole(Member(c).value),
         shaken' \in SUBSET Callers,
         UNCHANGED <<deviceVars, req, at, dev, history>>
  PROVE  Inv'
<1> USE DEF Inv
<1>1. TypeOK'
  BY DEF TypeOK, deviceVars, history, Looking, Writing, Ended
<1>2. ThreadsFit'
  <2> SUFFICES ASSUME NEW d \in Callers
               PROVE  /\ pc'[d] \in Looking \cup {"nm"} => Member(d)' \in BridgeMembers
                      /\ pc'[d] \in Writing => Member(d)' \in ForwardingMembers
                      /\ fd'[d] # "none" => pc'[d] = "dump"
    BY DEF ThreadsFit
  <2>1. CASE d = c
    BY <2>1 DEF ThreadsFit, TypeOK, Member, Looking, Writing
  <2>2. CASE d # c
    BY <2>2 DEF ThreadsFit, TypeOK, Member
  <2> QED BY <2>1, <2>2
<1>3. AloneUndisturbed'
  <2> SUFFICES ASSUME NEW a \in alone
               PROVE  /\ \A d \in Callers : d # a => pc'[d] = "idle"
                      /\ pc'[a] = "dump" => fd'[a] = "tmp"
                      /\ pc'[a] = "replace" => tmp' = Whole(Member(a).value)'
                      /\ pc'[a] \in {"restart", "verify"} => dropin' = Whole(Member(a).value)'
    BY DEF AloneUndisturbed, history
  <2>1. a = c
    BY DEF AloneUndisturbed, Writing
  <2>2. Member(a)' = Member(a)
    BY DEF Member
  <2> QED BY <2>1, <2>2 DEF AloneUndisturbed, TypeOK, Whole
<1>4. PromiseAtRest' /\ SettledForwarding'
  BY DEF PromiseAtRest, SettledForwarding, history
<1> QED BY <1>1, <1>2, <1>3, <1>4

LEMMA GivingUpKeepsInv ==
  ASSUME Inv, NEW c \in Callers, NEW to \in {"error", "timeout"},
         pc[c] \in Writing, pc' = [pc EXCEPT ![c] = to],
         SysctlTypeOK',
         \A d \in Callers : d # c => (fd'[d] # "none" => fd[d] # "none"),
         fd'[c] = "none",
         shaken' \in SUBSET Callers,
         UNCHANGED <<deviceVars, req, at, dev, history>>
  PROVE  Inv'
<1>1. to \in Writing \cup {"error", "timeout"}
  OBVIOUS
<1>2. to \notin {"dump", "replace", "restart", "verify"}
  OBVIOUS
<1>3. c \in alone =>
           /\ to = "dump" => fd'[c] = "tmp"
           /\ to = "replace" => tmp' = Whole(Member(c).value)
           /\ to \in {"restart", "verify"} => dropin' = Whole(Member(c).value)
  BY <1>2
<1> QED BY <1>1, <1>3, WriterKeepsInv

LEMMA ForwardingKeepsInv ==
  ASSUME Inv, NEW c \in Callers, ForwardingStep(c), shaken' \in SUBSET Callers
  PROVE  Inv'
<1> USE DEF Goes
<1>0. /\ pc[c] \in Writing => Member(c).value \in BOOLEAN
      /\ SysctlTypeOK /\ (c \in alone => AloneUndisturbed)
  BY MemberKinds DEF Inv, ThreadsFit, TypeOK
<1>1. CASE Open(c)
  <2>1. SysctlTypeOK'
    BY <1>0, <1>1, Files DEF Open, SysctlOpen, SysctlTypeOK
  <2>2. /\ pc[c] = "open" /\ pc' = [pc EXCEPT ![c] = "dump"]
        /\ fd' = [fd EXCEPT ![c] = "tmp"]
        /\ UNCHANGED <<deviceVars, req, at, dev, history>>
    BY <1>1 DEF Open, SysctlOpen
  <2>3. fd'[c] = "tmp" /\ \A d \in Callers : d # c => fd'[d] = fd[d]
    BY <1>0, <2>2 DEF SysctlTypeOK
  <2> QED BY <2>1, <2>2, <2>3, WriterKeepsInv DEF Writing
<1>2. CASE Dump(c)
  <2>1. SysctlTypeOK'
    BY <1>0, <1>2, Files DEF Dump, SysctlDump, Writes, SysctlTypeOK, Writing
  <2>2. /\ pc[c] = "dump" /\ pc' = [pc EXCEPT ![c] = "replace"]
        /\ fd' = [fd EXCEPT ![c] = "none"]
        /\ UNCHANGED <<deviceVars, req, at, dev, history>>
    BY <1>2 DEF Dump, SysctlDump, Writes
  <2>3. fd'[c] = "none" /\ \A d \in Callers : d # c => fd'[d] = fd[d]
    BY <1>0, <2>2 DEF SysctlTypeOK
  <2>4. c \in alone => tmp' = Whole(Member(c).value)
    BY <1>0, <1>2, <2>2 DEF Dump, SysctlDump, Writes, AloneUndisturbed
  <2> QED BY <2>1, <2>2, <2>3, <2>4, WriterKeepsInv DEF Writing
<1>3. CASE DumpFails(c)
  <2>1. SysctlTypeOK'
    BY <1>0, <1>3, Files DEF DumpFails, SysctlDumpFails, Writes, Content, SysctlTypeOK
  <2>2. /\ pc[c] = "dump" /\ pc' = [pc EXCEPT ![c] = "error"]
        /\ fd' = [fd EXCEPT ![c] = "none"]
        /\ UNCHANGED <<deviceVars, req, at, dev, history>>
    BY <1>3 DEF DumpFails, Fails, SysctlDumpFails, Writes
  <2>3. fd'[c] = "none" /\ \A d \in Callers : d # c => fd'[d] = fd[d]
    BY <1>0, <2>2 DEF SysctlTypeOK
  <2> QED BY <2>1, <2>2, <2>3, GivingUpKeepsInv DEF Writing
<1>4. CASE Replace(c)
  <2>1. SysctlTypeOK'
    BY <1>0, <1>4, Files DEF Replace, SysctlReplace, SysctlTypeOK
  <2>2. /\ pc[c] = "replace" /\ pc' = [pc EXCEPT ![c] = "restart"]
        /\ dropin' = tmp
        /\ \A d \in Callers : fd'[d] # "none" => fd[d] # "none"
        /\ UNCHANGED <<deviceVars, req, at, dev, history>>
    BY <1>4 DEF Replace, SysctlReplace
  <2>3. fd[c] = "none"
    BY <2>2 DEF Inv, ThreadsFit
  <2>4. c \in alone => dropin' = Whole(Member(c).value)
    BY <1>0, <2>2 DEF AloneUndisturbed
  <2> QED BY <2>1, <2>2, <2>3, <2>4, WriterKeepsInv DEF Writing
<1>5. CASE RestartUnit(c) \/ RestartTimesOut(c)
  <2>1. SysctlTypeOK'
    BY <1>0, <1>5 DEF RestartUnit, RestartTimesOut, SysctlRestart, SysctlTypeOK, sysctlVars
  <2>2. /\ fd' = fd /\ dropin' = dropin
        /\ UNCHANGED <<deviceVars, req, at, dev, history>>
        /\ pc[c] = "restart"
        /\ \/ pc' = [pc EXCEPT ![c] = "verify"]
           \/ pc' = [pc EXCEPT ![c] = "timeout"]
    BY <1>5 DEF RestartUnit, RestartTimesOut, SysctlRestart, sysctlVars
  <2>3. fd[c] = "none"
    BY <2>2 DEF Inv, ThreadsFit
  <2>4. c \in alone => dropin' = Whole(Member(c).value)
    BY <1>0, <2>2 DEF AloneUndisturbed
  <2>5. CASE pc' = [pc EXCEPT ![c] = "verify"]
    BY <2>1, <2>2, <2>3, <2>4, <2>5, WriterKeepsInv DEF Writing
  <2>6. CASE pc' = [pc EXCEPT ![c] = "timeout"]
    BY <2>1, <2>2, <2>3, <2>6, GivingUpKeepsInv DEF Writing
  <2> QED BY <2>2, <2>5, <2>6
<1>6. CASE OpenFails(c) \/ ReplaceFails(c) \/ RestartRefused(c) \/ VerifyFails(c)
  <2>1. /\ UNCHANGED sysctlVars
        /\ UNCHANGED <<deviceVars, req, at, dev, history>>
        /\ pc[c] \in Writing /\ pc[c] # "dump"
        /\ pc' = [pc EXCEPT ![c] = "error"]
    BY <1>6 DEF OpenFails, ReplaceFails, RestartRefused, VerifyFails, Fails, Writing
  <2>2. SysctlTypeOK'
    BY <1>0, <2>1 DEF SysctlTypeOK, sysctlVars
  <2>3. fd' = fd /\ fd[c] = "none"
    BY <2>1 DEF Inv, ThreadsFit, sysctlVars
  <2> QED BY <2>1, <2>2, <2>3, GivingUpKeepsInv
<1>7. CASE Verify(c)
  <2> USE <1>7 DEF Verify, Applied, SysctlReads
  <2>1. /\ pc[c] = "verify" /\ pc' = [pc EXCEPT ![c] = "next"]
        /\ UNCHANGED <<sysctlVars, deviceVars, req, dev, alone, before, foreign>>
    OBVIOUS
  <2>2. TypeOK'
    <3>1. SysctlTypeOK'
      BY <1>0 DEF SysctlTypeOK, sysctlVars
    <3>2. at' \in [Callers -> Nat \ {0}]
      BY DEF Inv, TypeOK
    <3>3. promised' \in {Unknown, Promise(TRUE), Promise(FALSE)}
      BY <1>0 DEF Writing
    <3>4. \A d \in Callers : pc'[d] = "nm" => dev'[d] \in Devices
      BY DEF Inv, TypeOK
    <3>5. \A d \in Callers :
            pc'[d] \in Looking \cup Writing \cup {"nm"} => at'[d] \in DOMAIN req'[d]
      BY DEF Inv, TypeOK, Looking, Writing
    <3> QED BY <3>1, <3>2, <3>3, <3>4, <3>5 DEF Inv, TypeOK, deviceVars
  <2>3. ThreadsFit'
    <3> SUFFICES ASSUME NEW d \in Callers
                 PROVE  /\ pc'[d] \in Looking \cup {"nm"} => Member(d)' \in BridgeMembers
                        /\ pc'[d] \in Writing => Member(d)' \in ForwardingMembers
                        /\ fd'[d] # "none" => pc'[d] = "dump"
      BY DEF ThreadsFit
    <3>1. CASE d = c
      BY <3>1 DEF Inv, ThreadsFit, TypeOK, sysctlVars, Looking, Writing
    <3>2. CASE d # c
      BY <3>2 DEF Inv, ThreadsFit, TypeOK, Member, sysctlVars
    <3> QED BY <3>1, <3>2
  <2>4. AloneUndisturbed'
    BY DEF Inv, AloneUndisturbed, TypeOK
  <2>5. PromiseAtRest' /\ SettledForwarding'
    <3>1. CASE c \in alone
      <4>1. \A d \in Callers : pc'[d] \notin Writing
        BY <3>1 DEF Inv, AloneUndisturbed, TypeOK, Writing
      <4>2. dropin' = Whole(Member(c).value) /\ kernel' = Member(c).value
        BY <3>1 DEF Inv, AloneUndisturbed, sysctlVars
      <4> QED BY <3>1, <4>1, <4>2 DEF PromiseAtRest, SettledForwarding, Promise
    <3>2. CASE c \notin alone
      BY <3>2 DEF PromiseAtRest, SettledForwarding, Unknown
    <3> QED BY <3>1, <3>2
  <2> QED BY <2>2, <2>3, <2>4, <2>5 DEF Inv
<1> QED BY <1>1, <1>2, <1>3, <1>4, <1>5, <1>6, <1>7 DEF ForwardingStep

LEMMA NmSetsFits ==
  ASSUME Inv, NEW c \in Callers, pc[c] = "nm", NmSets(c)
  PROVE  /\ static' \in [Devices -> Static] /\ addressed' \in SUBSET Ports
         /\ misread' \in SUBSET (Nat \ {0})
<1>1. dev[c] \in Devices /\ Member(c) \in BridgeMembers
  BY DEF Inv, TypeOK, ThreadsFit
<1>2. PICK s \in StaticReads(c) :
        /\ static' = [static EXCEPT ![dev[c]] = Changed(Member(c), s)]
        /\ misread' = IF c \in alone /\ s # static[dev[c]] THEN misread \cup {at[c]} ELSE misread
        /\ addressed' \in Readdressed(dev[c])
  BY DEF NmSets
<1>3. s \in Static
  BY <1>1 DEF StaticReads, Dhcp, Static, Inv, TypeOK
<1>4. static' \in [Devices -> Static]
  BY <1>1, <1>2, <1>3, MemberKinds DEF Inv, TypeOK
<1>5. addressed' \in SUBSET Ports
  BY <1>1, <1>2 DEF Inv, TypeOK, Readdressed, Devices
<1>6. misread' \in SUBSET (Nat \ {0})
  BY <1>2 DEF Inv, TypeOK
<1> QED BY <1>4, <1>5, <1>6

LEMMA BridgeKeepsInv ==
  ASSUME Inv, NEW c \in Callers, BridgeStep(c), shaken' \in SUBSET Callers
  PROVE  Inv'
<1>1. CASE Writable(c)
  <2>1. /\ pc[c] = "next" /\ pc' = [pc EXCEPT ![c] = "set"]
        /\ at[c] \in DOMAIN req[c] /\ Member(c) \in BridgeMembers
        /\ UNCHANGED <<sysctlVars, deviceVars, req, at, dev, history>>
    BY <1>1 DEF Writable, Goes
  <2> QED BY <2>1, MoveKeepsInv DEF Inv, TypeOK, deviceVars, history, Looking, Writing
<1>2. CASE SetParam(c)
  <2>1. /\ pc[c] = "set"
        /\ \/ pc' = [pc EXCEPT ![c] = "dev"]
           \/ pc' = [pc EXCEPT ![c] = "keyerror"]
        /\ UNCHANGED <<sysctlVars, deviceVars, req, at, dev, history>>
    BY <1>2 DEF SetParam, Goes
  <2>2. at[c] \in DOMAIN req[c] /\ Member(c) \in BridgeMembers
    BY <2>1 DEF Inv, TypeOK, ThreadsFit, Looking
  <2>3. CASE pc' = [pc EXCEPT ![c] = "dev"]
    BY <2>1, <2>2, <2>3, MoveKeepsInv DEF Inv, TypeOK, deviceVars, history, Looking, Writing
  <2>4. CASE pc' = [pc EXCEPT ![c] = "keyerror"]
    BY <2>1, <2>4, MoveKeepsInv DEF Inv, TypeOK, deviceVars, history, Looking, Writing, Ended
  <2> QED BY <2>1, <2>3, <2>4
<1>3. CASE IpWriter(c)
  <2>1. /\ pc[c] = "dev" /\ pc' = [pc EXCEPT ![c] = "nm"]
        /\ dev' \in [Callers -> Devices \cup {NoDevice}] /\ dev'[c] \in Devices
        /\ \A d \in Callers : d # c => dev'[d] = dev[d]
        /\ UNCHANGED <<sysctlVars, deviceVars, req, at, history>>
    BY <1>3 DEF IpWriter, Goes, Inv, TypeOK
  <2>2. at[c] \in DOMAIN req[c] /\ Member(c) \in BridgeMembers
    BY <2>1 DEF Inv, TypeOK, ThreadsFit, Looking
  <2> QED BY <2>1, <2>2, MoveKeepsInv DEF Inv, TypeOK, deviceVars, history, Looking, Writing
<1>4. CASE NoInstance(c)
  <2>1. /\ pc[c] = "dev" /\ pc' = [pc EXCEPT ![c] = "error"]
        /\ UNCHANGED <<sysctlVars, deviceVars, req, at, dev, history>>
    BY <1>4 DEF NoInstance, Fails
  <2> QED BY <2>1, MoveKeepsInv DEF Inv, TypeOK, deviceVars, history, Looking, Writing, Ended
<1>5. CASE NmWrite(c)
  <2>1. /\ pc[c] = "nm" /\ pc' = [pc EXCEPT ![c] = "next"] /\ NmSets(c)
        /\ at' = [at EXCEPT ![c] = @ + 1]
        /\ dev' = [dev EXCEPT ![c] = NoDevice]
        /\ UNCHANGED <<sysctlVars, present, req, alone, before, promised, foreign>>
    BY <1>5 DEF NmWrite, Applied
  <2>2. /\ at' \in [Callers -> Nat \ {0}] /\ \A d \in Callers : d # c => at'[d] = at[d]
    BY <2>1 DEF Inv, TypeOK
  <2>3. /\ dev' \in [Callers -> Devices \cup {NoDevice}]
        /\ \A d \in Callers : d # c => dev'[d] = dev[d]
    BY <2>1 DEF Inv, TypeOK
  <2> QED BY <2>1, <2>2, <2>3, NmSetsFits, MoveKeepsInv DEF Looking, Writing
<1>6. CASE NmRefused(c)
  <2>1. /\ pc[c] = "nm" /\ pc' = [pc EXCEPT ![c] = "error"]
        /\ NmSets(c) \/ UNCHANGED <<static, addressed, misread>>
        /\ dev' = [dev EXCEPT ![c] = NoDevice]
        /\ UNCHANGED <<sysctlVars, present, req, at, alone, before, promised, foreign>>
    BY <1>6 DEF NmRefused, Fails
  <2>2. /\ dev' \in [Callers -> Devices \cup {NoDevice}]
        /\ \A d \in Callers : d # c => dev'[d] = dev[d]
    BY <2>1 DEF Inv, TypeOK
  <2>3. /\ static' \in [Devices -> Static] /\ addressed' \in SUBSET Ports
        /\ misread' \in SUBSET (Nat \ {0}) /\ at \in [Callers -> Nat \ {0}]
    BY <2>1, NmSetsFits DEF Inv, TypeOK
  <2> QED BY <2>1, <2>2, <2>3, MoveKeepsInv DEF Looking, Writing, Ended
<1> QED BY <1>1, <1>2, <1>3, <1>4, <1>5, <1>6 DEF BridgeStep

LEMMA CallerKeepsInv ==
  ASSUME Inv, NEW c \in Callers, CallerStep(c), shaken' \in SUBSET Callers
  PROVE  Inv'
<1>1. CASE Completed(c)
  <2>1. /\ pc[c] = "next" /\ pc' = [pc EXCEPT ![c] = "applied"]
        /\ UNCHANGED <<sysctlVars, deviceVars, req, at, dev, history>>
    BY <1>1 DEF Completed, Goes
  <2> QED BY <2>1, MoveKeepsInv DEF Inv, TypeOK, deviceVars, history, Looking, Writing, Ended
<1>2. CASE Unwritable(c)
  <2>1. /\ pc[c] = "next" /\ pc' = [pc EXCEPT ![c] = "error"]
        /\ UNCHANGED <<sysctlVars, deviceVars, req, at, dev, history>>
    BY <1>2 DEF Unwritable, Fails
  <2> QED BY <2>1, MoveKeepsInv DEF Inv, TypeOK, deviceVars, history, Looking, Writing, Ended
<1>3. CASE Forwarding(c)
  <2>1. /\ pc[c] = "next" /\ pc' = [pc EXCEPT ![c] = "open"]
        /\ at[c] \in DOMAIN req[c] /\ Member(c) \in ForwardingMembers
        /\ promised' = Unknown
        /\ UNCHANGED <<sysctlVars, deviceVars, req, at, dev, courseVars, foreign>>
    BY <1>3 DEF Forwarding, Goes
  <2> QED BY <2>1, MoveKeepsInv DEF Inv, TypeOK, deviceVars, Looking, Writing
<1> QED BY <1>1, <1>2, <1>3, CallKeepsInv, ReturnKeepsInv, BridgeKeepsInv, ForwardingKeepsInv
        DEF CallerStep

LEMMA HostKeepsInv ==
  ASSUME Inv, UnitRuns \/ HostSets \/ DevicesChange, shaken' \in SUBSET Callers
  PROVE  Inv'
<1>0. /\ UNCHANGED <<dropin, tmp, fd, static, pc, req, at, dev, promised>>
      /\ \/ UNCHANGED <<alone, before, misread>>
         \/ alone' = {} /\ before' = NoConfiguration /\ misread' = {}
      /\ present' \in SUBSET BridgeDevices /\ addressed' \in SUBSET Ports
      /\ foreign' \in BOOLEAN
  BY DEF UnitRuns, HostSets, DevicesChange, SysctlUnitRuns, SysctlHostSets, Disturbed,
         sysctlVars, deviceVars, threadVars, Inv, TypeOK
<1>1. kernel' \in BOOLEAN /\ queued' \in BOOLEAN
  BY Files DEF UnitRuns, HostSets, DevicesChange, SysctlUnitRuns, SysctlHostSets, sysctlVars,
               Inv, TypeOK, SysctlTypeOK
<1>2. SettledForwarding'
  <2> SUFFICES ASSUME promised.known
               PROVE  dropin = Whole(promised.value) /\ (kernel' = promised.value \/ foreign')
    BY <1>0 DEF SettledForwarding
  <2>1. /\ dropin = Whole(promised.value) /\ (kernel = promised.value \/ foreign)
        /\ promised.value \in BOOLEAN /\ kernel \in BOOLEAN
    BY Promises DEF Inv, TypeOK, SysctlTypeOK, SettledForwarding
  <2>2. CASE UnitRuns
    BY <2>1, <2>2, Files DEF UnitRuns, SysctlUnitRuns
  <2>3. CASE HostSets
    BY <2>1, <2>3 DEF HostSets
  <2>4. CASE DevicesChange
    BY <2>1, <2>4 DEF DevicesChange, sysctlVars
  <2> QED BY <2>1, <2>2, <2>3, <2>4
<1>3. TypeOK'
  <2>1. SysctlTypeOK'
    BY <1>0, <1>1 DEF Inv, TypeOK, SysctlTypeOK
  <2> QED BY <1>0, <2>1 DEF Inv, TypeOK
<1>4. ThreadsFit' /\ PromiseAtRest'
  BY <1>0 DEF Inv, ThreadsFit, PromiseAtRest, Member
<1>5. AloneUndisturbed'
  BY <1>0 DEF Inv, AloneUndisturbed, Member, Whole
<1> QED BY <1>2, <1>3, <1>4, <1>5 DEF Inv

LEMMA RestartKeepsInv ==
  ASSUME Inv, Restart \/ Boot, shaken' \in SUBSET Callers
  PROVE  Inv'
<1>0. /\ UNCHANGED <<dropin, tmp, present, addressed, static, promised>>
      /\ fd' = [c \in Callers |-> "none"]
      /\ pc' = [c \in Callers |-> "idle"]
      /\ req' = [c \in Callers |-> <<>>]
      /\ at' = [c \in Callers |-> 1]
      /\ dev' = [c \in Callers |-> NoDevice]
      /\ alone' = {} /\ before' = NoConfiguration /\ misread' = {}
      /\ foreign' \in BOOLEAN
  BY DEF Restart, Boot, SysctlLosesThreads, SysctlBoot, LosesThreads, Disturbed, deviceVars,
         Inv, TypeOK
<1>1. kernel' \in BOOLEAN /\ queued' \in BOOLEAN
  BY Files DEF Restart, Boot, SysctlLosesThreads, SysctlBoot, Inv, TypeOK, SysctlTypeOK
<1>2. SettledForwarding'
  <2> SUFFICES ASSUME promised.known
               PROVE  dropin = Whole(promised.value) /\ (kernel' = promised.value \/ foreign')
    BY <1>0 DEF SettledForwarding
  <2>1. /\ dropin = Whole(promised.value) /\ (kernel = promised.value \/ foreign)
        /\ promised.value \in BOOLEAN
    BY Promises DEF Inv, TypeOK, SettledForwarding
  <2>2. CASE Restart
    BY <2>1, <2>2 DEF Restart, SysctlLosesThreads
  <2>3. CASE Boot
    BY <2>1, <2>3, Files DEF Boot, SysctlBoot
  <2> QED BY <2>2, <2>3
<1>3. TypeOK'
  <2>1. SysctlTypeOK'
    BY <1>0, <1>1 DEF Inv, TypeOK, SysctlTypeOK
  <2>2. req' \in [Callers -> Seq(Members)] /\ at' \in [Callers -> Nat \ {0}]
    BY <1>0
  <2>3. \A c \in Callers : pc'[c] \notin Looking \cup Writing \cup {"nm"}
    BY <1>0 DEF Looking, Writing
  <2> QED BY <1>0, <2>1, <2>2, <2>3 DEF Inv, TypeOK
<1>4. ThreadsFit' /\ PromiseAtRest' /\ AloneUndisturbed'
  BY <1>0 DEF ThreadsFit, PromiseAtRest, AloneUndisturbed, Looking, Writing
<1> QED BY <1>2, <1>3, <1>4 DEF Inv

LEMMA NextKeepsInv == Inv /\ [Next]_vars => Inv'
<1> SUFFICES ASSUME Inv, [Next]_vars PROVE Inv'
  OBVIOUS
<1>1. CASE Next
  <2>1. shaken' \in SUBSET Callers
    BY <1>1 DEF Next, Observe
  <2> QED BY <1>1, <2>1, CallerKeepsInv, HostKeepsInv, RestartKeepsInv DEF Next
<1>2. CASE UNCHANGED vars
  <2>1. /\ UNCHANGED <<dropin, tmp, kernel, queued, fd, present, addressed, static>>
        /\ UNCHANGED <<pc, req, at, dev, alone, before, misread, promised, foreign, shaken>>
    BY <1>2 DEF vars, sysctlVars, deviceVars, threadVars, history
  <2>2. TypeOK' /\ SettledForwarding'
    BY <2>1 DEF Inv, TypeOK, SysctlTypeOK, SettledForwarding, Whole
  <2>3. ThreadsFit' /\ PromiseAtRest'
    BY <2>1 DEF Inv, ThreadsFit, PromiseAtRest, Member
  <2>4. AloneUndisturbed'
    BY <2>1 DEF Inv, AloneUndisturbed, Member, Whole
  <2> QED BY <2>2, <2>3, <2>4 DEF Inv
<1> QED BY <1>1, <1>2

LEMMA InvAlways == Spec => []Inv
<1>1. Init => Inv
  BY InitInv
<1>2. Inv /\ [Next]_vars => Inv'
  BY NextKeepsInv
<1> QED BY <1>1, <1>2, PTL DEF Spec

----------------------------------------------------------------------------
(* Theorems                                                                *)

\* Every reachable state has its type, and a thread that is about to write a bridge has a
\* device of the host for it (_ip_writer of providers/networking.py).
THEOREM PatchTypeCorrect == Spec => []TypeOK
<1>1. Inv => TypeOK
  BY DEF Inv
<1> QED BY <1>1, InvAlways, PTL

\* A write of IP forwarding that was answered with success and that nothing overlapped
\* stays in the drop-in and in the kernel, however many other requests come before or
\* after it (set_ip_forwarding of providers/sysctl.py).
THEOREM ForwardingSettles == Spec => []SettledForwarding
<1>1. Inv => SettledForwarding
  BY DEF Inv
<1> QED BY <1>1, InvAlways, PTL

----------------------------------------------------------------------------

LooksFit == \A c \in Callers : pc[c] = "set" => c \in shaken \/ Instance(Member(c).id)
KeyErrorInv == TypeOK /\ LooksFit /\ KeyErrorsExplained

\* How a thread comes to look for the writer, and to a KeyError.
LEMMA CallerMoves ==
  ASSUME NEW c \in Callers, CallerStep(c)
  PROVE  \E to : /\ pc' = [pc EXCEPT ![c] = to]
                 /\ to = "set" => Writable(c)
                 /\ to = "keyerror" => SetParam(c)
<1> USE DEF Goes, Fails, Applied
<1>1. CASE Call(c) \/ Completed(c) \/ Unwritable(c) \/ Forwarding(c) \/ Return(c)
  BY <1>1 DEF Call, Completed, Unwritable, Forwarding, Return
<1>2. CASE Writable(c) \/ SetParam(c)
  BY <1>2 DEF Writable, SetParam
<1>3. CASE IpWriter(c) \/ NoInstance(c) \/ NmWrite(c) \/ NmRefused(c)
  BY <1>3 DEF IpWriter, NoInstance, NmWrite, NmRefused
<1>4. CASE Open(c) \/ OpenFails(c) \/ Dump(c) \/ DumpFails(c) \/ Replace(c) \/ ReplaceFails(c)
  BY <1>4 DEF Open, OpenFails, Dump, DumpFails, Replace, ReplaceFails
<1>5. CASE \/ RestartUnit(c) \/ RestartRefused(c) \/ RestartTimesOut(c)
           \/ Verify(c) \/ VerifyFails(c)
  BY <1>5 DEF RestartUnit, RestartRefused, RestartTimesOut, Verify, VerifyFails
<1> QED BY <1>1, <1>2, <1>3, <1>4, <1>5 DEF CallerStep, BridgeStep, ForwardingStep

LEMMA Arrivals ==
  ASSUME TypeOK, Next, NEW c \in Callers, pc'[c] # pc[c]
  PROVE  /\ pc'[c] = "set" => Writable(c)
         /\ pc'[c] = "keyerror" => SetParam(c)
<1>1. CASE \E d \in Callers : CallerStep(d)
  <2>1. PICK d \in Callers : CallerStep(d)
    BY <1>1
  <2>2. PICK to : /\ pc' = [pc EXCEPT ![d] = to]
                  /\ to = "set" => Writable(d)
                  /\ to = "keyerror" => SetParam(d)
    BY <2>1, CallerMoves
  <2>3. d = c /\ pc'[c] = to
    BY <2>2 DEF TypeOK
  <2> QED BY <2>2, <2>3
<1>2. CASE UnitRuns \/ HostSets \/ DevicesChange
  BY <1>2 DEF UnitRuns, HostSets, DevicesChange, threadVars
<1>3. CASE Restart \/ Boot
  BY <1>3 DEF Restart, Boot, LosesThreads
<1> QED BY <1>1, <1>2, <1>3 DEF Next

LEMMA ObservedKeepsKeyErrors ==
  ASSUME KeyErrorInv, Next, TypeOK', NEW c \in Callers
  PROVE  /\ pc'[c] = "set" => c \in shaken' \/ Instance(Member(c).id)'
         /\ pc'[c] = "keyerror" => c \in shaken'
<1>0. Observe
  BY DEF Next
<1>1. ASSUME pc'[c] = "set" PROVE c \in shaken' \/ Instance(Member(c).id)'
  <2>1. CASE pc[c] = "set"
    BY <1>0, <1>1, <2>1 DEF Observe, Looking
  <2>2. CASE pc[c] # "set"
    <3>1. Writable(c)
      BY <1>1, <2>2, Arrivals DEF KeyErrorInv
    <3>2. Instance(Member(c).id) /\ UNCHANGED <<present, addressed, req, at>>
      BY <3>1 DEF Writable, deviceVars
    <3> QED BY <3>2 DEF Instance, Number, Member
  <2> QED BY <2>1, <2>2
<1>2. ASSUME pc'[c] = "keyerror" PROVE c \in shaken'
  <2>1. CASE pc[c] = "keyerror"
    BY <1>0, <1>2, <2>1 DEF Observe, KeyErrorInv, KeyErrorsExplained
  <2>2. CASE pc[c] # "keyerror"
    <3>1. SetParam(c)
      BY <1>2, <2>2, Arrivals DEF KeyErrorInv
    <3>2. pc[c] = "set" /\ ~Instance(Member(c).id)
      BY <1>2, <3>1 DEF SetParam, Goes, KeyErrorInv, TypeOK
    <3>3. c \in shaken
      BY <3>2 DEF KeyErrorInv, LooksFit
    <3> QED BY <1>0, <1>2, <3>3 DEF Observe
  <2> QED BY <2>1, <2>2
<1> QED BY <1>1, <1>2

\* A request ends in a KeyError only if its bridge went away after it had been found
\* writable (_write_one of api.py, set_param of providers/__init__.py).
THEOREM KeyErrorsAreExplained == Spec => []KeyErrorsExplained
<1>1. Init => LooksFit /\ KeyErrorsExplained
  BY DEF Init, Threads, LooksFit, KeyErrorsExplained
<1>2. KeyErrorInv /\ TypeOK' /\ [Next]_vars => LooksFit' /\ KeyErrorsExplained'
  <2> SUFFICES ASSUME KeyErrorInv, TypeOK', [Next]_vars PROVE LooksFit' /\ KeyErrorsExplained'
    OBVIOUS
  <2>1. CASE Next
    BY <2>1, ObservedKeepsKeyErrors DEF LooksFit, KeyErrorsExplained
  <2>2. CASE UNCHANGED vars
    BY <2>2 DEF KeyErrorInv, LooksFit, KeyErrorsExplained, Instance, Number, Member,
                vars, deviceVars, threadVars
  <2> QED BY <2>1, <2>2
<1>3. TypeOK /\ LooksFit /\ KeyErrorsExplained <=> KeyErrorInv
  BY DEF KeyErrorInv
<1>4. Spec => [](LooksFit /\ KeyErrorsExplained)
  BY <1>1, <1>2, <1>3, PatchTypeCorrect, PTL DEF Spec
<1> QED BY <1>4, PTL

----------------------------------------------------------------------------
(* Induction over the members of a request                                 *)

\* A set of naturals that has 0, and the successor of each that it has, has them all.
LEMMA NatBySteps ==
  ASSUME NEW S, 0 \in S, \A n \in Nat : n \in S => n + 1 \in S
  PROVE  Nat \subseteq S
<1> SUFFICES ASSUME Nat \ S # {} PROVE FALSE
  OBVIOUS
<1>1. PICK x \in Nat \ S : \A y \in Nat \ S : <<y, x>> \notin OpToRel(<, Nat)
  <2>1. Nat \ S \subseteq Nat
    OBVIOUS
  <2> QED BY <2>1, NatLessThanWellFounded, WFMin
<1>2. \A y \in Nat \ S : ~(y < x)
  BY <1>1 DEF OpToRel
<1>3. x # 0 /\ x - 1 \in Nat /\ x - 1 < x /\ x = (x - 1) + 1
  OBVIOUS
<1>4. x - 1 \in S
  BY <1>2, <1>3
<1> QED BY <1>3, <1>4

\* A course is what its recursion says: there is one function of which it is true.
LEMMA CourseDefined ==
  ASSUME NEW on, NEW start, NEW r, NEW missed
  PROVE  Course(on, start, r, missed) =
           [k \in Nat |-> IF k = 0 THEN start
                          ELSE After(on, Course(on, start, r, missed)[k - 1], r[k], k \in missed)]
<1> DEFINE Fits(g, n) == g = [k \in 0..n |-> IF k = 0 THEN start ELSE After(on, g[k - 1], r[k], k \in missed)]
           Last(n) == (CHOOSE g : Fits(g, n))[n]
           conf == [n \in Nat |-> Last(n)]
<1>1. ASSUME NEW m \in Nat, NEW n \in Nat, NEW g, NEW h, Fits(g, m), Fits(h, n)
      PROVE  \A k \in Nat : k <= m /\ k <= n => g[k] = h[k]
  <2> DEFINE Same == {k \in Nat : k <= m /\ k <= n => g[k] = h[k]}
  <2>1. 0 \in Same
    BY <1>1
  <2>2. ASSUME NEW k \in Nat, k \in Same PROVE k + 1 \in Same
    <3> SUFFICES ASSUME k + 1 <= m, k + 1 <= n PROVE g[k + 1] = h[k + 1]
      OBVIOUS
    <3>1. k + 1 \in 0..m /\ k + 1 \in 0..n /\ k + 1 # 0 /\ (k + 1) - 1 = k /\ k <= m /\ k <= n
      OBVIOUS
    <3>2. g[k + 1] = After(on, g[k], r[k + 1], k + 1 \in missed)
      BY <1>1, <3>1
    <3>3. h[k + 1] = After(on, h[k], r[k + 1], k + 1 \in missed)
      BY <1>1, <3>1
    <3>4. g[k] = h[k]
      BY <2>2, <3>1
    <3> QED BY <3>2, <3>3, <3>4
  <2> HIDE DEF Same
  <2>3. Nat \subseteq Same
    BY <2>1, <2>2, NatBySteps
  <2> QED BY <2>3 DEF Same
<1>2. \A n \in Nat : \E g : Fits(g, n)
  <2> DEFINE Some == {n \in Nat : \E g : Fits(g, n)}
  <2>1. 0 \in Some
    <3>1. Fits([k \in 0..0 |-> start], 0)
      OBVIOUS
    <3> QED BY <3>1
  <2>2. ASSUME NEW n \in Nat, n \in Some PROVE n + 1 \in Some
    <3>1. PICK g : Fits(g, n)
      BY <2>2
    <3> DEFINE h == [k \in 0..(n + 1) |-> IF k <= n THEN g[k] ELSE After(on, g[n], r[n + 1], n + 1 \in missed)]
    <3>2. ASSUME NEW k \in 0..(n + 1)
          PROVE  h[k] = IF k = 0 THEN start ELSE After(on, h[k - 1], r[k], k \in missed)
      <4>1. CASE k = 0
        BY <3>1, <4>1
      <4>2. CASE k # 0 /\ k <= n
        <5>1. k \in 0..n /\ k - 1 \in 0..(n + 1) /\ k - 1 <= n
          BY <4>2
        <5>2. h[k] = g[k] /\ h[k - 1] = g[k - 1]
          BY <4>2, <5>1
        <5> QED BY <3>1, <4>2, <5>1, <5>2
      <4>3. CASE k = n + 1
        <5>1. k - 1 = n /\ n \in 0..(n + 1) /\ n <= n /\ ~(k <= n) /\ k # 0
          BY <4>3
        <5> QED BY <4>3, <5>1
      <4> QED BY <4>1, <4>2, <4>3
    <3>3. Fits(h, n + 1)
      BY <3>2
    <3>4. \E f : Fits(f, n + 1)
      <4> HIDE DEF Fits, h
      <4> QED BY <3>3
    <3> HIDE DEF Fits
    <3> QED BY <3>4
  <2> HIDE DEF Some
  <2>3. Nat \subseteq Some
    BY <2>1, <2>2, NatBySteps
  <2> QED BY <2>3 DEF Some
<1>3. ASSUME NEW n \in Nat
      PROVE  conf[n] = IF n = 0 THEN start ELSE After(on, conf[n - 1], r[n], n \in missed)
  <2> DEFINE g == CHOOSE g : Fits(g, n)
             h == CHOOSE h : Fits(h, n - 1)
  <2>1. Fits(g, n)
    BY <1>2
  <2>2. CASE n = 0
    BY <2>1, <2>2
  <2>3. CASE n # 0
    <3>1. n - 1 \in Nat /\ n - 1 <= n /\ n \in 0..n
      BY <2>3
    <3>2. Fits(h, n - 1)
      BY <1>2, <3>1
    <3>3. g[n - 1] = h[n - 1]
      <4> HIDE DEF Fits, g, h
      <4> QED BY <1>1, <2>1, <3>1, <3>2
    <3>4. conf[n] = g[n] /\ conf[n - 1] = h[n - 1]
      BY <3>1
    <3>5. g[n] = After(on, g[n - 1], r[n], n \in missed)
      <4> HIDE DEF g
      <4> QED BY <2>1, <2>3, <3>1
    <3> QED BY <2>3, <3>3, <3>4, <3>5
  <2> QED BY <2>2, <2>3
<1>4. conf = [n \in Nat |-> IF n = 0 THEN start ELSE After(on, conf[n - 1], r[n], n \in missed)]
  <2> HIDE DEF Last
  <2> QED BY <1>3
<1> HIDE DEF conf
<1> QED BY <1>4 DEF Course

----------------------------------------------------------------------------
(* What a request that is alone has made of the configuration              *)

Reached(c) == Course(present, before, req[c], misread)[at[c] - 1]
Due(c) == After(present, Reached(c), Member(c), at[c] \in misread)

\* A request that is alone is as far as its members: the one it is at has changed nothing
\* before the rename of the drop-in, and all it changes after that.
OnCourse(c) ==
  /\ pc[c] \in {"next", "nm", "open", "dump", "replace", "applied"} \cup Looking =>
       Configuration = Reached(c)
  /\ pc[c] \in {"restart", "verify"} => Configuration = Due(c)
  /\ pc[c] = "error" =>
       \/ Configuration = Reached(c)
       \/ Member(c) # Refused /\ Configuration = Due(c)
  /\ pc[c] = "nm" => Number(dev[c]) = Member(c).id
  /\ pc[c] = "applied" => at[c] = Len(req[c]) + 1
  /\ pc[c] # "error" => misread \subseteq 1..(at[c] - 1)

AloneOnCourse ==
  /\ \A c \in Callers : pc[c] = "idle" => at[c] = 1
  /\ \A c \in alone : OnCourse(c)

\* Another name is at another place of the ordered ones.
LEMMA PlacesDiffer ==
  ASSUME NEW on, IsFiniteSet(on), on \subseteq Nat, NEW m \in on, NEW n \in on, m # n
  PROVE  Place(on, m) # Place(on, n)
<1>1. ASSUME NEW i \in on, NEW j \in on, i < j PROVE Place(on, i) # Place(on, j)
  <2> DEFINE I == {k \in on : k <= i}
             J == {k \in on : k <= j}
  <2>1. IsFiniteSet(J)
    BY FS_Subset
  <2>2. I \in SUBSET J /\ j \in J /\ j \notin I
    <3>1. i \in Nat /\ j \in Nat
      OBVIOUS
    <3>2. \A k \in Nat : k <= i => k <= j
      BY <1>1, <3>1
    <3>3. j <= j /\ ~(j <= i)
      BY <1>1, <3>1
    <3> QED BY <3>2, <3>3
  <2> HIDE DEF I, J
  <2>3. Cardinality(I) # Cardinality(J)
    BY <2>1, <2>2, FS_Subset
  <2> QED BY <2>3 DEF I, J, Place
<1>2. m \in Nat /\ n \in Nat
  OBVIOUS
<1>3. CASE m < n
  BY <1>1, <1>3
<1>4. CASE n < m
  BY <1>1, <1>4
<1> QED BY <1>2, <1>3, <1>4

\* The places are 1, 2, ... up to the number of devices: those of enumerate().
LEMMA PlacesCount ==
  ASSUME NEW on, IsFiniteSet(on), on \subseteq Nat
  PROVE  {Place(on, n) : n \in on} = 1..Cardinality(on)
<1> DEFINE K == Cardinality(on)
           f == [n \in on |-> Place(on, n)]
<1>1. K \in Nat
  BY FS_CardinalityType
<1>2. ASSUME NEW n \in on PROVE Place(on, n) \in 1..K
  <2> DEFINE I == {k \in on : k <= n}
  <2>1. n \in Nat /\ n <= n
    OBVIOUS
  <2>2. I \in SUBSET on /\ I # {}
    BY <2>1
  <2> HIDE DEF I
  <2>3. IsFiniteSet(I) /\ Cardinality(I) <= K
    BY <2>2, FS_Subset
  <2>4. Cardinality(I) \in Nat /\ Cardinality(I) # 0
    BY <2>2, <2>3, FS_CardinalityType, FS_EmptySet
  <2> QED BY <1>1, <2>3, <2>4 DEF I, Place
<1>3. f \in Injection(on, 1..K)
  <2>1. f \in [on -> 1..K]
    BY <1>2
  <2>2. ASSUME NEW m \in on, NEW n \in on, f[m] = f[n] PROVE m = n
    <3>1. Place(on, m) = Place(on, n)
      BY <2>2
    <3> QED BY <3>1, PlacesDiffer
  <2>3. DOMAIN f = on
    OBVIOUS
  <2> HIDE DEF f, K
  <2> QED BY <2>1, <2>2, <2>3 DEF Injection, IsInjective
<1>4. IsFiniteSet(1..K) /\ Cardinality(1..K) = K
  BY <1>1, FS_Interval
<1>5. f \in Surjection(on, 1..K)
  BY <1>3, <1>4, FS_Injection
<1> QED BY <1>2, <1>5 DEF Surjection

\* An id that has a device stands for that one alone.
LEMMA DeviceOfId ==
  ASSUME TypeOK, NEW d \in Devices, NEW i \in Nat \ {0}, Number(d) = i
  PROVE  \A e \in Devices : StandsFor(present, i, e) <=> e = d
<1>1. \A e \in Devices : e.n \in (IF e.kind = "port" THEN Ports ELSE BridgeDevices)
                         /\ e = [kind |-> e.kind, n |-> e.n]
  BY DEF Devices
<1>2. CASE present = {}
  BY <1>1, <1>2 DEF Number, StandsFor
<1>3. CASE present # {}
  <2>1. d.kind = "bridge" /\ d.n \in present /\ Place(present, d.n) = i
    BY <1>3 DEF Number
  <2>2. IsFiniteSet(present) /\ present \subseteq Nat
    BY PortsAssumption, FS_Subset DEF TypeOK
  <2>3. ASSUME NEW e \in Devices, e.kind = "bridge", e.n \in present, Place(present, e.n) = i
        PROVE  e = d
    BY <1>1, <2>1, <2>2, <2>3, PlacesDiffer
  <2> QED BY <1>3, <2>1, <2>3 DEF StandsFor
<1> QED BY <1>2, <1>3

\* bridges() is a dictionary: an id names one device, and while there are bridge
\* devices their ids are 1, 2, ... without a gap.
IdsNameDevices ==
  /\ \A i \in Nat \ {0} : \A d, e \in Devices : Number(d) = i /\ Number(e) = i => d = e
  /\ present # {} => \A i \in Nat \ {0} : Instance(i) <=> i <= Cardinality(present)

\* An instance id never stands for two devices, nor skips a bridge, whatever devices
\* come and go: what writable, set_param and the writer look up is one device or none.
THEOREM IdsAreCounted == Spec => []IdsNameDevices
<1>1. TypeOK => IdsNameDevices
  <2> SUFFICES ASSUME TypeOK PROVE IdsNameDevices
    OBVIOUS
  <2>1. ASSUME NEW i \in Nat \ {0}, NEW d \in Devices, NEW e \in Devices,
               Number(d) = i, Number(e) = i
        PROVE  d = e
    <3>1. StandsFor(present, i, e) <=> e = d
      BY <2>1, DeviceOfId
    <3>2. StandsFor(present, i, e)
      BY <2>1, DeviceOfId
    <3> QED BY <3>1, <3>2
  <2>2. ASSUME present # {}, NEW i \in Nat \ {0}
        PROVE  Instance(i) <=> i <= Cardinality(present)
    <3>1. IsFiniteSet(present) /\ present \subseteq Nat /\ Cardinality(present) \in Nat
      BY PortsAssumption, FS_Subset, FS_CardinalityType DEF TypeOK
    <3>2. {Place(present, n) : n \in present} = 1..Cardinality(present)
      BY <3>1, PlacesCount
    <3>3. Instance(i) <=> \E n \in present : Place(present, n) = i
      <4>1. ASSUME Instance(i) PROVE \E n \in present : Place(present, n) = i
        BY <2>2, <4>1 DEF Instance, Number
      <4>2. ASSUME NEW n \in present, Place(present, n) = i PROVE Instance(i)
        <5>1. [kind |-> "bridge", n |-> n] \in Devices
          BY DEF Devices, TypeOK
        <5>2. Number([kind |-> "bridge", n |-> n]) = i
          BY <2>2, <4>2 DEF Number
        <5> QED BY <5>1, <5>2 DEF Instance
      <4> QED BY <4>1, <4>2
    <3> QED BY <3>1, <3>2, <3>3
  <2> QED BY <2>1, <2>2 DEF IdsNameDevices
<1> QED BY <1>1, PatchTypeCorrect, PTL

\* In which sense the ids are stable ("sorted so ids are stable"): devices that come
\* leave the id of a bridge as it is exactly if all their names come after its own.
THEOREM IdsAreStable ==
  ASSUME NEW more, IsFiniteSet(more), more \subseteq Nat, NEW on \in SUBSET more,
         NEW n \in on
  PROVE  Place(more, n) = Place(on, n) <=> \A k \in more \ on : k > n
<1> DEFINE I == {k \in on : k <= n}
           J == {k \in more : k <= n}
<1>1. IsFiniteSet(J)
  BY FS_Subset
<1>2. I \in SUBSET J
  OBVIOUS
<1>3. I = J <=> \A k \in more \ on : k > n
  <2>1. n \in Nat /\ \A k \in more : k > n <=> ~(k <= n)
    OBVIOUS
  <2>2. ASSUME I = J, NEW k \in more \ on PROVE k > n
    <3>1. k \notin I
      OBVIOUS
    <3>2. ~(k <= n)
      BY <2>2, <3>1
    <3> QED BY <2>1, <3>2
  <2>3. ASSUME \A k \in more \ on : k > n PROVE I = J
    <3>1. ASSUME NEW k \in J PROVE k \in I
      <4>1. k \in more /\ k <= n
        OBVIOUS
      <4>2. k \in on
        BY <2>1, <2>3, <4>1
      <4> QED BY <4>1, <4>2
    <3> HIDE DEF I, J
    <3> QED BY <1>2, <3>1
  <2> QED BY <2>2, <2>3
<1> HIDE DEF I, J
<1>4. Cardinality(I) = Cardinality(J) <=> I = J
  BY <1>1, <1>2, FS_Subset
<1> QED BY <1>3, <1>4 DEF I, J, Place

\* The first members are where they are whichever of the later ones is misread.
LEMMA CourseSame ==
  ASSUME NEW on, NEW start, NEW r, NEW S, NEW T, NEW n \in Nat,
         \A k \in 1..n : k \in S <=> k \in T
  PROVE  Course(on, start, r, S)[n] = Course(on, start, r, T)[n]
<1> DEFINE f == Course(on, start, r, S)
           g == Course(on, start, r, T)
           Same == {k \in Nat : k <= n => f[k] = g[k]}
<1>1. f = [k \in Nat |-> IF k = 0 THEN start ELSE After(on, f[k - 1], r[k], k \in S)]
  BY CourseDefined
<1>2. g = [k \in Nat |-> IF k = 0 THEN start ELSE After(on, g[k - 1], r[k], k \in T)]
  BY CourseDefined
<1> HIDE DEF f, g
<1>3. 0 \in Same
  BY <1>1, <1>2
<1>4. ASSUME NEW k \in Nat, k \in Same PROVE k + 1 \in Same
  <2> SUFFICES ASSUME k + 1 <= n PROVE f[k + 1] = g[k + 1]
    OBVIOUS
  <2>1. k + 1 \in Nat /\ k + 1 # 0 /\ (k + 1) - 1 = k /\ k <= n /\ k + 1 \in 1..n
    OBVIOUS
  <2>2. f[k + 1] = After(on, f[k], r[k + 1], k + 1 \in S)
    BY <1>1, <2>1
  <2>3. g[k + 1] = After(on, g[k], r[k + 1], k + 1 \in T)
    BY <1>2, <2>1
  <2>4. f[k] = g[k] /\ (k + 1 \in S) = (k + 1 \in T)
    BY <1>4, <2>1
  <2> QED BY <2>2, <2>3, <2>4
<1> HIDE DEF Same
<1>5. Nat \subseteq Same
  BY <1>3, <1>4, NatBySteps
<1>6. f[n] = g[n]
  BY <1>5 DEF Same
<1> QED BY <1>6 DEF f, g

\* A step that reads another of its members, or none.
LEMMA SameMember ==
  ASSUME NEW c, UNCHANGED <<present, before, misread, req>>, at'[c] = at[c]
  PROVE  Reached(c)' = Reached(c) /\ Due(c)' = Due(c)
BY DEF Reached, Due, Member

\* A member that is written leads from what was reached before it, as it was read.
LEMMA NextMember ==
  ASSUME TypeOK, NEW c \in Callers, UNCHANGED <<present, before, req>>,
         misread' \in {misread, misread \cup {at[c]}}
  PROVE  /\ at'[c] = at[c] => Reached(c)' = Reached(c)
         /\ at'[c] = at[c] + 1 =>
              Reached(c)' = After(present, Reached(c), Member(c), at[c] \in misread')
<1> DEFINE conf == Course(present, before, req[c], misread')
<1>1. at[c] \in Nat /\ at[c] # 0 /\ at[c] - 1 \in Nat
  BY DEF TypeOK
<1>2. conf[at[c] - 1] = Reached(c)
  <2>1. \A k \in 1..(at[c] - 1) : k \in misread' <=> k \in misread
    BY <1>1
  <2> DEFINE n == at[c] - 1
             r == req[c]
             S == misread'
  <2>2. n \in Nat /\ \A k \in 1..n : k \in S <=> k \in misread
    BY <1>1, <2>1
  <2> HIDE DEF n, r, S
  <2>3. Course(present, before, r, S)[n] = Course(present, before, r, misread)[n]
    BY <2>2, CourseSame
  <2> QED BY <2>3 DEF Reached, n, r, S
<1>3. at'[c] = at[c] => Reached(c)' = conf[at[c] - 1]
  BY DEF Reached
<1>4. conf = [k \in Nat |-> IF k = 0 THEN before
                            ELSE After(present, conf[k - 1], req[c][k], k \in misread')]
  BY CourseDefined
<1>5. at'[c] = at[c] + 1 => Reached(c)' = conf[at[c]]
  BY <1>1 DEF Reached
<1>6. conf[at[c]] = After(present, conf[at[c] - 1], Member(c), at[c] \in misread')
  <2> HIDE DEF conf
  <2> QED BY <1>1, <1>4 DEF Member
<1> HIDE DEF conf
<1> QED BY <1>2, <1>3, <1>5, <1>6

\* Only one request can be alone: the one that takes the step.
LEMMA StepKeepsCourse ==
  ASSUME Inv, AloneOnCourse, NEW c \in Callers, NEW to,
         pc[c] # "idle", pc' = [pc EXCEPT ![c] = to], to # "idle",
         \A d \in Callers : d # c => at'[d] = at[d],
         UNCHANGED alone,
         c \in alone => OnCourse(c)'
  PROVE  AloneOnCourse'
<1>1. ASSUME NEW d \in Callers, pc'[d] = "idle" PROVE at'[d] = 1
  BY <1>1 DEF AloneOnCourse, Inv, TypeOK
<1>2. ASSUME NEW a \in alone PROVE OnCourse(a)'
  <2>1. a = c
    BY DEF Inv, AloneUndisturbed
  <2> QED BY <2>1
<1> QED BY <1>1, <1>2 DEF AloneOnCourse

\* Such a step where nothing that a request is to change does.
LEMMA MoveKeepsCourse ==
  ASSUME Inv, AloneOnCourse, NEW c \in Callers, NEW to,
         pc[c] \notin Ended \cup {"idle"}, pc' = [pc EXCEPT ![c] = to],
         to \notin {"idle", "restart"},
         to \in {"next", "nm", "open", "dump", "replace", "applied"} \cup Looking =>
           pc[c] \in {"next", "nm", "open", "dump", "replace"} \cup Looking,
         to = "verify" => pc[c] \in {"restart", "verify"},
         to = "nm" => Number(dev[c])' = Member(c).id,
         to = "applied" => at[c] = Len(req[c]) + 1,
         to = "error" /\ pc[c] \in {"restart", "verify"} => Member(c) # Refused,
         UNCHANGED <<static, present, req, at, alone, before, misread>>,
         c \in alone => UNCHANGED dropin
  PROVE  AloneOnCourse'
<1>1. ASSUME c \in alone PROVE OnCourse(c)'
  <2>1. Reached(c)' = Reached(c) /\ Due(c)' = Due(c)
    BY SameMember
  <2>2. Configuration' = Configuration /\ Member(c)' = Member(c)
    BY <1>1 DEF Configuration, Member
  <2>3. OnCourse(c) /\ pc'[c] = to
    BY <1>1 DEF AloneOnCourse, Inv, TypeOK
  <2>4. pc[c] \in {"next", "nm", "open", "dump", "replace", "restart", "verify"} \cup Looking
    BY DEF Inv, TypeOK, Writing, Ended
  <2>5. to \in {"next", "nm", "open", "dump", "replace", "applied"} \cup Looking =>
          Configuration = Reached(c)
    BY <2>3 DEF OnCourse, Looking
  <2>6. to \in {"restart", "verify"} => Configuration = Due(c)
    BY <2>3 DEF OnCourse
  <2>7. to = "error" => \/ Configuration = Reached(c)
                        \/ Member(c) # Refused /\ Configuration = Due(c)
    BY <2>3, <2>4 DEF OnCourse
  <2>8. misread' \subseteq 1..(at'[c] - 1)
    <3>1. pc[c] # "error"
      BY DEF Ended
    <3> QED BY <2>3, <3>1 DEF OnCourse
  <2> QED BY <2>1, <2>2, <2>3, <2>5, <2>6, <2>7, <2>8 DEF OnCourse
<1> QED BY <1>1, StepKeepsCourse DEF Ended

LEMMA GivingUpKeepsCourse ==
  ASSUME Inv, AloneOnCourse, NEW c \in Callers, NEW to \in {"error", "keyerror", "timeout"},
         pc[c] \notin Ended \cup {"idle"}, pc' = [pc EXCEPT ![c] = to],
         pc[c] \in {"restart", "verify"} => Member(c) # Refused,
         UNCHANGED <<static, present, req, at, alone, before, misread>>,
         c \in alone => UNCHANGED dropin
  PROVE  AloneOnCourse'
<1>1. /\ to \notin {"idle", "restart", "nm", "applied", "verify"}
      /\ to \notin {"next", "nm", "open", "dump", "replace", "applied"} \cup Looking
  BY DEF Looking
<1> QED BY <1>1, MoveKeepsCourse

----------------------------------------------------------------------------

LEMMA ForwardingKeepsCourse ==
  ASSUME Inv, AloneOnCourse, NEW c \in Callers, ForwardingStep(c)
  PROVE  AloneOnCourse'
<1> USE DEF Goes, Fails
<1>0. /\ pc[c] \in Writing => Member(c) # Refused /\ Member(c).param = "forwarding"
      /\ c \in alone /\ pc[c] = "dump" => fd[c] = "tmp"
      /\ c \in alone /\ pc[c] = "replace" => tmp = Whole(Member(c).value)
  BY RefusedAssumption, MemberKinds DEF Inv, ThreadsFit, AloneUndisturbed
<1>1. CASE Open(c) \/ OpenFails(c)
  <2>1. \/ pc' = [pc EXCEPT ![c] = "dump"]
        \/ pc' = [pc EXCEPT ![c] = "error"]
    BY <1>1 DEF Open, OpenFails
  <2>2. pc[c] = "open" /\ UNCHANGED <<dropin, static, present, req, at, alone, before, misread>>
    BY <1>1 DEF Open, OpenFails, SysctlOpen, sysctlVars, deviceVars, history
  <2>3. CASE pc' = [pc EXCEPT ![c] = "dump"]
    BY <2>2, <2>3, MoveKeepsCourse DEF Looking, Ended
  <2>4. CASE pc' = [pc EXCEPT ![c] = "error"]
    BY <2>2, <2>4, GivingUpKeepsCourse DEF Ended
  <2> QED BY <2>1, <2>3, <2>4
<1>2. CASE Dump(c) \/ DumpFails(c)
  <2>1. c \in alone => UNCHANGED dropin
    BY <1>0, <1>2 DEF Dump, DumpFails, SysctlDump, SysctlDumpFails, Writes
  <2>2. \/ pc' = [pc EXCEPT ![c] = "replace"]
        \/ pc' = [pc EXCEPT ![c] = "error"]
    BY <1>2 DEF Dump, DumpFails
  <2>3. pc[c] = "dump" /\ UNCHANGED <<static, present, req, at, alone, before, misread>>
    BY <1>2 DEF Dump, DumpFails, deviceVars, history
  <2>4. CASE pc' = [pc EXCEPT ![c] = "replace"]
    BY <2>1, <2>3, <2>4, MoveKeepsCourse DEF Looking, Ended
  <2>5. CASE pc' = [pc EXCEPT ![c] = "error"]
    BY <2>1, <2>3, <2>5, GivingUpKeepsCourse DEF Ended
  <2> QED BY <2>2, <2>4, <2>5
<1>3. CASE Replace(c)
  <2>0. /\ pc[c] = "replace" /\ pc' = [pc EXCEPT ![c] = "restart"] /\ dropin' = tmp
        /\ UNCHANGED <<present, static, req, at, alone, before, misread>>
    BY <1>3 DEF Replace, SysctlReplace, deviceVars, history
  <2>1. ASSUME c \in alone PROVE OnCourse(c)'
    <3>1. Configuration = Reached(c) /\ misread \subseteq 1..(at[c] - 1)
      BY <2>0, <2>1 DEF AloneOnCourse, OnCourse
    <3>2. Due(c) = [Configuration EXCEPT !.dropin = Whole(Member(c).value)]
      BY <1>0, <2>0, <3>1 DEF Due, After, Writing
    <3>3. Configuration' = Due(c)
      BY <1>0, <2>0, <2>1, <3>2 DEF Configuration
    <3>4. Due(c)' = Due(c)
      BY <2>0, SameMember
    <3>5. pc'[c] = "restart"
      BY <2>0 DEF Inv, TypeOK
    <3> QED BY <2>0, <3>1, <3>3, <3>4, <3>5 DEF OnCourse, Looking
  <2> QED BY <2>0, <2>1, StepKeepsCourse
<1>4. CASE ReplaceFails(c) \/ RestartRefused(c) \/ VerifyFails(c)
  <2>1. /\ pc[c] \in {"replace", "restart", "verify"} /\ pc' = [pc EXCEPT ![c] = "error"]
        /\ UNCHANGED <<dropin, static, present, req, at, alone, before, misread>>
    BY <1>4 DEF ReplaceFails, RestartRefused, VerifyFails, sysctlVars, deviceVars, history
  <2> QED BY <1>0, <2>1, GivingUpKeepsCourse DEF Writing, Ended
<1>5. CASE RestartUnit(c) \/ RestartTimesOut(c)
  <2>1. \/ pc' = [pc EXCEPT ![c] = "verify"]
        \/ pc' = [pc EXCEPT ![c] = "timeout"]
    BY <1>5 DEF RestartUnit, RestartTimesOut
  <2>2. pc[c] = "restart" /\ UNCHANGED <<dropin, static, present, req, at, alone, before, misread>>
    BY <1>5 DEF RestartUnit, RestartTimesOut, SysctlRestart, sysctlVars, deviceVars, history
  <2>3. CASE pc' = [pc EXCEPT ![c] = "verify"]
    BY <2>2, <2>3, MoveKeepsCourse DEF Looking, Ended
  <2>4. CASE pc' = [pc EXCEPT ![c] = "timeout"]
    BY <1>0, <2>2, <2>4, GivingUpKeepsCourse DEF Writing, Ended
  <2> QED BY <2>1, <2>3, <2>4
<1>6. CASE Verify(c)
  <2>0. /\ pc[c] = "verify" /\ pc' = [pc EXCEPT ![c] = "next"]
        /\ at' = [at EXCEPT ![c] = @ + 1]
        /\ UNCHANGED <<dropin, present, static, req, alone, before, misread>>
    BY <1>6 DEF Verify, Applied, deviceVars, sysctlVars
  <2>1. at'[c] = at[c] + 1 /\ pc'[c] = "next" /\ \A d \in Callers : d # c => at'[d] = at[d]
    BY <2>0 DEF Inv, TypeOK
  <2>2. ASSUME c \in alone PROVE OnCourse(c)'
    <3>1. Configuration = Due(c) /\ misread \subseteq 1..(at[c] - 1)
      BY <2>0, <2>2 DEF AloneOnCourse, OnCourse
    <3>2. Reached(c)' = Due(c)
      BY <2>0, <2>1, NextMember DEF Inv, Due
    <3>3. Configuration' = Configuration
      BY <2>0 DEF Configuration
    <3>4. misread' \subseteq 1..(at'[c] - 1)
      BY <2>0, <2>1, <3>1 DEF Inv, TypeOK
    <3> QED BY <2>1, <3>1, <3>2, <3>3, <3>4 DEF OnCourse, Looking
  <2> QED BY <2>0, <2>1, <2>2, StepKeepsCourse
<1> QED BY <1>1, <1>2, <1>3, <1>4, <1>5, <1>6 DEF ForwardingStep

\* What NetworkManager is given takes the configuration from what was reached to what
\* the member makes of it, as its device was read.
LEMMA NmSetsOnCourse ==
  ASSUME Inv, AloneOnCourse, NEW c \in alone, pc[c] = "nm", NmSets(c),
         UNCHANGED <<dropin, present, req, before>>
  PROVE  /\ Configuration' = After(present, Reached(c), Member(c), at[c] \in misread')
         /\ misread' \in {misread, misread \cup {at[c]}}
         /\ misread' \subseteq 1..at[c]
<1>1. /\ c \in Callers /\ at[c] \in Nat \ {0} /\ static \in [Devices -> Static]
      /\ dev[c] \in Devices /\ Member(c) \in BridgeMembers
  BY DEF Inv, TypeOK, ThreadsFit
<1>2. Member(c).param # "forwarding" /\ Member(c).id \in Nat \ {0}
  <2>1. Member(c).id \in Nat \ {0}
    BY <1>1 DEF BridgeMembers
  <2> QED BY <1>1, <2>1, MemberKinds
<1>3. /\ Configuration = Reached(c) /\ Number(dev[c]) = Member(c).id
      /\ misread \subseteq 1..(at[c] - 1)
  BY DEF AloneOnCourse, OnCourse
<1>4. PICK s \in StaticReads(c) :
        /\ static' = [static EXCEPT ![dev[c]] = Changed(Member(c), s)]
        /\ misread' = IF c \in alone /\ s # static[dev[c]] THEN misread \cup {at[c]} ELSE misread
  BY DEF NmSets
<1>5. at[c] \notin misread
  BY <1>1, <1>3
<1>6. s = IF at[c] \in misread' THEN Dhcp ELSE static[dev[c]]
  BY <1>4, <1>5 DEF StaticReads
<1>7. \A e \in Devices : StandsFor(present, Member(c).id, e) <=> e = dev[c]
  BY <1>1, <1>2, <1>3, DeviceOfId DEF Inv
<1>8. static' = [d \in Devices |->
        IF StandsFor(present, Member(c).id, d)
        THEN Changed(Member(c), IF at[c] \in misread' THEN Dhcp ELSE static[d]) ELSE static[d]]
  BY <1>1, <1>4, <1>6, <1>7
<1>9. Reached(c).static = static /\ Reached(c) = Configuration
  BY <1>3 DEF Configuration
<1>10. After(present, Reached(c), Member(c), at[c] \in misread')
         = [Configuration EXCEPT !.static = static']
  BY <1>2, <1>8, <1>9 DEF After
<1>11. Configuration' = [Configuration EXCEPT !.static = static']
  BY DEF Configuration
<1>12. misread' \subseteq 1..at[c]
  BY <1>1, <1>3, <1>4
<1> QED BY <1>4, <1>10, <1>11, <1>12

LEMMA NmWriteKeepsCourse ==
  ASSUME Inv, AloneOnCourse, NEW c \in Callers, NmWrite(c)
  PROVE  AloneOnCourse'
<1>0. /\ pc[c] = "nm" /\ pc' = [pc EXCEPT ![c] = "next"] /\ NmSets(c)
      /\ at' = [at EXCEPT ![c] = @ + 1]
      /\ UNCHANGED <<dropin, present, req, alone, before>>
  BY DEF NmWrite, Applied, sysctlVars
<1>1. /\ at'[c] = at[c] + 1 /\ at[c] \in Nat /\ pc'[c] = "next"
      /\ \A d \in Callers : d # c => at'[d] = at[d]
  BY <1>0 DEF Inv, TypeOK
<1>2. ASSUME c \in alone PROVE OnCourse(c)'
  <2>1. /\ Configuration' = After(present, Reached(c), Member(c), at[c] \in misread')
        /\ misread' \in {misread, misread \cup {at[c]}}
        /\ misread' \subseteq 1..at[c]
    BY <1>0, <1>2, NmSetsOnCourse
  <2>2. Reached(c)' = Configuration'
    BY <1>0, <1>1, <2>1, NextMember DEF Inv
  <2>3. misread' \subseteq 1..(at'[c] - 1)
    BY <1>1, <2>1
  <2> QED BY <1>1, <2>2, <2>3 DEF OnCourse, Looking
<1> QED BY <1>0, <1>1, <1>2, StepKeepsCourse

\* Update2 timed out and was carried out: the member may have been applied.
LEMMA NmTimeoutKeepsCourse ==
  ASSUME Inv, AloneOnCourse, NEW c \in Callers, NmRefused(c), NmSets(c)
  PROVE  AloneOnCourse'
<1>0. /\ pc[c] = "nm" /\ pc' = [pc EXCEPT ![c] = "error"]
      /\ UNCHANGED <<dropin, present, req, at, alone, before>>
  BY DEF NmRefused, Fails, sysctlVars
<1>1. pc'[c] = "error" /\ Member(c)' = Member(c)
  BY <1>0 DEF Inv, TypeOK, Member
<1>2. ASSUME c \in alone PROVE OnCourse(c)'
  <2>1. /\ Configuration' = After(present, Reached(c), Member(c), at[c] \in misread')
        /\ misread' \in {misread, misread \cup {at[c]}}
    BY <1>0, <1>2, NmSetsOnCourse
  <2>2. Reached(c)' = Reached(c)
    BY <1>0, <2>1, NextMember DEF Inv
  <2>3. Configuration' = Due(c)'
    BY <1>0, <1>1, <2>1, <2>2 DEF Due
  <2>4. Member(c) # Refused
    BY <1>0, RefusedAssumption DEF Inv, ThreadsFit
  <2> QED BY <1>1, <2>3, <2>4 DEF OnCourse, Looking
<1> QED BY <1>0, <1>2, StepKeepsCourse

LEMMA CallerKeepsCourse ==
  ASSUME Inv, AloneOnCourse, NEW c \in Callers, CallerStep(c)
  PROVE  AloneOnCourse'
<1> USE DEF Goes, Fails
<1>1. CASE Completed(c) \/ Unwritable(c)
  <2>1. \/ pc' = [pc EXCEPT ![c] = "applied"] /\ at[c] = Len(req[c]) + 1
        \/ pc' = [pc EXCEPT ![c] = "error"]
    BY <1>1 DEF Completed, Unwritable
  <2>2. pc[c] = "next" /\ UNCHANGED <<dropin, static, present, req, at, alone, before, misread>>
    BY <1>1 DEF Completed, Unwritable, sysctlVars, deviceVars, history
  <2>3. CASE pc' = [pc EXCEPT ![c] = "applied"] /\ at[c] = Len(req[c]) + 1
    BY <2>2, <2>3, MoveKeepsCourse DEF Looking, Ended
  <2>4. CASE pc' = [pc EXCEPT ![c] = "error"]
    BY <2>2, <2>4, GivingUpKeepsCourse DEF Ended
  <2> QED BY <2>1, <2>3, <2>4
<1>2. CASE Writable(c) \/ Forwarding(c)
  <2>1. \/ pc' = [pc EXCEPT ![c] = "set"]
        \/ pc' = [pc EXCEPT ![c] = "open"]
    BY <1>2 DEF Writable, Forwarding
  <2>2. pc[c] = "next" /\ UNCHANGED <<dropin, static, present, req, at, alone, before, misread>>
    BY <1>2 DEF Writable, Forwarding, sysctlVars, deviceVars, history
  <2>3. CASE pc' = [pc EXCEPT ![c] = "set"]
    BY <2>2, <2>3, MoveKeepsCourse DEF Looking, Ended
  <2>4. CASE pc' = [pc EXCEPT ![c] = "open"]
    BY <2>2, <2>4, MoveKeepsCourse DEF Looking, Ended
  <2> QED BY <2>1, <2>3, <2>4
<1>3. CASE SetParam(c)
  <2>1. \/ pc' = [pc EXCEPT ![c] = "dev"]
        \/ pc' = [pc EXCEPT ![c] = "keyerror"]
    BY <1>3 DEF SetParam
  <2>2. pc[c] = "set" /\ UNCHANGED <<dropin, static, present, req, at, alone, before, misread>>
    BY <1>3 DEF SetParam, sysctlVars, deviceVars, history
  <2>3. CASE pc' = [pc EXCEPT ![c] = "dev"]
    BY <2>2, <2>3, MoveKeepsCourse DEF Looking, Ended
  <2>4. CASE pc' = [pc EXCEPT ![c] = "keyerror"]
    BY <2>2, <2>4, GivingUpKeepsCourse DEF Ended
  <2> QED BY <2>1, <2>3, <2>4
<1>4. CASE IpWriter(c)
  <2>1. PICK d \in Devices : Number(d) = Member(c).id /\ dev' = [dev EXCEPT ![c] = d]
    BY <1>4 DEF IpWriter
  <2>2. Number(dev[c])' = Member(c).id
    <3>1. dev'[c] = d /\ UNCHANGED <<present, addressed>>
      BY <1>4, <2>1 DEF IpWriter, deviceVars, Inv, TypeOK
    <3> QED BY <2>1, <3>1 DEF Number
  <2>3. /\ pc[c] = "dev" /\ pc' = [pc EXCEPT ![c] = "nm"]
        /\ UNCHANGED <<dropin, static, present, req, at, alone, before, misread>>
    BY <1>4 DEF IpWriter, sysctlVars, deviceVars, history
  <2> QED BY <2>2, <2>3, MoveKeepsCourse DEF Looking, Ended
<1>5. CASE NoInstance(c) \/ NmRefused(c)
  <2>1. CASE NmRefused(c) /\ NmSets(c)
    BY <2>1, NmTimeoutKeepsCourse
  <2>2. CASE NoInstance(c) \/ (NmRefused(c) /\ ~NmSets(c))
    <3>1. /\ pc[c] \in {"dev", "nm"} /\ pc' = [pc EXCEPT ![c] = "error"]
          /\ UNCHANGED <<dropin, static, present, req, at, alone, before, misread>>
      BY <2>2 DEF NoInstance, NmRefused, sysctlVars, deviceVars, history
    <3> QED BY <3>1, GivingUpKeepsCourse DEF Ended
  <2> QED BY <1>5, <2>1, <2>2
<1>6. CASE Call(c)
  <2>1. /\ pc[c] = "idle" /\ pc' = [pc EXCEPT ![c] = "next"] /\ UNCHANGED at
        /\ UNCHANGED <<dropin, static>>
        /\ alone' \in {{c}, {}}
        /\ c \in alone' => before' = Configuration /\ misread' = {}
    BY <1>6 DEF Call, sysctlVars, deviceVars, Disturbed
  <2>2. at[c] = 1 /\ pc'[c] = "next" /\ \A d \in Callers : pc'[d] = "idle" => at'[d] = 1
    BY <2>1 DEF AloneOnCourse, Inv, TypeOK
  <2>3. ASSUME c \in alone' PROVE OnCourse(c)'
    <3>1. Reached(c)' = before'
      <4> DEFINE conf == Course(present', before', req'[c], misread')
      <4>1. conf = [k \in Nat |-> IF k = 0 THEN before'
                                  ELSE After(present', conf[k - 1], req'[c][k], k \in misread')]
        BY CourseDefined
      <4>2. conf[0] = before'
        <5> HIDE DEF conf
        <5> QED BY <4>1
      <4>3. Reached(c)' = conf[at'[c] - 1]
        BY DEF Reached
      <4> QED BY <2>1, <2>2, <4>2, <4>3
    <3>2. Configuration' = before'
      BY <2>1, <2>3 DEF Configuration
    <3> QED BY <2>1, <2>2, <2>3, <3>1, <3>2 DEF OnCourse, Looking
  <2> QED BY <2>1, <2>2, <2>3 DEF AloneOnCourse
<1>7. CASE Return(c)
  <2>1. /\ pc' = [pc EXCEPT ![c] = "idle"] /\ at' = [at EXCEPT ![c] = 1]
        /\ pc[c] # "idle"
        /\ IF c \in alone THEN alone' = {} ELSE alone' = alone
    BY <1>7 DEF Return, Disturbed, Ended
  <2>2. alone' = {}
    BY <2>1 DEF Inv, AloneUndisturbed
  <2> QED BY <2>1, <2>2 DEF AloneOnCourse, Inv, TypeOK
<1> QED BY <1>1, <1>2, <1>3, <1>4, <1>5, <1>6, <1>7, ForwardingKeepsCourse, NmWriteKeepsCourse
        DEF CallerStep, BridgeStep

LEMMA HostKeepsCourse ==
  ASSUME AloneOnCourse,
         \/ UnitRuns \/ HostSets \/ DevicesChange \/ Restart \/ Boot \/ UNCHANGED vars
  PROVE  AloneOnCourse'
<1>1. CASE Restart \/ Boot
  <2>1. at' = [c \in Callers |-> 1] /\ alone' = {}
    BY <1>1 DEF Restart, Boot, LosesThreads, Disturbed
  <2> QED BY <2>1 DEF AloneOnCourse
<1>2. CASE DevicesChange
  <2>1. UNCHANGED <<pc, at>> /\ alone' = {}
    BY <1>2 DEF DevicesChange, threadVars, Disturbed
  <2> QED BY <2>1 DEF AloneOnCourse
<1>3. CASE UnitRuns \/ HostSets \/ UNCHANGED vars
  <2>1. UNCHANGED <<dropin, present, addressed, static, pc, req, at, dev, alone, before, misread>>
    BY <1>3 DEF UnitRuns, HostSets, SysctlUnitRuns, SysctlHostSets, vars, sysctlVars,
                deviceVars, threadVars, history
  <2>2. ASSUME NEW c \in alone PROVE OnCourse(c)'
    <3>1. Reached(c)' = Reached(c) /\ Due(c)' = Due(c)
      BY <2>1, SameMember
    <3>2. Number(dev[c])' = Number(dev[c])
      BY <2>1 DEF Number
    <3>3. Configuration' = Configuration /\ Member(c)' = Member(c)
      BY <2>1 DEF Configuration, Member
    <3>4. OnCourse(c)
      BY DEF AloneOnCourse
    <3> QED BY <2>1, <3>1, <3>2, <3>3, <3>4 DEF OnCourse
  <2> QED BY <2>1, <2>2 DEF AloneOnCourse
<1> QED BY <1>1, <1>2, <1>3

\* An answer of a bulk write that nothing overlapped says exactly which members have been
\* applied, however many there are, but not that one has been applied to a device whose
\* static configuration could not be read (_patch_parameters of api.py, "applied in order
\* and is not atomic: the first failure stops the batch and is reported").
THEOREM AnswersAreTrue == Spec => []AnswerMatchesEffect
<1>1. Init => AloneOnCourse
  BY DEF Init, Threads, AloneOnCourse
<1>2. Inv /\ AloneOnCourse /\ [Next]_vars => AloneOnCourse'
  BY CallerKeepsCourse, HostKeepsCourse DEF Next
<1>3. Inv /\ AloneOnCourse => AnswerMatchesEffect
  <2> SUFFICES ASSUME Inv, AloneOnCourse, NEW c \in alone
               PROVE  /\ pc[c] = "applied" => /\ at[c] - 1 = Len(req[c])
                                              /\ Configuration = Reached(c)
                      /\ pc[c] = "error" =>
                           \/ Configuration = Reached(c)
                           \/ Member(c) # Refused /\ Configuration = Due(c)
    BY DEF AnswerMatchesEffect, Reached, Due
  <2>1. OnCourse(c)
    BY DEF AloneOnCourse
  <2>2. Len(req[c]) \in Nat
    BY DEF Inv, TypeOK
  <2> QED BY <2>1, <2>2 DEF OnCourse
<1> QED BY <1>1, <1>2, <1>3, InvAlways, PTL DEF Spec
=============================================================================
