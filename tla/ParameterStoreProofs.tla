------------------------ MODULE ParameterStoreProofs ------------------------
(***************************************************************************)
(* Proofs about ParameterStore, for any number of parameters and values,   *)
(* any faults and any number of writers that may overlap.                  *)
(***************************************************************************)
EXTENDS ParameterStore, TLAPS

\* A thread has an argument while it handles a call, a file open only between open
\* and close, and is told to apply only what a host knows.
ThreadsFit ==
  \A w \in Writers :
    /\ pc[w] = "idle" => arg[w] = NoArg
    /\ pc[w] # "idle" => arg[w] \in Args
    /\ pc[w] = "apply" => arg[w].pid \in HostPids
    /\ fd[w] # "none" => pc[w] = "dump"

\* A call that is alone is the only one, and what it read, truncated and wrote is as
\* it left it.
AloneUndisturbed ==
  \A w \in alone :
    /\ pc[w] # "idle"
    /\ \A x \in Writers : pc[x] # "idle" => x = w
    /\ pc[w] \in {"open", "dump", "replace"} =>
         data[w] = [store.doc EXCEPT ![arg[w].pid] = arg[w].value]
    /\ pc[w] = "dump" => fd[w] = "tmp" /\ tmp = Empty
    /\ pc[w] = "replace" => tmp = Whole(data[w])

\* A promise is in the store, and no call under way can disturb it.
PromisesStored ==
  \A p \in Pids : promised[p].known =>
    /\ \A w \in Writers : pc[w] # "idle" => w \in alone
    /\ store.form = "whole"
    /\ store.doc[p] = promised[p].value

\* A call that is alone and past the host has its value in effect there, and so has
\* a promise that reapply() need not restore any more, unless the last call failed.
HostCurrent ==
  /\ ~booting => todo = {}
  /\ \A w \in alone :
       pc[w] \in {"load", "open", "dump", "replace"} /\ arg[w].pid \in HostPids =>
         arg[w].value \in {Cleared, host[arg[w].pid]}
  /\ \A p \in HostPids :
       promised[p].known /\ p \notin todo /\ ~Under(p) /\ p \notin failed =>
         promised[p].value \in {Cleared, host[p]}

Inv == TypeOK /\ ThreadsFit /\ AloneUndisturbed /\ PromisesStored /\ HostCurrent

----------------------------------------------------------------------------

LEMMA Constants ==
  /\ HostPids \subseteq Pids
  /\ "none" \notin Pids
  /\ Cleared \in Contents
  /\ Defaults \in Documents
BY PidsAssumption DEF HostPids, Pids, Contents, Defaults, Documents

LEMMA Files ==
  /\ Absent \in File /\ Empty \in File /\ Torn \in File
  /\ \A d \in Documents : Whole(d) \in File /\ Whole(d).form = "whole" /\ Whole(d).doc = d
BY Constants DEF Absent, Empty, Torn, Whole, File

LEMMA Promises ==
  /\ ~Unknown.known
  /\ \A v \in Contents : Promise(v).known /\ Promise(v).value = v
BY DEF Unknown, Promise

LEMMA Arguments ==
  /\ NoArg.pid = "none"
  /\ \A p \in Pids, v \in Contents :
       [pid |-> p, value |-> v] \in Args /\ [pid |-> p, value |-> v] # NoArg
  /\ \A a \in Args : a.pid \in Pids /\ a.value \in Contents /\ a # NoArg
                     /\ a = [pid |-> a.pid, value |-> a.value]
BY Constants DEF NoArg, Args

LEMMA InvInit == Init => Inv
<1> SUFFICES ASSUME Init PROVE Inv
  OBVIOUS
<1>1. TypeOK
  BY Constants, Files DEF Init, Threads, TypeOK
<1>2. ThreadsFit /\ AloneUndisturbed
  BY DEF Init, Threads, ThreadsFit, AloneUndisturbed
<1>3. PromisesStored /\ HostCurrent
  BY Promises, Constants DEF Init, PromisesStored, HostCurrent
<1> QED BY <1>1, <1>2, <1>3 DEF Inv

----------------------------------------------------------------------------
(* The parts of a handler                                                  *)

\* A call begins, for a client or for reapply().
LEMMA CallKeepsInv ==
  ASSUME Inv, NEW w \in Writers, NEW p \in Pids, NEW v \in Contents, Calls(w, p, v),
         booting' = booting, todo' \in SUBSET todo,
         \A q \in todo : q \notin todo' => q = p
  PROVE  Inv'
<1> USE DEF Inv
<1> DEFINE a == [pid |-> p, value |-> v]
<1>1. /\ pc[w] = "idle" /\ arg[w] = NoArg /\ fd[w] = "none"
      /\ pc' = [pc EXCEPT ![w] = IF Applies(p, v) THEN "apply" ELSE "load"]
      /\ arg' = [arg EXCEPT ![w] = a]
      /\ UNCHANGED <<store, tmp, host, data, fd, failed>>
  BY DEF Calls, ThreadsFit, fileVars, TypeOK
<1>2. CASE Resting
  <2>1. alone' = {w} /\ promised' = promised
    BY <1>1, <1>2 DEF Calls, Enters
  <2>2. TypeOK'
    BY <1>1, <2>1, Arguments DEF TypeOK
  <2>3. ThreadsFit'
    BY <1>1, Arguments DEF ThreadsFit, TypeOK, Applies, HostPids
  <2>4. AloneUndisturbed'
    BY <1>1, <1>2, <2>1 DEF AloneUndisturbed, TypeOK, Resting
  <2>5. PromisesStored'
    BY <1>1, <1>2, <2>1 DEF PromisesStored, TypeOK, Resting
  <2>6. HostCurrent'
    <3>1. ~booting' => todo' = {}
      BY DEF HostCurrent
    <3>2. pc'[w] = "load" => p \notin HostPids \/ v = Cleared
      BY <1>1 DEF Applies, TypeOK
    <3>3. \A x \in alone' :
            pc'[x] \in {"load", "open", "dump", "replace"} /\ arg'[x].pid \in HostPids =>
              arg'[x].value \in {Cleared, host'[arg'[x].pid]}
      BY <1>1, <2>1, <3>2 DEF TypeOK
    <3>4. ASSUME NEW q \in HostPids, promised'[q].known, q \notin todo', ~Under(q)', q \notin failed'
          PROVE  promised'[q].value \in {Cleared, host'[q]}
      <4>1. arg'[w].pid = p
        BY <1>1 DEF TypeOK
      <4>2. q # p
        BY <3>4, <4>1 DEF Under
      <4>3. ~Under(q)
        BY <1>1, <3>4, <4>1, Arguments, Constants DEF Under, TypeOK
      <4>4. q \notin todo
        BY <3>4, <4>2
      <4> QED BY <1>1, <2>1, <3>4, <4>3, <4>4 DEF HostCurrent
    <3> QED BY <3>1, <3>3, <3>4 DEF HostCurrent
  <2> QED BY <2>2, <2>3, <2>4, <2>5, <2>6
<1>3. CASE ~Resting
  <2>1. alone' = {} /\ promised' = [q \in Pids |-> Unknown]
    BY <1>1, <1>3 DEF Calls, Enters
  <2>2. TypeOK'
    BY <1>1, <2>1, Arguments DEF TypeOK
  <2>3. ThreadsFit'
    BY <1>1, Arguments DEF ThreadsFit, TypeOK, Applies, HostPids
  <2>4. AloneUndisturbed' /\ PromisesStored'
    BY <2>1, Promises DEF AloneUndisturbed, PromisesStored
  <2>5. HostCurrent'
    BY <1>1, <2>1, Promises, Constants DEF HostCurrent
  <2> QED BY <2>2, <2>3, <2>4, <2>5
<1> QED BY <1>2, <1>3

\* A call fails; the host may have changed for its parameter, the .tmp in any way, the
\* store only if the call was not alone.
LEMMA FailureKeepsInv ==
  ASSUME Inv, NEW w \in Writers, pc[w] # "idle",
         Fails(w),
         fd' = [fd EXCEPT ![w] = "none"],
         tmp' \in File, store' \in File, w \in alone => store' = store,
         host' \in [HostPids -> Contents],
         \A q \in HostPids : q # arg[w].pid => host'[q] = host[q],
         booting' = booting, todo' = todo
  PROVE  Inv'
<1> USE DEF Inv
<1>0. arg[w] \in Args /\ arg[w].pid \in Pids
  BY Arguments DEF ThreadsFit
<1>1. /\ pc' = [pc EXCEPT ![w] = "idle"]
      /\ arg' = [arg EXCEPT ![w] = NoArg]
      /\ data' = [data EXCEPT ![w] = Defaults]
      /\ alone' = alone \ {w} /\ promised' = promised
      /\ failed' = failed \cup ({arg[w].pid} \cap HostPids)
  BY DEF Fails, Answers
<1>2. TypeOK'
  BY <1>1, Constants DEF TypeOK
<1>3. ThreadsFit'
  BY <1>1 DEF ThreadsFit, TypeOK
<1>4. AloneUndisturbed'
  BY <1>1 DEF AloneUndisturbed, TypeOK
<1>5. ASSUME NEW p \in Pids, promised'[p].known
      PROVE  w \in alone /\ store' = store
  BY <1>1, <1>5 DEF PromisesStored
<1>6. PromisesStored'
  BY <1>1, <1>5 DEF PromisesStored, TypeOK
<1>7. HostCurrent'
  <2>1. \A x \in alone' :
          pc'[x] \in {"load", "open", "dump", "replace"} /\ arg'[x].pid \in HostPids =>
            arg'[x].value \in {Cleared, host'[arg'[x].pid]}
    BY <1>1 DEF AloneUndisturbed, TypeOK
  <2>2. ASSUME NEW q \in HostPids, promised'[q].known, q \notin todo', ~Under(q)', q \notin failed'
        PROVE  promised'[q].value \in {Cleared, host'[q]}
    <3>1. q # arg[w].pid /\ q \notin failed
      BY <1>1, <2>2
    <3>2. ~Under(q)
      BY <1>1, <2>2, <3>1 DEF Under, TypeOK
    <3> QED BY <1>1, <2>2, <3>1, <3>2 DEF HostCurrent
  <2> QED BY <2>1, <2>2 DEF HostCurrent
<1> QED BY <1>2, <1>3, <1>4, <1>6, <1>7

LEMMA FlushIsAFile ==
  ASSUME NEW d \in Documents, NEW c, NEW f \in Flushed(c, d)
  PROVE  f \in File
BY Files DEF Flushed

LEMMA InvStep == Inv /\ [Next]_vars => Inv'
<1> SUFFICES ASSUME Inv, [Next]_vars PROVE Inv'
  OBVIOUS
<1> USE DEF Inv
<1>1. ASSUME NEW w \in Writers, Write(w) PROVE Inv'
  BY <1>1, CallKeepsInv DEF Write, bootVars
<1>2. ASSUME NEW w \in Writers, Reapply(w) PROVE Inv'
  <2>1. PICK p \in todo :
          /\ todo' = todo \ {p}
          /\ IF store.doc[p] # Cleared
             THEN Calls(w, p, store.doc[p])
             ELSE UNCHANGED <<fileVars, host, threadVars, history>>
    BY <1>2 DEF Reapply
  <2>2. booting' = booting /\ booting
    BY <1>2 DEF Reapply
  <2>3. p \in HostPids /\ p \in Pids /\ store.doc[p] \in Contents
    BY Constants DEF TypeOK, File, Documents
  <2>4. CASE store.doc[p] # Cleared
    <3>1. Calls(w, p, store.doc[p])
      BY <2>1, <2>4
    <3> HIDE DEF Inv
    <3> QED BY <2>1, <2>2, <2>3, <3>1, CallKeepsInv
  <2>5. CASE store.doc[p] = Cleared
    <3>1. UNCHANGED <<fileVars, host, threadVars, history>>
      BY <2>1, <2>5
    <3>2. TypeOK'
      BY <2>1, <2>2, <3>1 DEF TypeOK, fileVars, threadVars, history
    <3>3. ThreadsFit' /\ AloneUndisturbed' /\ PromisesStored'
      BY <3>1 DEF ThreadsFit, AloneUndisturbed, PromisesStored, fileVars, threadVars, history
    <3>4. ASSUME NEW q \in HostPids, promised[q].known, q \notin todo', ~Under(q), q \notin failed
          PROVE  promised[q].value \in {Cleared, host[q]}
      BY <2>1, <2>3, <2>5, <3>4 DEF HostCurrent, PromisesStored
    <3>5. HostCurrent'
      BY <2>2, <3>1, <3>4 DEF HostCurrent, Under, threadVars, history
    <3> QED BY <3>2, <3>3, <3>5
  <2> QED BY <2>4, <2>5
<1>3. ASSUME NEW w \in Writers, Apply(w) PROVE Inv'
  <2>1. /\ pc[w] = "apply" /\ pc' = [pc EXCEPT ![w] = "load"]
        /\ host' = [host EXCEPT ![arg[w].pid] = arg[w].value]
        /\ UNCHANGED <<store, tmp, arg, data, fd, booting, todo, alone, promised, failed>>
    BY <1>3 DEF Apply, WriterGoes, fileVars, bootVars, history
  <2>2. arg[w] \in Args /\ arg[w].pid \in HostPids /\ arg[w].value \in Contents
    BY <2>1, Arguments DEF ThreadsFit
  <2>3. TypeOK'
    BY <2>1, <2>2 DEF TypeOK
  <2>4. \A x \in alone : x = w
    BY <2>1 DEF AloneUndisturbed
  <2>5. pc'[w] = "load" /\ \A x \in Writers : x # w => pc'[x] = pc[x]
    BY <2>1 DEF TypeOK
  <2>6. ThreadsFit'
    BY <2>1 DEF ThreadsFit, TypeOK
  <2>7. AloneUndisturbed'
    BY <2>1, <2>4, <2>5 DEF AloneUndisturbed
  <2>8. PromisesStored'
    BY <2>1, <2>5 DEF PromisesStored
  <2>9. ThreadsFit' /\ AloneUndisturbed' /\ PromisesStored'
    BY <2>6, <2>7, <2>8
  <2>10. host'[arg[w].pid] = arg[w].value
    BY <2>1, <2>2 DEF TypeOK
  <2>11. \A x \in alone :
          pc'[x] \in {"load", "open", "dump", "replace"} /\ arg[x].pid \in HostPids =>
            arg[x].value \in {Cleared, host'[arg[x].pid]}
    BY <2>4, <2>10
  <2>12. \A q \in HostPids : ~Under(q) => host'[q] = host[q]
    BY <2>1, <2>2 DEF Under, TypeOK
  <2>13. HostCurrent'
    BY <2>1, <2>11, <2>12 DEF HostCurrent, Under
  <2> QED BY <2>3, <2>9, <2>13
<1>4. ASSUME NEW w \in Writers, ApplyRefused(w) PROVE Inv'
  <2>1. /\ pc[w] = "apply" /\ Fails(w)
        /\ host' \in {host, [host EXCEPT ![arg[w].pid] = arg[w].value]}
        /\ UNCHANGED <<store, tmp, fd, booting, todo>>
    BY <1>4 DEF ApplyRefused, fileVars, bootVars
  <2>2. arg[w].pid \in HostPids /\ arg[w].value \in Contents
    BY <2>1, Arguments DEF ThreadsFit
  <2>3. host' \in [HostPids -> Contents] /\ \A q \in HostPids : q # arg[w].pid => host'[q] = host[q]
    BY <2>1, <2>2 DEF TypeOK
  <2>4. fd' = [fd EXCEPT ![w] = "none"] /\ store' \in File /\ tmp' \in File
    BY <2>1 DEF ThreadsFit, TypeOK
  <2> HIDE DEF Inv
  <2> QED BY <2>1, <2>3, <2>4, FailureKeepsInv
<1>5. ASSUME NEW w \in Writers, Load(w) PROVE Inv'
  <2>1. /\ pc[w] = "load" /\ pc' = [pc EXCEPT ![w] = "open"]
        /\ data' = [data EXCEPT ![w] = [store.doc EXCEPT ![arg[w].pid] = arg[w].value]]
        /\ UNCHANGED <<store, tmp, host, arg, fd, booting, todo, alone, promised, failed>>
    BY <1>5 DEF Load, WriterGoes, fileVars, bootVars, history
  <2>2. arg[w].pid \in Pids /\ arg[w].value \in Contents /\ store.doc \in Documents
    BY <2>1, Arguments DEF ThreadsFit, TypeOK, File
  <2>3. [store.doc EXCEPT ![arg[w].pid] = arg[w].value] \in Documents
    BY <2>2 DEF Documents
  <2>4. TypeOK'
    BY <2>1, <2>3 DEF TypeOK
  <2>5. ThreadsFit' /\ PromisesStored'
    BY <2>1 DEF ThreadsFit, PromisesStored, TypeOK
  <2>6. \A x \in alone : x = w
    BY <2>1 DEF AloneUndisturbed
  <2>7. /\ pc'[w] = "open" /\ \A x \in Writers : x # w => pc'[x] = pc[x]
        /\ data'[w] = [store.doc EXCEPT ![arg[w].pid] = arg[w].value]
    BY <2>1 DEF TypeOK
  <2>8. AloneUndisturbed'
    BY <2>1, <2>6, <2>7 DEF AloneUndisturbed
  <2>9. HostCurrent'
    BY <2>1, <2>6, <2>7 DEF HostCurrent, Under
  <2> QED BY <2>4, <2>5, <2>8, <2>9
<1>6. ASSUME NEW w \in Writers, Open(w) PROVE Inv'
  <2>1. /\ pc[w] = "open" /\ pc' = [pc EXCEPT ![w] = "dump"]
        /\ tmp' = Empty /\ fd' = [fd EXCEPT ![w] = "tmp"]
        /\ UNCHANGED <<store, host, arg, data, booting, todo, alone, promised, failed>>
    BY <1>6 DEF Open, WriterGoes, bootVars, history
  <2>2. TypeOK'
    BY <2>1, Files DEF TypeOK
  <2>3. ThreadsFit' /\ PromisesStored'
    BY <2>1 DEF ThreadsFit, PromisesStored, TypeOK
  <2>4. \A x \in alone : x = w
    BY <2>1 DEF AloneUndisturbed
  <2>5. /\ pc'[w] = "dump" /\ \A x \in Writers : x # w => pc'[x] = pc[x]
        /\ fd'[w] = "tmp"
    BY <2>1 DEF TypeOK
  <2>6. AloneUndisturbed'
    BY <2>1, <2>4, <2>5 DEF AloneUndisturbed
  <2>7. HostCurrent'
    BY <2>1, <2>4, <2>5 DEF HostCurrent, Under
  <2> QED BY <2>2, <2>3, <2>6, <2>7
<1>7. ASSUME NEW w \in Writers, OpenFails(w) \/ ReplaceFails(w) PROVE Inv'
  <2>1. /\ pc[w] \in {"open", "replace"} /\ Fails(w)
        /\ UNCHANGED <<store, tmp, host, fd, booting, todo>>
    BY <1>7 DEF OpenFails, ReplaceFails, fileVars, bootVars
  <2>2. fd' = [fd EXCEPT ![w] = "none"] /\ store' \in File /\ tmp' \in File
        /\ host' \in [HostPids -> Contents]
    BY <2>1 DEF ThreadsFit, TypeOK
  <2> HIDE DEF Inv
  <2> QED BY <2>1, <2>2, FailureKeepsInv
<1>8. ASSUME NEW w \in Writers, Dump(w) PROVE Inv'
  <2>1. PICK c \in Flushed(Content(w), data[w]) : Writes(w, c)
    BY <1>8 DEF Dump
  <2>2. /\ pc[w] = "dump" /\ pc' = [pc EXCEPT ![w] = "replace"]
        /\ fd' = [fd EXCEPT ![w] = "none"]
        /\ UNCHANGED <<host, arg, data, booting, todo, alone, promised, failed>>
    BY <1>8 DEF Dump, WriterGoes, bootVars, history
  <2>3. c \in File
    BY FlushIsAFile DEF TypeOK
  <2>4. TypeOK'
    BY <2>1, <2>2, <2>3 DEF Writes, TypeOK
  <2>5. ThreadsFit'
    BY <2>2 DEF ThreadsFit, TypeOK
  <2>6. w \in alone => fd[w] = "tmp" /\ tmp = Empty
    BY <2>2 DEF AloneUndisturbed
  <2>7. w \in alone => c = Whole(data[w]) /\ tmp' = c /\ store' = store
    BY <2>1, <2>6 DEF Flushed, Content, Writes
  <2>8. \A x \in alone : x = w
    BY <2>2 DEF AloneUndisturbed
  <2>9. pc'[w] = "replace" /\ \A x \in Writers : x # w => pc'[x] = pc[x]
    BY <2>2 DEF TypeOK
  <2>10. AloneUndisturbed'
    BY <2>2, <2>7, <2>8, <2>9 DEF AloneUndisturbed
  <2>11. PromisesStored'
    BY <2>2, <2>7, <2>9 DEF PromisesStored
  <2>12. HostCurrent'
    BY <2>2, <2>8, <2>9 DEF HostCurrent, Under
  <2> QED BY <2>4, <2>5, <2>10, <2>11, <2>12
<1>9. ASSUME NEW w \in Writers, DumpFails(w) PROVE Inv'
  <2>1. PICK c \in {Torn, Content(w)} : Writes(w, c)
    BY <1>9 DEF DumpFails
  <2>2. /\ pc[w] = "dump" /\ Fails(w)
        /\ fd' = [fd EXCEPT ![w] = "none"]
        /\ UNCHANGED <<host, booting, todo>>
    BY <1>9 DEF DumpFails, bootVars
  <2>3. c \in File
    BY Files DEF Content, TypeOK
  <2>4. tmp' \in File /\ store' \in File /\ host' \in [HostPids -> Contents]
    BY <2>1, <2>2, <2>3 DEF Writes, TypeOK
  <2>5. w \in alone => store' = store
    BY <2>1, <2>2 DEF AloneUndisturbed, Writes
  <2> HIDE DEF Inv
  <2> QED BY <2>2, <2>4, <2>5, FailureKeepsInv
<1>10. ASSUME NEW w \in Writers, Replace(w) PROVE Inv'
  <2>1. /\ pc[w] = "replace" /\ store' = tmp /\ tmp' = Absent
        /\ fd' = [x \in Writers |-> CASE fd[x] = "tmp" -> "store"
                                      [] fd[x] = "store" -> "gone"
                                      [] OTHER -> fd[x]]
        /\ UNCHANGED <<host, booting, todo>>
    BY <1>10 DEF Replace, bootVars
  <2>2. /\ pc' = [pc EXCEPT ![w] = "idle"]
        /\ arg' = [arg EXCEPT ![w] = NoArg]
        /\ data' = [data EXCEPT ![w] = Defaults]
        /\ alone' = alone \ {w}
        /\ promised' = IF w \in alone
                       THEN [promised EXCEPT ![arg[w].pid] = Promise(arg[w].value)]
                       ELSE promised
        /\ failed' = failed \ {arg[w].pid}
    BY <1>10 DEF Replace, Answers
  <2>3. arg[w] \in Args /\ arg[w].pid \in Pids /\ arg[w].value \in Contents
    BY <2>1, Arguments DEF ThreadsFit
  <2>4. promised' \in [Pids -> {Unknown} \cup {Promise(v) : v \in Contents}]
    BY <2>2, <2>3 DEF TypeOK
  <2>5. TypeOK'
    <3>1. fd' \in [Writers -> {"none", "tmp", "store", "gone"}]
      BY <2>1 DEF TypeOK
    <3> QED BY <2>1, <2>2, <2>4, <3>1, Files, Constants DEF TypeOK
  <2>6. fd[w] = "none" /\ \A x \in Writers : fd'[x] # "none" => fd[x] # "none"
    BY <2>1 DEF ThreadsFit, TypeOK
  <2>7. ThreadsFit'
    BY <2>2, <2>6 DEF ThreadsFit, TypeOK
  <2>8. AloneUndisturbed'
    BY <2>1, <2>2 DEF AloneUndisturbed, TypeOK
  <2>9. ASSUME NEW p \in Pids, promised'[p].known
        PROVE  /\ w \in alone
               /\ p = arg[w].pid => promised'[p].value = arg[w].value
               /\ p # arg[w].pid => promised'[p] = promised[p]
    BY <2>1, <2>2, <2>3, <2>9, Promises DEF PromisesStored, TypeOK
  <2>10. w \in alone =>
           /\ store' = Whole([store.doc EXCEPT ![arg[w].pid] = arg[w].value])
           /\ \A x \in Writers : pc'[x] = "idle"
    BY <2>1, <2>2 DEF AloneUndisturbed, TypeOK
  <2>11. store.doc \in Documents
    BY DEF TypeOK, File
  <2>12. PromisesStored'
    <3> SUFFICES ASSUME NEW p \in Pids, promised'[p].known
                 PROVE  /\ \A x \in Writers : pc'[x] # "idle" => x \in alone'
                        /\ store'.form = "whole"
                        /\ store'.doc[p] = promised'[p].value
      BY DEF PromisesStored
    <3>1. [store.doc EXCEPT ![arg[w].pid] = arg[w].value] \in Documents
      BY <2>3, <2>11 DEF Documents
    <3>2. store'.form = "whole" /\ store'.doc = [store.doc EXCEPT ![arg[w].pid] = arg[w].value]
      BY <2>9, <2>10, <3>1, Files
    <3>3. store'.doc[p] = promised'[p].value
      BY <2>3, <2>9, <2>11, <3>2 DEF PromisesStored, Documents
    <3> QED BY <2>9, <2>10, <3>2, <3>3
  <2>13. HostCurrent'
    <3>1. \A x \in alone' : pc'[x] # "idle" /\ arg'[x] = arg[x] /\ pc'[x] = pc[x]
      BY <2>2 DEF AloneUndisturbed, TypeOK
    <3>2. ASSUME NEW q \in HostPids, promised'[q].known, q \notin todo', ~Under(q)', q \notin failed'
          PROVE  promised'[q].value \in {Cleared, host'[q]}
      <4>1. w \in alone /\ q \in Pids
        BY <2>9, <3>2, Constants
      <4>2. CASE q = arg[w].pid
        BY <2>1, <2>9, <4>1, <4>2, <3>2 DEF HostCurrent
      <4>3. CASE q # arg[w].pid
        <5>1. ~Under(q) /\ q \notin failed
          BY <2>2, <3>2, <4>3 DEF Under, TypeOK
        <5> QED BY <2>1, <2>9, <3>2, <4>1, <4>3, <5>1 DEF HostCurrent
      <4> QED BY <4>2, <4>3
    <3> QED BY <2>1, <2>2, <3>1, <3>2 DEF HostCurrent
  <2> QED BY <2>5, <2>7, <2>8, <2>12, <2>13
<1>11. ASSUME Listen PROVE Inv'
  BY <1>11 DEF Listen, fileVars, threadVars, history, TypeOK, ThreadsFit, AloneUndisturbed,
     PromisesStored, HostCurrent, Under
<1>12. ASSUME Restart PROVE Inv'
  <2>1. PICK lost \in SUBSET Reverting :
          host' = [p \in HostPids |-> IF p \in lost THEN Cleared ELSE host[p]]
    BY <1>12 DEF Restart
  <2>2. host' \in [HostPids -> Contents]
    BY <2>1, Constants DEF TypeOK
  <2>3. promised' = promised
    BY <1>12 DEF Restart
  <2>4. TypeOK'
    BY <1>12, <2>2, Constants DEF Restart, fileVars, TypeOK
  <2>5. ThreadsFit' /\ AloneUndisturbed'
    BY <1>12 DEF Restart, ThreadsFit, AloneUndisturbed
  <2>6. PromisesStored'
    BY <1>12, <2>3 DEF Restart, fileVars, PromisesStored
  <2>7. HostCurrent'
    BY <1>12 DEF Restart, HostCurrent
  <2> QED BY <2>4, <2>5, <2>6, <2>7
<1>13. CASE UNCHANGED vars
  BY <1>13 DEF vars, fileVars, threadVars, bootVars, history, TypeOK, ThreadsFit,
     AloneUndisturbed, PromisesStored, HostCurrent, Under
<1> QED
  BY <1>1, <1>2, <1>3, <1>4, <1>5, <1>6, <1>7, <1>8, <1>9, <1>10, <1>11, <1>12, <1>13
  DEF Next, WriterStep

----------------------------------------------------------------------------

\* Every reachable state has its type.
THEOREM StoreTypeCorrect == Spec => []TypeOK
<1>1. Init => Inv
  BY InvInit
<1>2. Inv /\ [Next]_vars => Inv'
  BY InvStep
<1>3. Inv => TypeOK
  BY DEF Inv
<1> QED BY <1>1, <1>2, <1>3, PTL DEF Spec

\* What a write that overlapped no other stored stays until the next one of the
\* parameter is renamed in or calls overlap, whatever fails meanwhile and whatever
\* state earlier writers left the two files in.
THEOREM SettledWritesAreKept == Spec => []SettledWriteKept
<1>1. Init => Inv
  BY InvInit
<1>2. Inv /\ [Next]_vars => Inv'
  BY InvStep
<1>3. Inv => SettledWriteKept
  BY DEF Inv, PromisesStored, SettledWriteKept
<1> QED BY <1>1, <1>2, <1>3, PTL DEF Spec

\* Once the listener is open the host has what such a write stored, unless the last
\* call for the parameter failed (reapply() at the start included) or it is cleared.
THEOREM HostIsFollowing == Spec => []HostFollowsStore
<1>1. Init => Inv
  BY InvInit
<1>2. Inv /\ [Next]_vars => Inv'
  BY InvStep
<1>3. Inv => HostFollowsStore
  BY DEF Inv, HostCurrent, HostFollowsStore
<1> QED BY <1>1, <1>2, <1>3, PTL DEF Spec

----------------------------------------------------------------------------
(* The implementation of AtomicStore                                       *)

\* No calls overlap: whoever is under way is alone.
CallsAreAlone == \A w \in Writers : pc[w] # "idle" => w \in alone

LEMMA Uncontended ==
  /\ CallsAreAlone => Contended = {}
  /\ ~CallsAreAlone => Contended = Pids
BY DEF CallsAreAlone, Contended

Kept == Atomic!StoreNext \/ UNCHANGED Atomic!storeVars

\* A call begins, and asks.
LEMMA CallAsks ==
  ASSUME Inv, NEW w \in Writers, NEW p \in Pids, NEW v \in Contents, Calls(w, p, v)
  PROVE  Kept
<1>1. arg[w] = Atomic!Idle /\ store' = store
  BY DEF Calls, Inv, ThreadsFit, NoArg, Atomic!Idle, fileVars
<1>2. [pid |-> p, value |-> v] \in Atomic!Requests
  BY DEF Atomic!Requests
<1>3. Atomic!Ask(w)
  BY <1>1, <1>2 DEF Calls, Atomic!Ask
<1> QED BY <1>3 DEF Kept, Atomic!StoreNext

\* A call ends, and changed nothing.
LEMMA AnswerRefuses ==
  ASSUME Inv, NEW w \in Writers, pc[w] # "idle", Answers(w),
         store' = store
  PROVE  Kept
<1>1. arg[w] # Atomic!Idle
  BY Arguments DEF Inv, ThreadsFit, NoArg, Atomic!Idle
<1>2. Atomic!Refuse(w)
  BY <1>1 DEF Answers, NoArg, Atomic!Idle, Atomic!Refuse
<1> QED BY <1>2 DEF Kept, Atomic!StoreNext

\* The rename takes the value, and no other changes.
LEMMA ReplaceTakes ==
  ASSUME Inv, CallsAreAlone, NEW w \in Writers, Replace(w)
  PROVE  Kept
<1>1. pc[w] = "replace" /\ store' = tmp /\ arg' = [arg EXCEPT ![w] = NoArg] /\ w \in alone
  BY DEF Replace, Answers, CallsAreAlone
<1>2. arg[w] # Atomic!Idle /\ arg[w].pid \in Pids /\ arg[w].value \in Contents
  BY <1>1, Arguments DEF Inv, ThreadsFit, NoArg, Atomic!Idle
<1>3. store' = Whole([store.doc EXCEPT ![arg[w].pid] = arg[w].value])
  BY <1>1 DEF Inv, AloneUndisturbed
<1>4. store'.doc = [store.doc EXCEPT ![arg[w].pid] = arg[w].value]
  BY <1>3 DEF Whole
<1>5. Atomic!Take(w)
  BY <1>1, <1>2, <1>4 DEF NoArg, Atomic!Idle, Atomic!Take
<1> QED BY <1>5 DEF Kept, Atomic!StoreNext

\* A thread that takes a step while calls overlap.
LEMMA StepIsDisturbed ==
  ASSUME Inv, Inv', ~CallsAreAlone, NEW w \in Writers,
         arg' \in {arg, [arg EXCEPT ![w] = NoArg]}
  PROVE  Kept
<1>1. Contended = Pids /\ (Pids # {} => Contended # {})
  BY Uncontended
<1>2. PICK x \in Writers : pc[x] # "idle"
  BY DEF CallsAreAlone
<1>3. Pids # {}
  BY <1>2 DEF Inv, ThreadsFit, Args
<1>4. store'.doc \in [Pids -> Contents]
  BY DEF Inv, TypeOK, File, Documents
<1>5. Atomic!Disturbed(w)
  BY <1>1, <1>3, <1>4 DEF Atomic!Disturbed, Atomic!Idle, NoArg
<1> QED BY <1>5 DEF Kept, Atomic!StoreNext

LEMMA StoreStep ==
  ASSUME Inv, Inv', [Next]_vars
  PROVE  Kept
<1>1. ASSUME UNCHANGED <<store, arg>> PROVE Kept
  BY <1>1 DEF Kept, Atomic!storeVars
<1>2. CASE Listen \/ UNCHANGED vars
  BY <1>1, <1>2 DEF Listen, fileVars, threadVars, vars
<1>3. CASE Restart
  <2>1. Atomic!Stop
    BY <1>3 DEF Restart, fileVars, NoArg, Atomic!Stop, Atomic!Idle
  <2> QED BY <2>1 DEF Kept, Atomic!StoreNext
<1>4. ASSUME NEW w \in Writers, Write(w) PROVE Kept
  BY <1>4, CallAsks DEF Write
<1>5. ASSUME NEW w \in Writers, Reapply(w) PROVE Kept
  <2>1. PICK p \in todo : IF store.doc[p] # Cleared
                          THEN Calls(w, p, store.doc[p])
                          ELSE UNCHANGED <<fileVars, host, threadVars, history>>
    BY <1>5 DEF Reapply
  <2>2. p \in Pids /\ store.doc[p] \in Contents
    BY Constants DEF Inv, TypeOK, File, Documents
  <2> QED BY <1>1, <2>1, <2>2, CallAsks DEF fileVars, threadVars
<1>6. ASSUME NEW w \in Writers, WriterStep(w), CallsAreAlone PROVE Kept
  <2>1. CASE Apply(w) \/ Load(w) \/ Open(w)
    BY <1>1, <2>1 DEF Apply, Load, Open, fileVars
  <2>2. CASE ApplyRefused(w) \/ OpenFails(w) \/ ReplaceFails(w)
    BY <2>2, AnswerRefuses DEF Fails, ApplyRefused, OpenFails, ReplaceFails, fileVars
  <2>3. pc[w] = "dump" => fd[w] = "tmp"
    BY <1>6 DEF CallsAreAlone, Inv, AloneUndisturbed
  <2>4. CASE Dump(w)
    BY <1>1, <2>3, <2>4 DEF Dump, WriterGoes, Writes
  <2>5. CASE DumpFails(w)
    BY <2>3, <2>5, AnswerRefuses DEF Fails, DumpFails, Writes
  <2>6. CASE Replace(w)
    BY <1>6, <2>6, ReplaceTakes
  <2> QED BY <1>6, <2>1, <2>2, <2>4, <2>5, <2>6 DEF WriterStep
<1>7. ASSUME NEW w \in Writers, WriterStep(w), ~CallsAreAlone PROVE Kept
  <2>1. arg' \in {arg, [arg EXCEPT ![w] = NoArg]}
    BY <1>7 DEF WriterStep, Apply, ApplyRefused, Load, Open, OpenFails, Dump, DumpFails,
       Replace, ReplaceFails, Fails, Answers
  <2> QED BY <1>7, <2>1, StepIsDisturbed
<1> QED BY <1>2, <1>3, <1>4, <1>5, <1>6, <1>7 DEF Next

\* A write that no other overlaps is one atomic change of one value or none, wherever
\* disk or host fails or the process is killed, and whatever came before it.
THEOREM StoreIsAtomic == Spec => AtomicImplemented
<1>1. Init => Inv /\ Atomic!StoreInit
  BY InvInit DEF Init, Threads, Absent, Defaults, NoArg, Atomic!StoreInit, Atomic!Idle
<1>2. Inv /\ [Next]_vars => Inv'
  BY InvStep
<1>3. Inv /\ Inv' /\ [Next]_vars => [Atomic!StoreNext]_(Atomic!storeVars)
  BY StoreStep DEF Kept
<1> QED BY <1>1, <1>2, <1>3, PTL DEF Spec, AtomicImplemented, Atomic!StoreSpec
=============================================================================
