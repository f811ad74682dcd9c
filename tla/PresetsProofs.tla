---------------------------- MODULE PresetsProofs ----------------------------
(***************************************************************************)
(* Proofs about Presets, for any number of requests, names and values and  *)
(* with or without a disk that fails.                                      *)
(***************************************************************************)
EXTENDS Presets, TLAPS

StateOK ==
  /\ custom \in [Names -> File]
  /\ tmp \in [Names -> File]
  /\ pc \in [Callers -> {"idle", "remove"} \cup Saving \cup Reading]
  /\ arg \in [Callers -> Args \cup {NoArg}]
  /\ fd \in [Callers -> {"none", "tmp", "custom", "gone"}]
  /\ todo \in [Callers -> SUBSET Names]
  /\ answer \in [Callers -> [Names -> Contents \cup {Shipped, Died, NoAnswer}]]
  /\ alone \in SUBSET Callers

SeenOK == seen \in [Callers -> [Names -> SUBSET (Contents \cup {Corrupt})]]

\* A thread has a name and a value while it handles a call that needs them, and a file
\* open only between open and close.
ThreadsFit ==
  \A c \in Callers :
    /\ pc[c] \in Saving => arg[c] \in Args /\ arg[c].value \in Values
    /\ pc[c] = "remove" => arg[c] \in Args /\ arg[c].value = Missing
    /\ pc[c] \in Getting => arg[c] \in Args
    /\ fd[c] # "none" => pc[c] = "dump"

\* A save that is alone is the only one of its name, and has the .tmp for itself.
AloneUndisturbed ==
  \A c \in alone :
    /\ pc[c] \in Saving
    /\ \A d \in Callers : pc[d] \in Saving /\ Name(d) = Name(c) => d = c
    /\ pc[c] = "dump" => fd[c] = "tmp" /\ tmp[Name(c)] = Empty
    /\ pc[c] = "replace" => tmp[Name(c)] = Whole(arg[c].value)

Explained(c) ==
  LET held == seen[c][Name(c)] IN
  IF answer[c][Name(c)] = Died
  THEN Corrupt \in held \/ (Missing \in held /\ held \cap Values # {})
  ELSE \E k \in held \ {Corrupt} : answer[c][Name(c)] = Shown(Name(c), k)

\* What a reader has seen so far accounts for where it is and for what it answers.
ReadFit(c) ==
  /\ \A n \in ReadNames(c) : Kept(n) \in seen[c][n]
  /\ pc[c] = "load" => \E k \in seen[c][Name(c)] : k # Missing
  /\ pc[c] = "got" => Explained(c)
  /\ pc[c] \in {"loads", "listed"} =>
       \A n \in Names :
         \/ n \in todo[c] /\ answer[c][n] = Shown(n, Missing)
         \/ \E k \in seen[c][n] : answer[c][n] = Shown(n, k)
  /\ pc[c] = "listed" => todo[c] = {}

ReadsFit == \A c \in Callers : ReadFit(c)

WriteInv == StateOK /\ ThreadsFit /\ AloneUndisturbed
Inv == WriteInv /\ SeenOK /\ ReadsFit

----------------------------------------------------------------------------

LEMMA Phases ==
  /\ "idle" \notin Saving \cup Reading /\ "remove" \notin Saving \cup Reading
  /\ Saving \cap Reading = {} /\ Getting \cap Listing = {}
  /\ {"open", "dump", "replace"} \subseteq Saving
  /\ {"isfile", "load", "got"} \subseteq Getting
  /\ {"listdir", "loads", "listed"} \subseteq Listing
  /\ Reading = Getting \cup Listing
BY DEF Saving, Reading, Getting, Listing

LEMMA Files ==
  /\ Absent \in File /\ Empty \in File /\ Torn \in File
  /\ \A v \in Values : Whole(v) \in File /\ Whole(v).value = v /\ Whole(v).form = "whole"
                       /\ Whole(v) # Empty
  /\ \A f \in File : /\ f.form = "whole" => f.value \in Values /\ f # Absent
                     /\ f.form # "whole" => f.value = Missing
                     /\ f.value \in Contents
  /\ Absent.value = Missing /\ Absent.form # "whole"
  /\ Missing \in Contents /\ Values \subseteq Contents
<1>1. \A v \in Values : Whole(v) \in File /\ Whole(v).value = v /\ Whole(v).form = "whole"
                          /\ Whole(v) # Empty /\ Whole(v) # Absent
  BY DEF Whole, File, Empty, Absent
<1>2. /\ Absent.value = Missing /\ Absent.form # "whole"
      /\ Empty.value = Missing /\ Empty.form # "whole"
      /\ Torn.value = Missing /\ Torn.form # "whole"
  BY DEF Absent, Empty, Torn
<1>3. Missing \in Contents /\ Values \subseteq Contents
  BY DEF Contents
<1>4. Absent \in File /\ Empty \in File /\ Torn \in File
  BY DEF File
<1>5. ASSUME NEW f \in File
      PROVE  f \in {Absent, Empty, Torn} \/ \E v \in Values : f = Whole(v)
  BY DEF File
<1> QED BY <1>1, <1>2, <1>3, <1>4, <1>5

LEMMA Arguments ==
  /\ NoArg.pid = "none" /\ "none" \notin Names
  /\ \A n \in Names, v \in Contents :
       [pid |-> n, value |-> v] \in Args /\ [pid |-> n, value |-> v] # NoArg
  /\ \A a \in Args : a.pid \in Names /\ a.value \in Contents /\ a # NoArg
BY NamesAssumption DEF NoArg, Args

LEMMA KeptFits ==
  ASSUME StateOK, NEW n \in Names
  PROVE  /\ Kept(n) \in Contents \cup {Corrupt}
         /\ custom[n].form = "whole" => Kept(n) = custom[n].value /\ Kept(n) \in Values
         /\ custom[n] = Absent <=> Kept(n) = Missing
         /\ custom[n].form # "whole" /\ custom[n] # Absent => Kept(n) = Corrupt
<1>1. custom[n] \in File
  BY DEF StateOK
<1> QED BY <1>1, Files, ValuesAssumption DEF Kept

LEMMA ShownFits ==
  /\ \A v \in Values, n \in Names : Shown(n, v) = v
  /\ \A n \in Names : Shown(n, Missing) \in Contents \cup {Shipped}
  /\ \A n \in Names : Shown(n, Corrupt) = Shown(n, Missing) /\ Shown(n, Missing) # Died
BY ValuesAssumption DEF Shown, Contents

LEMMA TypeSplit == TypeOK <=> StateOK /\ SeenOK
BY DEF TypeOK, StateOK, SeenOK

LEMMA InvInit == Init => Inv
<1> SUFFICES ASSUME Init PROVE Inv
  OBVIOUS
<1>1. StateOK /\ SeenOK
  BY Files, Phases DEF Init, Unread, StateOK, SeenOK
<1>2. ThreadsFit /\ AloneUndisturbed
  BY Phases DEF Init, ThreadsFit, AloneUndisturbed
<1>3. ReadsFit
  BY Phases DEF Init, ReadsFit, ReadFit, ReadNames
<1> QED BY <1>1, <1>2, <1>3 DEF Inv, WriteInv

----------------------------------------------------------------------------
(* The files and the saves                                                 *)

LEMMA WriteStep ==
  ASSUME WriteInv, NEW c \in Callers, CallerStep(c)
  PROVE  WriteInv'
<1> USE DEF WriteInv
<1>1. CASE CallSave(c)
  <2>1. PICK n \in Names, v \in Values :
          /\ arg' = [arg EXCEPT ![c] = [pid |-> n, value |-> v]]
          /\ alone' = IF Overlapped(n) = {} THEN alone \cup {c} ELSE alone \ Overlapped(n)
    BY <1>1 DEF CallSave
  <2>2. pc[c] = "idle" /\ pc' = [pc EXCEPT ![c] = "open"]
        /\ UNCHANGED <<custom, tmp, fd, todo, answer>>
    BY <1>1 DEF CallSave, Goes, fileVars, readVars
  <2>3. arg'[c] = [pid |-> n, value |-> v] /\ arg'[c] \in Args /\ v \in Contents
    BY <2>1, Arguments, Files DEF StateOK
  <2>4. StateOK'
    BY <2>1, <2>2, <2>3, Phases DEF StateOK
  <2>5. ThreadsFit'
    BY <2>1, <2>2, <2>3, Phases DEF StateOK, ThreadsFit
  <2>6. AloneUndisturbed'
    BY <2>1, <2>2, <2>3, Phases DEF StateOK, AloneUndisturbed, Overlapped, Name
  <2> QED BY <2>4, <2>5, <2>6
<1>2. ASSUME SaveFails(c), UNCHANGED <<fileVars, readVars>>, fd' = [fd EXCEPT ![c] = "none"]
      PROVE  WriteInv'
  <2>1. /\ pc' = [pc EXCEPT ![c] = "idle"] /\ arg' = [arg EXCEPT ![c] = NoArg]
        /\ alone' = alone \ {c}
        /\ UNCHANGED <<custom, tmp, todo, answer>>
    BY <1>2 DEF SaveFails, Ends, fileVars, readVars
  <2>2. StateOK' /\ ThreadsFit'
    BY <1>2, <2>1, Phases DEF StateOK, ThreadsFit
  <2>3. AloneUndisturbed'
    BY <1>2, <2>1, Phases DEF StateOK, AloneUndisturbed, Name
  <2> QED BY <2>2, <2>3
<1>3. CASE OpenFails(c) \/ ReplaceFails(c)
  <2>1. fd' = fd /\ pc[c] # "dump" /\ SaveFails(c) /\ UNCHANGED <<fileVars, readVars>>
    BY <1>3 DEF OpenFails, ReplaceFails
  <2>2. fd' = [fd EXCEPT ![c] = "none"]
    BY <2>1 DEF ThreadsFit, StateOK
  <2> QED BY <1>2, <2>1, <2>2
<1>4. CASE Open(c)
  <2>1. /\ pc[c] = "open" /\ pc' = [pc EXCEPT ![c] = "dump"]
        /\ tmp' = [tmp EXCEPT ![Name(c)] = Empty] /\ fd' = [fd EXCEPT ![c] = "tmp"]
        /\ UNCHANGED <<custom, arg, todo, answer, alone>>
    BY <1>4 DEF Open, Goes, readVars
  <2>2. Name(c) \in Names
    BY <2>1, Phases, Arguments DEF ThreadsFit, Name
  <2>3. StateOK' /\ ThreadsFit'
    BY <2>1, Files, Phases DEF StateOK, ThreadsFit
  <2>4. AloneUndisturbed'
    BY <2>1, <2>2, Phases DEF StateOK, AloneUndisturbed, Name
  <2> QED BY <2>3, <2>4
<1>5. ASSUME NEW v \in File, Writes(c, v), pc[c] = "dump",
             fd' = [fd EXCEPT ![c] = "none"], UNCHANGED readVars,
             \/ /\ pc' = [pc EXCEPT ![c] = "replace"] /\ UNCHANGED <<arg, alone>>
                /\ c \in alone => v = Whole(arg[c].value)
             \/ SaveFails(c)
      PROVE  WriteInv'
  <2>1. Name(c) \in Names
    BY <1>5, Phases, Arguments DEF ThreadsFit, Name
  <2>2. custom' \in [Names -> File] /\ tmp' \in [Names -> File]
    BY <1>5 DEF Writes, StateOK
  <2>3. \A n \in Names : n # Name(c) => tmp'[n] = tmp[n]
    BY <1>5, <2>1 DEF Writes, StateOK
  <2>4. c \in alone => tmp'[Name(c)] = v
    BY <1>5, <2>1 DEF Writes, StateOK, AloneUndisturbed
  <2>5. /\ pc' \in [Callers -> {"idle", "remove"} \cup Saving \cup Reading]
        /\ arg' \in [Callers -> Args \cup {NoArg}] /\ alone' \in SUBSET Callers
        /\ \A x \in Callers : x # c => pc'[x] = pc[x] /\ arg'[x] = arg[x] /\ fd'[x] = fd[x]
        /\ alone' \subseteq alone
        /\ \/ /\ pc'[c] = "replace" /\ arg'[c] = arg[c]
              /\ c \in alone => v = Whole(arg[c].value)
           \/ pc'[c] = "idle" /\ c \notin alone'
        /\ fd'[c] = "none"
    <3>1. CASE SaveFails(c)
      BY <1>5, <3>1, Phases DEF SaveFails, Ends, StateOK
    <3>2. CASE /\ pc' = [pc EXCEPT ![c] = "replace"] /\ UNCHANGED <<arg, alone>>
               /\ c \in alone => v = Whole(arg[c].value)
      <4>1. arg' = arg /\ alone' = alone
        BY <3>2
      <4>2. "replace" \in {"idle", "remove"} \cup Saving \cup Reading
        BY Phases
      <4> QED BY <1>5, <3>2, <4>1, <4>2 DEF StateOK
    <3> QED BY <1>5, <3>1, <3>2
  <2>6. StateOK'
    BY <1>5, <2>2, <2>5 DEF StateOK, readVars
  <2>7. ThreadsFit'
    BY <1>5, <2>5, Phases DEF ThreadsFit
  <2>8. AloneUndisturbed'
    <3> SUFFICES ASSUME NEW x \in alone'
                 PROVE  /\ pc'[x] \in Saving
                        /\ \A d \in Callers : pc'[d] \in Saving /\ Name(d)' = Name(x)' => d = x
                        /\ pc'[x] = "dump" => fd'[x] = "tmp" /\ tmp'[Name(x)'] = Empty
                        /\ pc'[x] = "replace" => tmp'[Name(x)'] = Whole(arg'[x].value)
      BY DEF AloneUndisturbed
    <3>1. x \in alone /\ x \in Callers
      BY <2>5 DEF StateOK
    <3>2. \A d \in Callers : pc'[d] \in Saving => pc[d] \in Saving /\ Name(d)' = Name(d)
      BY <1>5, <2>5, Phases DEF Name
    <3>3. pc'[x] \in Saving /\ pc[x] \in Saving /\ Name(x)' = Name(x)
      BY <2>5, <3>1, <3>2, Phases DEF AloneUndisturbed
    <3>4. \A d \in Callers : pc'[d] \in Saving /\ Name(d)' = Name(x)' => d = x
      BY <3>1, <3>2, <3>3 DEF AloneUndisturbed
    <3>5. CASE x = c
      BY <1>5, <2>4, <2>5, <3>1, <3>3, <3>4, <3>5
    <3>6. CASE x # c
      <4>1. Name(x) # Name(c) /\ Name(x) \in Names
        BY <1>5, <3>1, <3>3, <3>6, Phases, Arguments DEF AloneUndisturbed, ThreadsFit, Name
      <4> QED BY <2>3, <2>5, <3>1, <3>3, <3>4, <3>6, <4>1 DEF AloneUndisturbed
    <3> QED BY <3>5, <3>6
  <2> QED BY <2>6, <2>7, <2>8
<1>6. Written(c) \in File \/ pc[c] # "dump"
  BY Phases, Arguments DEF ThreadsFit, Name, Written, StateOK
<1>7. CASE Dump(c)
  <2>1. pc[c] = "dump" /\ pc' = [pc EXCEPT ![c] = "replace"] /\ UNCHANGED <<arg, alone, readVars>>
        /\ fd' = [fd EXCEPT ![c] = "none"]
    BY <1>7 DEF Dump, Goes
  <2>2. PICK v \in Flushed(Written(c), arg[c].value) : Writes(c, v)
    BY <1>7 DEF Dump
  <2>3. v \in File
    BY <2>1, Files, Phases DEF Flushed, ThreadsFit
  <2>4. c \in alone => v = Whole(arg[c].value)
    BY <2>1 DEF AloneUndisturbed, Written, Flushed
  <2> QED BY <1>5, <2>1, <2>2, <2>3, <2>4
<1>8. CASE DumpFails(c)
  <2>1. PICK v \in {Torn, Written(c)} : Writes(c, v)
    BY <1>8 DEF DumpFails
  <2> QED BY <1>5, <1>6, <1>8, <2>1, Files DEF DumpFails
<1>9. CASE Replace(c)
  <2> DEFINE n == Name(c)
  <2>1. /\ pc[c] = "replace" /\ pc' = [pc EXCEPT ![c] = "isfile"]
        /\ custom' = [custom EXCEPT ![n] = tmp[n]] /\ tmp' = [tmp EXCEPT ![n] = Absent]
        /\ fd' = Moved(n) /\ alone' = alone \ {c}
        /\ UNCHANGED <<arg, todo, answer>>
    BY <1>9 DEF Replace, Goes, readVars
  <2>2. n \in Names /\ arg[c] \in Args
    BY <2>1, Phases, Arguments DEF ThreadsFit, Name
  <2>3. fd' \in [Callers -> {"none", "tmp", "custom", "gone"}]
        /\ \A x \in Callers : fd'[x] # "none" => fd[x] # "none"
    BY <2>1 DEF Moved, StateOK
  <2>4. StateOK'
    BY <2>1, <2>2, <2>3, Files, Phases DEF StateOK
  <2>5. ThreadsFit'
    <3>1. \A x \in Callers : x # c => pc'[x] = pc[x]
      BY <2>1 DEF StateOK
    <3>2. pc'[c] = "isfile" /\ fd[c] = "none"
      BY <2>1 DEF StateOK, ThreadsFit
    <3> QED BY <2>1, <2>2, <2>3, <3>1, <3>2, Phases DEF ThreadsFit
  <2>6. AloneUndisturbed'
    <3> SUFFICES ASSUME NEW x \in alone, x # c
                 PROVE  /\ pc'[x] \in Saving
                        /\ \A d \in Callers : pc'[d] \in Saving /\ Name(d)' = Name(x)' => d = x
                        /\ pc'[x] = "dump" => fd'[x] = "tmp" /\ tmp'[Name(x)'] = Empty
                        /\ pc'[x] = "replace" => tmp'[Name(x)'] = Whole(arg'[x].value)
      BY <2>1 DEF AloneUndisturbed
    <3>1. x \in Callers /\ pc'[x] = pc[x] /\ pc[x] \in Saving /\ Name(x)' = Name(x)
      BY <2>1 DEF StateOK, AloneUndisturbed, Name
    <3>2. Name(x) # n /\ Name(x) \in Names
      BY <2>1, <3>1, Phases, Arguments DEF AloneUndisturbed, ThreadsFit, Name
    <3>3. fd'[x] = fd[x] /\ tmp'[Name(x)] = tmp[Name(x)]
      BY <2>1, <2>2, <3>1, <3>2 DEF Moved, StateOK
    <3>4. \A d \in Callers : pc'[d] \in Saving => pc[d] \in Saving /\ Name(d)' = Name(d)
      BY <2>1, Phases DEF StateOK, Name
    <3> QED BY <2>1, <3>1, <3>3, <3>4 DEF AloneUndisturbed
  <2> QED BY <2>4, <2>5, <2>6
<1>10. CASE CallDelete(c) \/ CallGet(c)
  <2>1. PICK n \in Names : arg' = [arg EXCEPT ![c] = [pid |-> n, value |-> Missing]]
    BY <1>10 DEF CallDelete, CallGet
  <2>2. /\ pc[c] = "idle"
        /\ pc' = [pc EXCEPT ![c] = "remove"] \/ pc' = [pc EXCEPT ![c] = "isfile"]
        /\ UNCHANGED <<custom, tmp, fd, todo, answer, alone>>
    BY <1>10 DEF CallDelete, CallGet, Goes, fileVars, readVars
  <2>3. arg'[c] \in Args /\ arg'[c].value = Missing
    BY <2>1, Arguments, Files DEF StateOK
  <2>4. StateOK'
    BY <2>1, <2>2, <2>3, Phases DEF StateOK
  <2>5. ThreadsFit'
    BY <2>1, <2>2, <2>3, Phases DEF StateOK, ThreadsFit
  <2>6. AloneUndisturbed'
    BY <2>1, <2>2, Phases DEF StateOK, AloneUndisturbed, Name
  <2> QED BY <2>4, <2>5, <2>6
<1>11. CASE Remove(c) \/ RemoveFails(c)
  <2>1. /\ pc[c] = "remove" /\ pc' = [pc EXCEPT ![c] = "idle"]
        /\ arg' = [arg EXCEPT ![c] = NoArg]
        /\ UNCHANGED <<tmp, todo, answer, alone>>
    BY <1>11 DEF Remove, RemoveFails, Ends, fileVars, readVars
  <2>2. custom' \in [Names -> File]
    BY <1>11, Files DEF Remove, RemoveFails, fileVars, StateOK
  <2>3. /\ fd' \in [Callers -> {"none", "tmp", "custom", "gone"}]
        /\ \A x \in Callers : /\ fd'[x] # "none" => fd[x] # "none"
                              /\ fd[x] = "tmp" => fd'[x] = "tmp"
    BY <1>11 DEF Remove, RemoveFails, StateOK
  <2>4. StateOK'
    BY <2>1, <2>2, <2>3, Phases DEF StateOK
  <2>5. ThreadsFit'
    BY <2>1, <2>3, Phases DEF StateOK, ThreadsFit
  <2>6. AloneUndisturbed'
    BY <2>1, <2>3, Phases DEF StateOK, AloneUndisturbed, Name
  <2> QED BY <2>4, <2>5, <2>6
<1>12. ASSUME NEW p \in Reading, pc[c] \in Reading \cup {"idle"}, pc' = [pc EXCEPT ![c] = p],
              UNCHANGED <<fileVars, arg, fd, alone>>,
              p \in Getting => pc[c] \in Getting,
              todo' \in [Callers -> SUBSET Names],
              answer' \in [Callers -> [Names -> Contents \cup {Shipped, Died, NoAnswer}]]
       PROVE  WriteInv'
  <2>1. UNCHANGED <<custom, tmp, arg, fd, alone>>
    BY <1>12 DEF fileVars
  <2>2. StateOK'
    BY <1>12, <2>1 DEF StateOK
  <2>3. ThreadsFit'
    BY <1>12, <2>1, Phases DEF StateOK, ThreadsFit
  <2>4. AloneUndisturbed'
    BY <1>12, <2>1, Phases DEF StateOK, AloneUndisturbed, Name
  <2> QED BY <2>2, <2>3, <2>4
<1>13. CASE IsFile(c) \/ CallList(c) \/ ListDone(c)
  BY <1>12, <1>13, Phases DEF IsFile, CallList, ListDone, Goes, readVars, StateOK
<1>14. CASE IsNoFile(c) \/ Load(c)
  <2>1. Name(c) \in Names
    BY <1>14, Phases, Arguments DEF IsNoFile, Load, ThreadsFit, Name
  <2>2. PICK a \in Contents \cup {Shipped, Died} : Answers(c, a)
    <3>1. custom[Name(c)] \in File
      BY <2>1 DEF StateOK
    <3> QED BY <1>14, <2>1, <3>1, ShownFits, Files DEF IsNoFile, Load
  <2>3. pc[c] \in Getting /\ UNCHANGED <<fileVars, arg, fd, todo, alone>>
    BY <1>14, Phases DEF IsNoFile, Load
  <2>4. pc' = [pc EXCEPT ![c] = "got"] /\ answer' = [answer EXCEPT ![c][Name(c)] = a]
    BY <2>2 DEF Answers
  <2>5. answer' \in [Callers -> [Names -> Contents \cup {Shipped, Died, NoAnswer}]]
    BY <2>1, <2>2, <2>4 DEF StateOK
  <2> QED BY <1>12, <2>3, <2>4, <2>5, Phases DEF StateOK
<1>15. CASE ListDir(c)
  BY <1>12, <1>15, Phases, ShownFits DEF ListDir, Goes, StateOK
<1>16. CASE ListLoad(c)
  <2>1. PICK n \in todo[c] :
          /\ todo' = [todo EXCEPT ![c] = @ \ {n}]
          /\ answer' = IF custom[n].form = "whole"
                       THEN [answer EXCEPT ![c][n] = custom[n].value] ELSE answer
    BY <1>16 DEF ListLoad
  <2>2. n \in Names /\ custom[n].value \in Contents
    BY Files DEF StateOK
  <2>3. pc[c] = "loads" /\ pc' = [pc EXCEPT ![c] = "loads"] /\ UNCHANGED <<fileVars, arg, fd, alone>>
    BY <1>16 DEF ListLoad, threadVars, StateOK
  <2> QED BY <1>12, <2>1, <2>2, <2>3, Phases DEF StateOK
<1>17. CASE Answered(c)
  <2>1. /\ pc[c] \in {"got", "listed"} /\ pc' = [pc EXCEPT ![c] = "idle"]
        /\ arg' = [arg EXCEPT ![c] = NoArg] /\ answer' = [answer EXCEPT ![c] = Unread]
        /\ UNCHANGED <<custom, tmp, fd, todo, alone>>
    BY <1>17 DEF Answered, Ends, fileVars
  <2>2. StateOK'
    BY <2>1, Phases DEF StateOK, Unread
  <2>3. ThreadsFit'
    BY <2>1, Phases DEF StateOK, ThreadsFit
  <2>4. AloneUndisturbed'
    BY <2>1, Phases DEF StateOK, AloneUndisturbed, Name
  <2> QED BY <2>2, <2>3, <2>4
<1> QED BY <1>1, <1>3, <1>4, <1>7, <1>8, <1>9, <1>10, <1>11, <1>13, <1>14, <1>15, <1>16, <1>17
  DEF CallerStep, SaveStep, ReadStep
----------------------------------------------------------------

LEMMA WriteRestart ==
  ASSUME WriteInv, Restart
  PROVE  WriteInv'
<1> USE DEF WriteInv
<1>1. StateOK'
  BY Phases DEF Restart, fileVars, StateOK, Unread
<1>2. ThreadsFit' /\ AloneUndisturbed'
  BY Phases DEF Restart, ThreadsFit, AloneUndisturbed
<1> QED BY <1>1, <1>2

----------------------------------------------------------------------------
(* The readers                                                             *)

LEMMA SeenTyped ==
  ASSUME Observe, SeenOK, StateOK'
  PROVE  SeenOK'
<1>1. \A n \in Names : Kept(n)' \in Contents \cup {Corrupt}
  <2> SUFFICES ASSUME NEW n \in Names PROVE Kept(n)' \in Contents \cup {Corrupt}
    OBVIOUS
  <2>1. custom'[n] \in File
    BY DEF StateOK
  <2> QED BY <2>1, Files DEF Kept
<1> QED BY <1>1 DEF Observe, SeenOK

\* Who goes on reading a name has seen what he had, and what its file holds now.
LEMMA SeenGrows ==
  ASSUME Observe, NEW c \in Callers, NEW n \in Names, n \in ReadNames(c)'
  PROVE  seen'[c][n] = seen[c][n] \cup {Kept(n)'}
BY DEF Observe

LEMMA ReadNamesFit ==
  ASSUME ThreadsFit, NEW c \in Callers
  PROVE  /\ ReadNames(c) \subseteq Names
         /\ pc[c] \in Getting => Name(c) \in Names /\ ReadNames(c) = {Name(c)}
         /\ pc[c] \in Listing => ReadNames(c) = Names
BY Phases, Arguments DEF ThreadsFit, ReadNames, Name

LEMMA ReadNamesFitNext ==
  ASSUME ThreadsFit', NEW c \in Callers
  PROVE  /\ ReadNames(c)' \subseteq Names
         /\ pc'[c] \in Listing => ReadNames(c)' = Names
BY Phases, Arguments DEF ThreadsFit, ReadNames, Name

\* A thread that takes no step keeps its account.
LEMMA OthersKeep ==
  ASSUME Inv, WriteInv', Observe, NEW x \in Callers,
         pc'[x] = pc[x], arg'[x] = arg[x], todo'[x] = todo[x], answer'[x] = answer[x]
  PROVE  ReadFit(x)'
<1>1. ReadFit(x) /\ ThreadsFit /\ ThreadsFit'
  BY DEF Inv, WriteInv, ReadsFit
<1>2. Name(x)' = Name(x) /\ ReadNames(x)' = ReadNames(x)
  BY DEF Name, ReadNames
<1>3. \A n \in ReadNames(x) : seen'[x][n] = seen[x][n] \cup {Kept(n)'}
  BY <1>1, <1>2, SeenGrows, ReadNamesFit
<1>4. pc[x] = "got" => Explained(x)'
  <2> SUFFICES ASSUME pc[x] = "got" PROVE Explained(x)'
    OBVIOUS
  <2>1. seen[x][Name(x)] \subseteq seen'[x][Name(x)]
    BY <1>1, <1>3, ReadNamesFit, Phases
  <2>2. Explained(x)
    BY <1>1 DEF ReadFit
  <2>3. answer'[x][Name(x)] = answer[x][Name(x)]
    OBVIOUS
  <2>4. CASE answer[x][Name(x)] = Died
    BY <1>2, <2>1, <2>2, <2>3, <2>4 DEF Explained
  <2>5. CASE answer[x][Name(x)] # Died
    <3>1. PICK k \in seen[x][Name(x)] \ {Corrupt} : answer[x][Name(x)] = Shown(Name(x), k)
      BY <2>2, <2>5 DEF Explained
    <3>2. k \in seen'[x][Name(x)] \ {Corrupt} /\ answer'[x][Name(x)] = Shown(Name(x), k)
      BY <2>1, <3>1
    <3>3. Shown(Name(x), k)' = Shown(Name(x)', k)
      BY DEF Shown
    <3> QED BY <1>2, <2>3, <2>5, <3>2, <3>3 DEF Explained, Shown
  <2> QED BY <2>4, <2>5
<1>5. pc[x] = "load" => \E k \in seen'[x][Name(x)'] : k # Missing
  BY <1>1, <1>2, <1>3, ReadNamesFit, Phases DEF ReadFit
<1>6. pc[x] \in {"loads", "listed"} =>
        \A n \in Names : \/ n \in todo'[x] /\ answer'[x][n] = Shown(n, Missing)
                         \/ \E k \in seen'[x][n] : answer'[x][n] = Shown(n, k)
  BY <1>1, <1>3, ReadNamesFit, Phases DEF ReadFit
<1>7. \A n \in ReadNames(x)' : Kept(n)' \in seen'[x][n]
  BY <1>2, <1>3
<1> QED BY <1>1, <1>4, <1>5, <1>6, <1>7 DEF ReadFit, Shown

\* The steps of a reader.
LEMMA ReaderKeeps ==
  ASSUME Inv, WriteInv', NEW c \in Callers, CallerStep(c), Observe
  PROVE  ReadFit(c)'
<1> USE DEF Inv, WriteInv
<1>1. \A n \in ReadNames(c)' : Kept(n)' \in seen'[c][n]
  BY SeenGrows, ReadNamesFitNext
<1>2. ASSUME pc'[c] \notin {"load", "got", "loads", "listed"} PROVE ReadFit(c)'
  BY <1>1, <1>2 DEF ReadFit
<1>3. CASE CallSave(c) \/ SaveStep(c) \/ CallDelete(c) \/ Remove(c) \/ RemoveFails(c)
           \/ CallGet(c) \/ CallList(c) \/ Answered(c)
  <2>1. pc'[c] \notin {"load", "got", "loads", "listed"}
    BY <1>3 DEF CallSave, SaveStep, Open, OpenFails, Dump, DumpFails, Replace, ReplaceFails,
       SaveFails, CallDelete, Remove, RemoveFails, CallGet, CallList, Answered, Goes, Ends, StateOK
  <2> QED BY <1>2, <2>1
<1>4. ASSUME pc[c] \in {"isfile", "load"}, pc'[c] \in {"load", "got"}, arg' = arg,
             UNCHANGED fileVars
      PROVE  /\ Name(c)' = Name(c) /\ Name(c) \in Names
             /\ seen[c][Name(c)] \subseteq seen'[c][Name(c)]
             /\ Kept(Name(c)) \in seen[c][Name(c)]
  <2>1. Name(c)' = Name(c) /\ Name(c) \in Names /\ Name(c) \in ReadNames(c)
        /\ Name(c) \in ReadNames(c)'
    BY <1>4, ReadNamesFit, Phases DEF Name, ReadNames
  <2> QED BY <2>1, SeenGrows DEF ReadsFit, ReadFit
<1>5. CASE IsFile(c)
  <2>1. pc[c] = "isfile" /\ pc'[c] = "load" /\ UNCHANGED <<fileVars, arg>>
        /\ custom[Name(c)] # Absent
    BY <1>5 DEF IsFile, Goes, StateOK
  <2>2. Kept(Name(c)) # Missing
    BY <1>4, <2>1, KeptFits
  <2> QED BY <1>1, <1>4, <2>1, <2>2 DEF ReadFit
<1>6. CASE IsNoFile(c)
  <2>1. /\ pc[c] = "isfile" /\ pc'[c] = "got" /\ UNCHANGED <<fileVars, arg>>
        /\ custom[Name(c)] = Absent
        /\ answer' = [answer EXCEPT ![c][Name(c)] = Shown(Name(c), Missing)]
    BY <1>6 DEF IsNoFile, Answers, StateOK
  <2>2. Missing \in seen'[c][Name(c)] \ {Corrupt}
    BY <1>4, <2>1, KeptFits, ValuesAssumption
  <2>3. answer'[c][Name(c)] = Shown(Name(c), Missing) /\ answer'[c][Name(c)] # Died
    BY <1>4, <2>1, ShownFits DEF StateOK
  <2>4. Explained(c)'
    BY <1>4, <2>1, <2>2, <2>3 DEF Explained, Shown
  <2> QED BY <1>1, <2>1, <2>4 DEF ReadFit
<1>7. CASE Load(c)
  <2> DEFINE a == IF custom[Name(c)].form = "whole" THEN custom[Name(c)].value ELSE Died
  <2>1. /\ pc[c] = "load" /\ pc'[c] = "got" /\ UNCHANGED <<fileVars, arg>>
        /\ answer' = [answer EXCEPT ![c][Name(c)] = a]
    BY <1>7 DEF Load, Answers, StateOK
  <2>2. answer'[c][Name(c)] = a
    BY <1>4, <2>1 DEF StateOK
  <2>3. Kept(Name(c)) \in seen'[c][Name(c)]
    BY <1>4, <2>1
  <2>4. CASE custom[Name(c)].form = "whole"
    <3>1. Kept(Name(c)) = a /\ a \in Values
      BY <1>4, <2>1, <2>4, KeptFits
    <3>2. a # Died /\ a # Corrupt /\ Shown(Name(c), a) = a
      BY <1>4, <2>1, <3>1, ShownFits, ValuesAssumption
    <3>3. Explained(c)'
      BY <1>4, <2>1, <2>2, <2>3, <3>1, <3>2 DEF Explained, Shown
    <3> QED BY <1>1, <2>1, <3>3 DEF ReadFit
  <2>5. CASE custom[Name(c)].form # "whole"
    <3>1. PICK k \in seen[c][Name(c)] : k # Missing
      BY <2>1 DEF ReadsFit, ReadFit
    <3>2. k \in Values \cup {Corrupt} /\ k \in seen'[c][Name(c)]
      BY <1>4, <2>1, <3>1 DEF SeenOK, Contents
    <3>3. Kept(Name(c)) \in {Missing, Corrupt}
      BY <1>4, <2>1, <2>5, KeptFits
    <3>4. LET held == seen'[c][Name(c)]
          IN  Corrupt \in held \/ (Missing \in held /\ held \cap Values # {})
      BY <2>3, <3>2, <3>3
    <3>5. Explained(c)'
      BY <1>4, <2>1, <2>2, <2>5, <3>4 DEF Explained
    <3> QED BY <1>1, <2>1, <3>5 DEF ReadFit
  <2> QED BY <2>4, <2>5
<1>8. ASSUME pc[c] \in Listing, pc'[c] \in Listing, UNCHANGED fileVars, NEW n \in Names
      PROVE  seen[c][n] \subseteq seen'[c][n] /\ Kept(n) \in seen[c][n]
  <2>1. n \in ReadNames(c) /\ n \in ReadNames(c)'
    BY <1>8, ReadNamesFit, ReadNamesFitNext
  <2> QED BY <2>1, SeenGrows DEF ReadsFit, ReadFit
<1>9. CASE ListDir(c)
  <2>1. /\ pc[c] = "listdir" /\ pc'[c] = "loads" /\ UNCHANGED fileVars
        /\ answer'[c] = [n \in Names |-> Shown(n, Missing)]
        /\ todo'[c] = {n \in Names : custom[n] # Absent}
    BY <1>9 DEF ListDir, Goes, StateOK
  <2>2. ASSUME NEW n \in Names, n \notin todo'[c]
        PROVE  Missing \in seen'[c][n]
    BY <1>8, <2>1, <2>2, KeptFits, Phases
  <2>3. \A n \in Names : \/ n \in todo'[c] /\ answer'[c][n] = Shown(n, Missing)
                         \/ \E k \in seen'[c][n] : answer'[c][n] = Shown(n, k)
    BY <2>1, <2>2
  <2> QED BY <1>1, <2>1, <2>3 DEF ReadFit, Shown
<1>10. CASE ListLoad(c)
  <2>1. PICK n \in todo[c] :
          /\ todo' = [todo EXCEPT ![c] = @ \ {n}]
          /\ answer' = IF custom[n].form = "whole"
                       THEN [answer EXCEPT ![c][n] = custom[n].value] ELSE answer
    BY <1>10 DEF ListLoad
  <2>2. pc[c] = "loads" /\ pc'[c] = "loads" /\ UNCHANGED fileVars /\ n \in Names
    BY <1>10, <2>1 DEF ListLoad, threadVars, StateOK
  <2>3. /\ todo'[c] = todo[c] \ {n}
        /\ \A x \in Names : x # n => answer'[c][x] = answer[c][x]
        /\ custom[n].form = "whole" => answer'[c][n] = custom[n].value
        /\ custom[n].form # "whole" => answer'[c][n] = answer[c][n]
    BY <2>1, <2>2 DEF StateOK
  <2>4. \A x \in Names : seen[c][x] \subseteq seen'[c][x] /\ Kept(x) \in seen'[c][x]
    BY <1>8, <2>2, Phases
  <2>5. \A x \in Names : \/ x \in todo[c] /\ answer[c][x] = Shown(x, Missing)
                         \/ \E k \in seen[c][x] : answer[c][x] = Shown(x, k)
    BY <2>2 DEF ReadsFit, ReadFit
  <2>6. \E k \in seen'[c][n] : answer'[c][n] = Shown(n, k)
    <3>1. CASE custom[n].form = "whole"
      BY <2>2, <2>3, <2>4, <3>1, KeptFits, ShownFits
    <3>2. CASE custom[n].form # "whole"
      <4>1. Shown(n, Kept(n)) = Shown(n, Missing) /\ Kept(n) \in seen'[c][n]
        BY <2>2, <2>4, <3>2, KeptFits, ShownFits
      <4> QED BY <2>2, <2>3, <2>4, <2>5, <3>2, <4>1
    <3> QED BY <3>1, <3>2
  <2>7. \A x \in Names : \/ x \in todo'[c] /\ answer'[c][x] = Shown(x, Missing)
                         \/ \E k \in seen'[c][x] : answer'[c][x] = Shown(x, k)
    <3> SUFFICES ASSUME NEW x \in Names, x # n
                 PROVE  \/ x \in todo'[c] /\ answer'[c][x] = Shown(x, Missing)
                        \/ \E k \in seen'[c][x] : answer'[c][x] = Shown(x, k)
      BY <2>6
    <3> QED BY <2>3, <2>4, <2>5
  <2> QED BY <1>1, <2>2, <2>7 DEF ReadFit, Shown
<1>11. CASE ListDone(c)
  <2>1. /\ pc[c] = "loads" /\ pc'[c] = "listed" /\ todo[c] = {}
        /\ UNCHANGED <<fileVars, todo, answer>>
    BY <1>11 DEF ListDone, Goes, readVars, StateOK
  <2>2. \A n \in Names : seen[c][n] \subseteq seen'[c][n]
    BY <1>8, <2>1, Phases
  <2>3. \A n \in Names : \E k \in seen'[c][n] : answer'[c][n] = Shown(n, k)
    BY <2>1, <2>2 DEF ReadsFit, ReadFit
  <2> QED BY <1>1, <2>1, <2>3 DEF ReadFit, Shown
<1> QED BY <1>3, <1>5, <1>6, <1>7, <1>9, <1>10, <1>11 DEF CallerStep, ReadStep
----------------------------------------------------------------

LEMMA OthersStay ==
  ASSUME StateOK, NEW c \in Callers, CallerStep(c), NEW x \in Callers, x # c
  PROVE  pc'[x] = pc[x] /\ arg'[x] = arg[x] /\ todo'[x] = todo[x] /\ answer'[x] = answer[x]
<1>1. CASE CallSave(c) \/ CallDelete(c) \/ CallGet(c) \/ CallList(c)
  BY <1>1 DEF CallSave, CallDelete, CallGet, CallList, Goes, readVars, StateOK
<1>2. CASE SaveStep(c) \/ Remove(c) \/ RemoveFails(c)
  BY <1>2 DEF SaveStep, Open, OpenFails, Dump, DumpFails, Replace, ReplaceFails, SaveFails,
     Remove, RemoveFails, Goes, Ends, readVars, StateOK
<1>3. CASE ReadStep(c)
  BY <1>3 DEF ReadStep, IsFile, IsNoFile, Load, ListDir, ListLoad, ListDone, Answered, Answers,
     Goes, Ends, readVars, threadVars, StateOK
<1> QED BY <1>1, <1>2, <1>3 DEF CallerStep

LEMMA InvStep == Inv /\ [Next]_vars => Inv'
<1> SUFFICES ASSUME Inv, [Next]_vars PROVE Inv'
  OBVIOUS
<1>1. ASSUME NEW c \in Callers, CallerStep(c), Observe PROVE Inv'
  <2>1. WriteInv'
    BY <1>1, WriteStep DEF Inv
  <2>2. SeenOK'
    BY <1>1, <2>1, SeenTyped DEF Inv, WriteInv
  <2>3. ASSUME NEW x \in Callers, x # c PROVE ReadFit(x)'
    BY <1>1, <2>1, <2>3, OthersStay, OthersKeep DEF Inv, WriteInv
  <2>4. ReadFit(c)'
    BY <1>1, <2>1, ReaderKeeps
  <2> QED BY <2>1, <2>2, <2>3, <2>4 DEF Inv, ReadsFit
<1>2. CASE Restart /\ Observe
  <2>1. WriteInv'
    BY <1>2, WriteRestart DEF Inv
  <2>2. SeenOK'
    BY <1>2, <2>1, SeenTyped DEF Inv, WriteInv
  <2>3. \A c \in Callers : pc'[c] = "idle" /\ ReadNames(c)' = {}
    BY <1>2, Phases DEF Restart, ReadNames
  <2>4. ReadsFit'
    BY <2>3 DEF ReadsFit, ReadFit
  <2> QED BY <2>1, <2>2, <2>4 DEF Inv
<1>3. CASE UNCHANGED vars
  BY <1>3 DEF vars, fileVars, threadVars, readVars, Inv, WriteInv, StateOK, ThreadsFit,
     AloneUndisturbed, SeenOK, ReadsFit, ReadFit, ReadNames, Kept, Explained, Shown, Name
<1> QED BY <1>1, <1>2, <1>3 DEF Next

----------------------------------------------------------------------------

\* Every reachable state of the preset store has its type.
THEOREM PresetsTypeCorrect == Spec => []TypeOK
<1>1. Inv => TypeOK
  BY TypeSplit DEF Inv, WriteInv
<1> QED BY <1>1, InvInit, InvStep, PTL DEF Spec

\* A list shows every preset as it was at some time during the call.
THEOREM ListsAreRegular == Spec => []ListsRegular
<1>1. Inv => ListsRegular
  BY DEF Inv, ReadsFit, ReadFit, ListsRegular
<1> QED BY <1>1, InvInit, InvStep, PTL DEF Spec

\* A get, also the one a save ends with, answers what the name had during the call, and
\* dies only of a file that was deleted in between or does not parse.
THEOREM GetsAreExplained == Spec => []GetsExplained
<1>1. Inv => GetsExplained
  BY DEF Inv, ReadsFit, ReadFit, Explained, GetsExplained
<1> QED BY <1>1, InvInit, InvStep, PTL DEF Spec

----------------------------------------------------------------------------
(* The implementation of AtomicStore                                       *)

View == [n \in Names |-> custom[n].value]
Request == [c \in Callers |-> IF pc[c] \in Saving \cup {"remove"} THEN arg[c] ELSE NoArg]

LEMMA AtomicView ==
  ASSUME StateOK
  PROVE  View \in [Names -> Contents] /\ DOMAIN View = Names
BY Files DEF StateOK, View

KeptPromise ==
  \/ Atomic!StoreNext
  \/ UNCHANGED Atomic!storeVars

\* A step that leaves the files and the requests.
LEMMA Stutters ==
  ASSUME View' = View, Request' = Request
  PROVE  KeptPromise
BY DEF KeptPromise, Atomic!storeVars, View, Request

\* A step of an overlapping save: what it does to the file of its name is no matter.
LEMMA OverlapDisturbs ==
  ASSUME StateOK, StateOK', ThreadsFit, NEW c \in Callers,
         pc[c] \in Saving, c \notin alone,
         \A n \in Names : n # Name(c) => custom'[n] = custom[n],
         Request' \in {Request, [Request EXCEPT ![c] = NoArg]}
  PROVE  KeptPromise
<1>1. Name(c) \in Contended
  BY Phases, Arguments DEF ThreadsFit, Name, Contended
<1>2. View' \in [Names -> Contents] /\ \A n \in Names : n # Name(c) => View'[n] = View[n]
  BY Files DEF View, StateOK
<1>3. Atomic!Disturbed(c)
  BY <1>1, <1>2 DEF Atomic!Disturbed, Atomic!Idle, View, Request, NoArg
<1> QED BY <1>3 DEF KeptPromise, Atomic!StoreNext

\* A request that ends and changed nothing.
LEMMA EndRefuses ==
  ASSUME StateOK, ThreadsFit, NEW c \in Callers, pc[c] \in Saving \cup {"remove"},
         View' = View, Request' = [Request EXCEPT ![c] = NoArg]
  PROVE  KeptPromise
<1>1. Request[c] # NoArg
  BY Phases, Arguments DEF ThreadsFit, Request
<1>2. Atomic!Refuse(c)
  BY <1>1 DEF Atomic!Refuse, Atomic!Idle, View, Request, NoArg
<1> QED BY <1>2 DEF KeptPromise, Atomic!StoreNext

\* A request that ends and changed its name.
LEMMA EndTakes ==
  ASSUME StateOK, ThreadsFit, NEW c \in Callers, pc[c] \in Saving \cup {"remove"},
         View' = [View EXCEPT ![Name(c)] = arg[c].value],
         Request' = [Request EXCEPT ![c] = NoArg]
  PROVE  KeptPromise
<1>1. Request[c] # NoArg /\ Request[c] = arg[c]
  BY Phases, Arguments DEF ThreadsFit, Request
<1>2. Atomic!Take(c)
  BY <1>1 DEF Atomic!Take, Atomic!Idle, View, Request, NoArg, Name
<1> QED BY <1>2 DEF KeptPromise, Atomic!StoreNext

LEMMA PromiseStep ==
  ASSUME Inv, Inv', NEW c \in Callers, CallerStep(c)
  PROVE  KeptPromise
<1> USE DEF Inv, WriteInv
<1>1. ASSUME NEW n \in Names, NEW v \in Contents, pc[c] = "idle",
             arg' = [arg EXCEPT ![c] = [pid |-> n, value |-> v]], UNCHANGED custom,
             pc' = [pc EXCEPT ![c] = "open"] \/ pc' = [pc EXCEPT ![c] = "remove"]
      PROVE  KeptPromise
  <2>1. Request[c] = NoArg
    BY <1>1, Phases DEF Request
  <2>3. [pid |-> n, value |-> v] \in Atomic!Requests
    BY DEF Atomic!Requests, Contents
  <2>2. Request' = [Request EXCEPT ![c] = [pid |-> n, value |-> v]]
    <3>1. pc'[c] \in Saving \cup {"remove"} /\ arg'[c] = [pid |-> n, value |-> v]
      BY <1>1, Phases DEF StateOK, Saving
    <3>2. \A x \in Callers : x # c => pc'[x] = pc[x] /\ arg'[x] = arg[x]
      BY <1>1 DEF StateOK
    <3> QED BY <3>1, <3>2 DEF Request
  <2>4. Atomic!Ask(c)
    BY <1>1, <2>1, <2>2, <2>3 DEF Atomic!Ask, Atomic!Idle, View, Request, NoArg
  <2> QED BY <2>4 DEF KeptPromise, Atomic!StoreNext
<1>2. CASE CallSave(c)
  BY <1>1, <1>2, Files DEF CallSave, Goes, fileVars
<1>3. CASE CallDelete(c)
  BY <1>1, <1>3, Files DEF CallDelete, Goes, fileVars
<1>4. ASSUME pc[c] \notin Saving \cup {"remove"}, pc'[c] \notin Saving \cup {"remove"},
             UNCHANGED custom
      PROVE  KeptPromise
  <2>1. \A x \in Callers : x # c => pc'[x] = pc[x] /\ arg'[x] = arg[x]
    BY OthersStay
  <2>2. Request' = Request
    BY <1>4, <2>1 DEF Request
  <2>3. View' = View
    BY <1>4 DEF View
  <2> QED BY <2>2, <2>3, Stutters
<1>5. CASE CallGet(c) \/ CallList(c) \/ ReadStep(c)
  <2>1. pc[c] \in Reading \cup {"idle"} /\ pc'[c] \in Reading \cup {"idle"} /\ UNCHANGED custom
    BY <1>5, Phases DEF CallGet, CallList, ReadStep, IsFile, IsNoFile, Load, ListDir, ListLoad,
       ListDone, Answered, Answers, Goes, Ends, fileVars, threadVars, StateOK
  <2> QED BY <1>4, <2>1, Phases
<1>6. ASSUME pc[c] \in Saving \cup {"remove"}, pc'[c] \notin Saving \cup {"remove"}
      PROVE  Request' = [Request EXCEPT ![c] = NoArg]
  <2>1. \A x \in Callers : x # c => pc'[x] = pc[x] /\ arg'[x] = arg[x]
    BY OthersStay
  <2> QED BY <1>6, <2>1 DEF Request
<1>7. ASSUME pc[c] \in Saving, pc'[c] \in Saving, arg' = arg
      PROVE  Request' = Request
  <2>1. \A x \in Callers : x # c => pc'[x] = pc[x]
    BY OthersStay
  <2> QED BY <1>7, <2>1 DEF Request
<1>8. CASE OpenFails(c) \/ ReplaceFails(c) \/ RemoveFails(c)
  <2>1. /\ pc[c] \in Saving \cup {"remove"} /\ pc'[c] = "idle" /\ UNCHANGED custom
    BY <1>8, Phases DEF OpenFails, ReplaceFails, RemoveFails, SaveFails, Ends, fileVars, StateOK
  <2> QED BY <1>6, <2>1, EndRefuses, Phases DEF View
<1>9. CASE Open(c)
  <2>1. pc[c] = "open" /\ pc'[c] = "dump" /\ arg' = arg /\ UNCHANGED custom
    BY <1>9 DEF Open, Goes, StateOK
  <2> QED BY <1>7, <2>1, Stutters, Phases DEF View
<1>10. CASE Dump(c) \/ DumpFails(c)
  <2>1. pc[c] = "dump" /\ pc[c] \in Saving /\ \E v : Writes(c, v)
    BY <1>10, Phases DEF Dump, DumpFails, Goes
  <2>2. Name(c) \in Names /\ \A n \in Names : n # Name(c) => custom'[n] = custom[n]
    BY <2>1, Phases, Arguments DEF Writes, StateOK, ThreadsFit, Name
  <2>3. CASE Dump(c)
    <3>1. Request' = Request
      BY <1>7, <2>1, <2>3, Phases DEF Dump, Goes, StateOK
    <3>2. c \in alone => UNCHANGED custom
      BY <2>1 DEF AloneUndisturbed, Writes
    <3> QED BY <2>1, <2>2, <3>1, <3>2, OverlapDisturbs, Stutters DEF View
  <2>4. CASE DumpFails(c)
    <3>1. pc'[c] = "idle"
      BY <2>4 DEF DumpFails, SaveFails, Ends, StateOK
    <3>2. Request' = [Request EXCEPT ![c] = NoArg]
      BY <1>6, <2>1, <3>1, Phases
    <3>3. c \in alone => UNCHANGED custom
      BY <2>1 DEF AloneUndisturbed, Writes
    <3> QED BY <2>1, <2>2, <3>2, <3>3, OverlapDisturbs, EndRefuses DEF View
  <2> QED BY <1>10, <2>3, <2>4
<1>11. CASE Replace(c)
  <2> DEFINE n == Name(c)
  <2>1. pc[c] = "replace" /\ pc'[c] = "isfile" /\ custom' = [custom EXCEPT ![n] = tmp[n]]
    BY <1>11 DEF Replace, Goes, StateOK
  <2>2. n \in Names /\ pc[c] \in Saving /\ arg[c].value \in Values
    BY <2>1, Phases, Arguments DEF ThreadsFit, Name
  <2>3. Request' = [Request EXCEPT ![c] = NoArg]
    BY <1>6, <2>1, <2>2, Phases
  <2>4. CASE c \in alone
    <3>1. tmp[n].value = arg[c].value
      BY <2>1, <2>2, <2>4, Files DEF AloneUndisturbed
    <3>2. View' = [View EXCEPT ![n] = arg[c].value]
      BY <2>1, <2>2, <3>1 DEF View, StateOK
    <3> QED BY <2>2, <2>3, <3>2, EndTakes
  <2>5. CASE c \notin alone
    BY <2>1, <2>2, <2>3, <2>5, OverlapDisturbs DEF StateOK
  <2> QED BY <2>4, <2>5
<1>12. CASE Remove(c)
  <2> DEFINE n == Name(c)
  <2>1. pc[c] = "remove" /\ pc'[c] = "idle" /\ custom' = [custom EXCEPT ![n] = Absent]
    BY <1>12 DEF Remove, Ends, StateOK
  <2>2. n \in Names /\ arg[c].value = Missing
    BY <2>1, Arguments DEF ThreadsFit, Name
  <2>3. Request' = [Request EXCEPT ![c] = NoArg]
    BY <1>6, <2>1, Phases
  <2>4. View' = [View EXCEPT ![n] = arg[c].value]
    BY <2>1, <2>2, Files DEF View, StateOK
  <2> QED BY <2>1, <2>3, <2>4, EndTakes
<1> QED BY <1>2, <1>3, <1>5, <1>8, <1>9, <1>10, <1>11, <1>12 DEF CallerStep, SaveStep

\* A save that no other save of its name overlaps, and every delete, is one atomic
\* change or none, whatever fails and whenever the process is killed.
THEOREM PresetsAreAtomic == Spec => AtomicImplemented
<1>1. Init => Inv /\ Atomic!StoreInit
  BY InvInit, Files, Phases DEF Init, Atomic!StoreInit, Atomic!Idle, NoArg
<1>2. Inv /\ [Next]_vars => Inv'
  BY InvStep
<1>3. Inv /\ Inv' /\ [Next]_vars => [Atomic!StoreNext]_(Atomic!storeVars)
  <2> SUFFICES ASSUME Inv, Inv', [Next]_vars PROVE KeptPromise
    BY DEF KeptPromise
  <2>1. CASE \E c \in Callers : CallerStep(c)
    BY <2>1, PromiseStep
  <2>2. CASE Restart
    <3>1. Atomic!Stop
      BY <2>2, Phases DEF Restart, fileVars, Atomic!Stop, Atomic!Idle, NoArg
    <3> QED BY <3>1 DEF KeptPromise, Atomic!StoreNext
  <2>3. CASE UNCHANGED vars
    BY <2>3, Stutters DEF vars, fileVars, threadVars, View, Request
  <2> QED BY <2>1, <2>2, <2>3 DEF Next
<1> QED BY <1>1, <1>2, <1>3, PTL DEF Spec, AtomicImplemented, Atomic!StoreSpec
=============================================================================
