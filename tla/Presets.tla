------------------------------- MODULE Presets -------------------------------
(***************************************************************************)
(* presets.py and its methods in providers/preset.py: one file for each    *)
(* custom preset, replaced by write-to-.tmp and rename, over the           *)
(* predefined presets of the image, which a custom one of the same name    *)
(* shadows.  Every call is a thread of ThreadingHTTPServer; there is no    *)
(* lock, and save, get and list look at the directory more than once.      *)
(*                                                                         *)
(* An open file is known by the name it has, as in ParameterStore.  A call *)
(* with a name or parameters that do not validate changes nothing and is   *)
(* not written here.  A disk that fails, fails the calls that write.       *)
(***************************************************************************)
EXTENDS Naturals

CONSTANTS
  Callers,      \* request threads
  Names,
  Predefined,   \* the names that the image has a preset of
  Values,       \* what custom presets hold
  Missing, Corrupt, Shipped,  \* no custom file; one that does not parse; the image's preset
  Died, NoAnswer,             \* the request ended in an exception; it has not read yet
  DiskFails     \* whether writing and removing files can raise OSError

ASSUME NamesAssumption == Predefined \subseteq Names /\ "none" \notin Names
ASSUME ValuesAssumption ==
  /\ {Missing, Corrupt, Shipped, Died, NoAnswer} \cap Values = {}
  /\ Missing # Corrupt /\ Missing # Shipped /\ Missing # Died /\ Missing # NoAnswer
  /\ Corrupt # Shipped /\ Shipped # Died /\ Shipped # NoAnswer /\ Died # NoAnswer
ASSUME DiskAssumption == DiskFails \in BOOLEAN

VARIABLES
  custom, tmp,  \* the file of each name, and its .tmp
  pc, arg, fd,  \* request threads: where they are, their call, the file they have open
  todo,         \* list: the file names it has still to load
  answer,       \* what they have read, for each name
  \* history, read by no action:
  alone,        \* saves that no other save of the same name has overlapped
  seen          \* what the files of a reader's names have held since it began

fileVars == <<custom, tmp>>
threadVars == <<pc, arg, fd>>
readVars == <<todo, answer>>
vars == <<fileVars, threadVars, readVars, alone, seen>>

Contents == Values \cup {Missing}
Absent == [form |-> "absent", value |-> Missing]
Empty == [form |-> "empty", value |-> Missing]
Torn == [form |-> "torn", value |-> Missing]
Whole(v) == [form |-> "whole", value |-> v]
File == {Absent, Empty, Torn} \cup {Whole(v) : v \in Values}

NoArg == [pid |-> "none"]
Args == [pid : Names, value : Contents]

Saving == {"open", "dump", "replace"}
Getting == {"isfile", "load", "got"}
Listing == {"listdir", "loads", "listed"}
Reading == Getting \cup Listing

TypeOK ==
  /\ custom \in [Names -> File]
  /\ tmp \in [Names -> File]
  /\ pc \in [Callers -> {"idle", "remove"} \cup Saving \cup Reading]
  /\ arg \in [Callers -> Args \cup {NoArg}]
  /\ fd \in [Callers -> {"none", "tmp", "custom", "gone"}]
  /\ todo \in [Callers -> SUBSET Names]
  /\ answer \in [Callers -> [Names -> Contents \cup {Shipped, Died, NoAnswer}]]
  /\ alone \in SUBSET Callers
  /\ seen \in [Callers -> [Names -> SUBSET (Contents \cup {Corrupt})]]

Unread == [n \in Names |-> NoAnswer]

Init ==
  /\ custom = [n \in Names |-> Absent]
  /\ tmp = [n \in Names |-> Absent]
  /\ pc = [c \in Callers |-> "idle"]
  /\ arg = [c \in Callers |-> NoArg]
  /\ fd = [c \in Callers |-> "none"]
  /\ todo = [c \in Callers |-> {}]
  /\ answer = [c \in Callers |-> Unread]
  /\ alone = {}
  /\ seen = [c \in Callers |-> [n \in Names |-> {}]]

\* What the custom file of n holds ...
Kept(n) ==
  IF custom[n].form = "whole" THEN custom[n].value
  ELSE IF custom[n] = Absent THEN Missing ELSE Corrupt

\* ... and what a reader makes of a file that holds k.
Shown(n, k) == IF k \in Values THEN k ELSE IF n \in Predefined THEN Shipped ELSE Missing

Goes(c, from, to) ==
  /\ pc[c] = from
  /\ pc' = [pc EXCEPT ![c] = to]

Ends(c) ==
  /\ pc' = [pc EXCEPT ![c] = "idle"]
  /\ arg' = [arg EXCEPT ![c] = NoArg]

Name(c) == arg[c].pid

----------------------------------------------------------------------------
(* Mutants: the actions below with the mistakes the properties must catch. *)
(* No action of Next uses them.                                            *)

\* The preset is written in place.
OpenInPlace(c) ==
  /\ Goes(c, "open", "dump")
  /\ custom' = [custom EXCEPT ![Name(c)] = Empty]
  /\ fd' = [fd EXCEPT ![c] = "custom"]
  /\ UNCHANGED <<tmp, arg, readVars, alone>>

\* A file that is listed and does not load stands for itself.
ListLoadHides(c) ==
  /\ pc[c] = "loads"
  /\ \E n \in todo[c] :
       /\ todo' = [todo EXCEPT ![c] = @ \ {n}]
       /\ answer' = [answer EXCEPT ![c][n] =
            IF custom[n].form = "whole" THEN custom[n].value ELSE Missing]
  /\ UNCHANGED <<fileVars, threadVars, alone>>

\* get that opens the file without the test for it.
LoadAlways(c) ==
  /\ Goes(c, "isfile", "load")
  /\ UNCHANGED <<fileVars, arg, fd, readVars, alone>>

\* get that answers with what it reads, parsed or not.
LoadUnparsed(c) ==
  /\ pc[c] = "load"
  /\ pc' = [pc EXCEPT ![c] = "got"]
  /\ answer' = [answer EXCEPT ![c][Name(c)] = Kept(Name(c))]
  /\ UNCHANGED <<fileVars, arg, fd, todo, alone>>

----------------------------------------------------------------------------
(* save                                                                    *)

Overlapped(n) == {c \in Callers : pc[c] \in Saving /\ Name(c) = n}

CallSave(c) ==
  /\ Goes(c, "idle", "open")
  /\ \E n \in Names, v \in Values :
       /\ arg' = [arg EXCEPT ![c] = [pid |-> n, value |-> v]]
       /\ alone' = IF Overlapped(n) = {} THEN alone \cup {c} ELSE alone \ Overlapped(n)
  /\ UNCHANGED <<fileVars, fd, readVars>>

\* OSError: "cannot write preset".
SaveFails(c) == Ends(c) /\ alone' = alone \ {c}

\* Open the .tmp of the name, which truncates it ...
Open(c) ==
  /\ Goes(c, "open", "dump")
  /\ tmp' = [tmp EXCEPT ![Name(c)] = Empty]
  /\ fd' = [fd EXCEPT ![c] = "tmp"]
  /\ UNCHANGED <<custom, arg, readVars, alone>>

OpenFails(c) ==
  /\ DiskFails /\ pc[c] = "open"
  /\ SaveFails(c)
  /\ UNCHANGED <<fileVars, fd, readVars>>

\* ... dump the preset, which reaches the file when it is closed, over what another
\* thread has put there since ...
Flushed(old, v) ==
  {Whole(v)} \cup (IF old = Empty \/ old = Whole(v) THEN {} ELSE {Torn})

Writes(c, v) ==
  /\ tmp' = IF fd[c] = "tmp" THEN [tmp EXCEPT ![Name(c)] = v] ELSE tmp
  /\ custom' = IF fd[c] = "custom" THEN [custom EXCEPT ![Name(c)] = v] ELSE custom

Written(c) == IF fd[c] = "custom" THEN custom[Name(c)] ELSE tmp[Name(c)]

Dump(c) ==
  /\ Goes(c, "dump", "replace")
  /\ \E v \in Flushed(Written(c), arg[c].value) : Writes(c, v)
  /\ fd' = [fd EXCEPT ![c] = "none"]
  /\ UNCHANGED <<arg, readVars, alone>>

DumpFails(c) ==
  /\ DiskFails /\ pc[c] = "dump"
  /\ \E v \in {Torn, Written(c)} : Writes(c, v)
  /\ fd' = [fd EXCEPT ![c] = "none"]
  /\ SaveFails(c)
  /\ UNCHANGED readVars

\* A thread that has the old custom file open has one without a name now, and one
\* that has the .tmp open has the custom file open.
Moved(n) ==
  [x \in Callers |->
     IF Name(x) # n \/ fd[x] = "none" THEN fd[x] ELSE IF fd[x] = "tmp" THEN "custom" ELSE "gone"]

\* ... rename it, and answer with what get finds then.
Replace(c) ==
  /\ Goes(c, "replace", "isfile")
  /\ LET n == Name(c) IN
       /\ tmp[n] # Absent
       /\ custom' = [custom EXCEPT ![n] = tmp[n]]
       /\ tmp' = [tmp EXCEPT ![n] = Absent]
       /\ fd' = Moved(n)
  /\ alone' = alone \ {c}
  /\ UNCHANGED <<arg, readVars>>

\* Another save has renamed it away, or the rename fails.
ReplaceFails(c) ==
  /\ pc[c] = "replace"
  /\ DiskFails \/ tmp[Name(c)] = Absent
  /\ SaveFails(c)
  /\ UNCHANGED <<fileVars, fd, readVars>>

----------------------------------------------------------------------------
(* delete                                                                  *)

CallDelete(c) ==
  /\ Goes(c, "idle", "remove")
  /\ \E n \in Names : arg' = [arg EXCEPT ![c] = [pid |-> n, value |-> Missing]]
  /\ UNCHANGED <<fileVars, fd, readVars, alone>>

\* "Deleted" is true or false, by whether there was a file.
Remove(c) ==
  /\ pc[c] = "remove"
  /\ custom' = [custom EXCEPT ![Name(c)] = Absent]
  /\ fd' = [x \in Callers |->
       IF Name(x) = Name(c) /\ fd[x] = "custom" THEN "gone" ELSE fd[x]]
  /\ Ends(c)
  /\ UNCHANGED <<tmp, readVars, alone>>

RemoveFails(c) ==
  /\ DiskFails /\ pc[c] = "remove"
  /\ Ends(c)
  /\ UNCHANGED <<fileVars, fd, readVars, alone>>

----------------------------------------------------------------------------
(* get, which save ends with too                                           *)

CallGet(c) ==
  /\ Goes(c, "idle", "isfile")
  /\ \E n \in Names : arg' = [arg EXCEPT ![c] = [pid |-> n, value |-> Missing]]
  /\ UNCHANGED <<fileVars, fd, readVars, alone>>

Answers(c, a) ==
  /\ pc' = [pc EXCEPT ![c] = "got"]
  /\ answer' = [answer EXCEPT ![c][Name(c)] = a]

IsFile(c) ==
  /\ Goes(c, "isfile", "load")
  /\ custom[Name(c)] # Absent
  /\ UNCHANGED <<fileVars, arg, fd, readVars, alone>>

IsNoFile(c) ==
  /\ pc[c] = "isfile"
  /\ custom[Name(c)] = Absent
  /\ Answers(c, Shown(Name(c), Missing))
  /\ UNCHANGED <<fileVars, arg, fd, todo, alone>>

\* A file that has gone, or does not parse, raises what m_get does not catch.  In a
\* save the first is answered with "cannot write preset", and no value either.
Load(c) ==
  /\ pc[c] = "load"
  /\ Answers(c, IF custom[Name(c)].form = "whole" THEN custom[Name(c)].value ELSE Died)
  /\ UNCHANGED <<fileVars, arg, fd, todo, alone>>

----------------------------------------------------------------------------
(* list                                                                    *)

CallList(c) ==
  /\ Goes(c, "idle", "listdir")
  /\ UNCHANGED <<fileVars, arg, fd, readVars, alone>>

\* The predefined presets are loaded, then the directory of the custom ones is read ...
ListDir(c) ==
  /\ Goes(c, "listdir", "loads")
  /\ answer' = [answer EXCEPT ![c] = [n \in Names |-> Shown(n, Missing)]]
  /\ todo' = [todo EXCEPT ![c] = {n \in Names : custom[n] # Absent}]
  /\ UNCHANGED <<fileVars, arg, fd, alone>>

\* ... and its files are loaded one by one; one that does not load is left out.
ListLoad(c) ==
  /\ pc[c] = "loads"
  /\ \E n \in todo[c] :
       /\ todo' = [todo EXCEPT ![c] = @ \ {n}]
       /\ answer' = IF custom[n].form = "whole"
                    THEN [answer EXCEPT ![c][n] = custom[n].value] ELSE answer
  /\ UNCHANGED <<fileVars, threadVars, alone>>

ListDone(c) ==
  /\ todo[c] = {}
  /\ Goes(c, "loads", "listed")
  /\ UNCHANGED <<fileVars, arg, fd, readVars, alone>>

\* The request is answered, or its thread ends without an answer.
Answered(c) ==
  /\ pc[c] \in {"got", "listed"}
  /\ Ends(c)
  /\ answer' = [answer EXCEPT ![c] = Unread]
  /\ UNCHANGED <<fileVars, fd, todo, alone>>

----------------------------------------------------------------------------

\* The process goes at any point, alone or with the device; the files stay.
Restart ==
  /\ pc' = [c \in Callers |-> "idle"]
  /\ arg' = [c \in Callers |-> NoArg]
  /\ fd' = [c \in Callers |-> "none"]
  /\ todo' = [c \in Callers |-> {}]
  /\ answer' = [c \in Callers |-> Unread]
  /\ alone' = {}
  /\ UNCHANGED fileVars

\* History: the names a thread reads, and what their files have held so far.
ReadNames(c) ==
  IF pc[c] \in Getting THEN {Name(c)} ELSE IF pc[c] \in Listing THEN Names ELSE {}

Observe ==
  seen' = [c \in Callers |-> [n \in Names |->
             IF n \in ReadNames(c)' THEN seen[c][n] \cup {Kept(n)'} ELSE {}]]

SaveStep(c) ==
  \/ Open(c) \/ OpenFails(c) \/ Dump(c) \/ DumpFails(c) \/ Replace(c) \/ ReplaceFails(c)
ReadStep(c) ==
  \/ IsFile(c) \/ IsNoFile(c) \/ Load(c)
  \/ ListDir(c) \/ ListLoad(c) \/ ListDone(c) \/ Answered(c)

CallerStep(c) ==
  \/ CallSave(c) \/ CallDelete(c) \/ CallGet(c) \/ CallList(c)
  \/ SaveStep(c) \/ Remove(c) \/ RemoveFails(c) \/ ReadStep(c)

Next == (Restart \/ \E c \in Callers : CallerStep(c)) /\ Observe

Spec == Init /\ [][Next]_vars

----------------------------------------------------------------------------
(* Safety                                                                  *)

\* A list shows every preset as it was at some time during the call: a file that is
\* saved or deleted between the directory and its load, or does not parse ("a corrupt
\* file must not blank the whole list"), never hides another preset nor the predefined
\* one of its name.
ListsRegular ==
  \A c \in Callers : pc[c] = "listed" =>
    \A n \in Names : \E k \in seen[c][n] : answer[c][n] = Shown(n, k)

\* So does a get, and the get that ends a save: what it answers the name had during the
\* call, and it dies only if a custom file of that name was deleted in between or did
\* not parse.
GetsExplained ==
  \A c \in Callers : pc[c] = "got" =>
    LET held == seen[c][Name(c)] IN
    IF answer[c][Name(c)] = Died
    THEN Corrupt \in held \/ (Missing \in held /\ held \cap Values # {})
    ELSE \E k \in held \ {Corrupt} : answer[c][Name(c)] = Shown(Name(c), k)

----------------------------------------------------------------------------
(* The promise                                                             *)

\* Names that overlapping saves share a .tmp of.
Contended == {n \in Names : \E c \in Callers : pc[c] \in Saving /\ c \notin alone /\ Name(c) = n}

Atomic == INSTANCE AtomicStore WITH
  Clients <- Callers, Parameters <- Names, Initially <- Missing,
  view <- [n \in Names |-> custom[n].value],
  request <- [c \in Callers |-> IF pc[c] \in Saving \cup {"remove"} THEN arg[c] ELSE NoArg],
  contended <- Contended

\* A save that no other save of its name overlaps, and every delete, is one atomic
\* change of that preset or none, whatever fails and whenever the process is killed
\* ("atomic: a yanked power cord leaves no half file"); overlapping ones disturb no
\* other name.
AtomicImplemented == Atomic!StoreSpec
=============================================================================
