---------------------------- MODULE OneShotProofs ----------------------------
(***************************************************************************)
(* Proofs about OneShot, for any number of one-shot containers and any     *)
(* bundles in their images.                                                *)
(***************************************************************************)
EXTENDS OneShot, TLAPS

\* A container that is not running has no variables.
OffIsBlank ==
  \A r \in Runs : pc[r] = "off" => from[r] = NoSlot /\ to[r] = NoSlot /\ got[r] = NoFile

\* A file is open in a cp only while the cp runs.
OnlyCpHasItOpen == \A r \in Runs : copy[r] # "none" => pc[r] = "copying"

\* The commands that come before the host may have changed.
BeforeReport == {"check", "from", "prepare", "copy", "copying", "verify", "decide",
                 "install", "installing"}

\* A run that has the device for itself finds the file and the slots as it left them.
Undisturbed(r) ==
  /\ \A x \in Runs : x # r => pc[x] = "off"
  /\ busy \in {Nobody, r}
  /\ pc[r] = "copying" => copy[r] = "sole"
  /\ pc[r] \in {"verify", "decide", "install", "installing"} => staged = Embedded[r]
  /\ pc[r] = "installing" => source = Embedded[r]
  /\ got[r] \in {NoFile, Embedded[r]}
  /\ to[r] \in {NoSlot, primary}
  /\ pc[r] \in BeforeReport => to[r] = NoSlot
  /\ from[r] \in {NoSlot, booted}
  /\ r \in fresh /\ primary # booted => got[r] = Embedded[r]

AloneUndisturbed == \A r \in alone : pc[r] # "off" /\ Undisturbed(r)

\* The uploads of the server are in a directory that exists.
UploadsInDir == uploads => dir

Inv == TypeOK /\ OffIsBlank /\ OnlyCpHasItOpen /\ AloneUndisturbed /\ NothingLeftBehind

----------------------------------------------------------------------------

LEMMA InitInv == Init => Inv /\ UploadsInDir
BY OneShotAssumption, ClientsAssumption
DEF Init, HostInit, Inv, TypeOK, HostTypeOK, Slots, Busy, Steps, Staging, OffIsBlank,
    OnlyCpHasItOpen, AloneUndisturbed, NothingLeftBehind, UploadsInDir

LEMMA TypeStep == TypeOK /\ [Next]_vars => TypeOK'
<1> SUFFICES ASSUME TypeOK, [Next]_vars PROVE TypeOK'
  OBVIOUS
<1> USE OneShotAssumption, ClientsAssumption
    DEF TypeOK, HostTypeOK, Busy, Slots, Other, Steps, Staging, At, Goto, hostVars, runVars,
        fileVars, dirVars, history
<1>0. ASSUME NEW r \in Runs, Fatal(r) PROVE TypeOK'
  <2>1. copy' \in [Runs -> {"none", "sole", "mixed", "unlinked"}]
    BY <1>0 DEF Fatal, RemovesStaged
  <2>2. /\ pc' \in [Runs -> Steps] /\ from' \in [Runs -> Slots \cup {NoSlot}]
        /\ to' \in [Runs -> Slots \cup {NoSlot}] /\ got' \in [Runs -> Bundles \cup {NoFile}]
        /\ alone' \in SUBSET Runs /\ fresh' \in SUBSET Runs
    BY <1>0 DEF Fatal, Ends
  <2> QED BY <1>0, <2>1, <2>2 DEF Fatal, RemovesStaged
<1>1. ASSUME NEW r \in Runs, Start(r) \/ Run(r) \/ Kill(r) PROVE TypeOK'
  <2>1. CASE Start(r)
    BY <2>1 DEF Start, Active, Pending
  <2>2. CASE Check(r)
    BY <1>0, <2>2 DEF Check
  <2>3. CASE ReadFrom(r)
    BY <2>3 DEF ReadFrom
  <2>4. CASE Prepare(r)
    <3>1. CASE Dies(r)
      BY <3>1 DEF Dies, CutOff, Ends
    <3>2. CASE ~Dies(r) /\ ~Fatal(r)
      BY <2>4, <3>2 DEF Prepare
    <3> QED BY <1>0, <3>1, <3>2
  <2>5. CASE CopyBegin(r)
    BY <2>5 DEF CopyBegin
  <2>6. CASE CopyEnd(r)
    BY <2>6 DEF CopyEnd, Copied
  <2>7. CASE CopyFails(r)
    BY <2>7 DEF CopyFails, Dies, CutOff, Ends
  <2>8. CASE Verify(r)
    BY <1>0, <2>8 DEF Verify
  <2>9. CASE Decide(r)
    BY <2>9 DEF Decide
  <2>10. CASE InstallAccepted(r)
    BY <2>10 DEF InstallAccepted, HostAccept
  <2>11. CASE InstallRefused(r)
    BY <2>11 DEF InstallRefused
  <2>12. CASE InstallEnds(r)
    <3>1. got' \in [Runs -> Bundles \cup {NoFile}]
      BY <2>12 DEF InstallEnds
    <3>2. HostTypeOK'
      BY <2>12 DEF InstallEnds, HostInstalled, HostInstallFailed
    <3> QED BY <2>12, <3>1, <3>2 DEF InstallEnds
  <2>13. CASE ReadTo(r)
    BY <2>13 DEF ReadTo
  <2>14. CASE Remove(r)
    BY <2>14 DEF Remove, RemovesStaged
  <2>15. CASE RemoveDir(r)
    BY <2>15 DEF RemoveDir, Ends, DirAfterRmdir
  <2>16. CASE Complete(r)
    BY <2>16 DEF Complete, Ends
  <2>17. CASE RebootRefused(r)
    BY <1>0, <2>17 DEF RebootRefused
  <2>18. CASE Kill(r)
    BY <2>18 DEF Kill, CutOff, Ends
  <2> QED BY <1>1, <2>1, <2>2, <2>3, <2>4, <2>5, <2>6, <2>7, <2>8, <2>9, <2>10, <2>11, <2>12, <2>13, <2>14, <2>15, <2>16, <2>17, <2>18 DEF Run
<1>2. CASE Boot
  BY <1>2 DEF Boot, HostBoot, Pending
<1>3. CASE ServerInstalls
  BY <1>3 DEF ServerInstalls, HostAccept
<1>4. CASE ServiceEnds
  BY <1>4 DEF ServiceEnds, HostInstalled, HostInstallFailed
<1>5. CASE ServerActivates
  BY <1>5 DEF ServerActivates
<1>6. CASE ServerUploads
  BY <1>6 DEF ServerUploads
<1>7. CASE ServerClears
  BY <1>7 DEF ServerClears
<1>8. CASE UNCHANGED vars
  BY <1>8 DEF vars
<1> QED BY <1>1, <1>2, <1>3, <1>4, <1>5, <1>6, <1>7, <1>8 DEF Next, Environment

LEMMA LeftBehindStep ==
  TypeOK /\ NothingLeftBehind /\ [Next]_vars => NothingLeftBehind'
<1> SUFFICES ASSUME TypeOK, NothingLeftBehind, [Next]_vars PROVE NothingLeftBehind'
  OBVIOUS
<1> USE DEF TypeOK, NothingLeftBehind, Staging, At, Goto, hostVars, runVars, fileVars, dirVars, history
<1>1. ASSUME NEW r \in Runs, Start(r) \/ Run(r) \/ Kill(r) PROVE NothingLeftBehind'
  <2>1. CASE Start(r)
    BY <2>1 DEF Start, Active, Pending
  <2>2. CASE Check(r)
    BY <2>2 DEF Check, Fatal, Ends, RemovesStaged
  <2>3. CASE ReadFrom(r)
    BY <2>3 DEF ReadFrom
  <2>4. CASE Prepare(r)
    BY <2>4 DEF Prepare, Fatal, Dies, CutOff, Ends, RemovesStaged
  <2>5. CASE CopyBegin(r)
    BY <2>5 DEF CopyBegin
  <2>6. CASE CopyEnd(r)
    BY <2>6 DEF CopyEnd, Copied
  <2>7. CASE CopyFails(r)
    BY <2>7 DEF CopyFails, Dies, CutOff, Ends
  <2>8. CASE Verify(r)
    BY <2>8 DEF Verify, Fatal, Ends, RemovesStaged
  <2>9. CASE Decide(r)
    BY <2>9 DEF Decide
  <2>10. CASE InstallAccepted(r)
    BY <2>10 DEF InstallAccepted, HostAccept
  <2>11. CASE InstallRefused(r)
    BY <2>11 DEF InstallRefused
  <2>12. CASE InstallEnds(r)
    BY <2>12 DEF InstallEnds, HostInstalled, HostInstallFailed
  <2>13. CASE ReadTo(r)
    BY <2>13 DEF ReadTo
  <2>14. CASE Remove(r)
    BY <2>14 DEF Remove, RemovesStaged
  <2>15. CASE RemoveDir(r)
    BY <2>15 DEF RemoveDir, Ends, DirAfterRmdir
  <2>16. CASE Complete(r)
    BY <2>16 DEF Complete, Ends
  <2>17. CASE RebootRefused(r)
    BY <2>17 DEF RebootRefused, Fatal, Ends, RemovesStaged
  <2>18. CASE Kill(r)
    BY <2>18 DEF Kill, CutOff, Ends
  <2> QED BY <1>1, <2>1, <2>2, <2>3, <2>4, <2>5, <2>6, <2>7, <2>8, <2>9, <2>10, <2>11, <2>12, <2>13, <2>14, <2>15, <2>16, <2>17, <2>18 DEF Run
<1>2. CASE Boot
  BY <1>2 DEF Boot, HostBoot, Pending
<1>3. CASE ServerInstalls
  BY <1>3 DEF ServerInstalls, HostAccept
<1>4. CASE ServiceEnds
  BY <1>4 DEF ServiceEnds, HostInstalled, HostInstallFailed
<1>5. CASE ServerActivates
  BY <1>5 DEF ServerActivates
<1>6. CASE ServerUploads
  BY <1>6 DEF ServerUploads
<1>7. CASE ServerClears
  BY <1>7 DEF ServerClears
<1>8. CASE UNCHANGED vars
  BY <1>8 DEF vars
<1> QED BY <1>1, <1>2, <1>3, <1>4, <1>5, <1>6, <1>7, <1>8 DEF Next, Environment

LEMMA BlankStep == TypeOK /\ OffIsBlank /\ [Next]_vars => OffIsBlank'
<1> SUFFICES ASSUME TypeOK, OffIsBlank, [Next]_vars PROVE OffIsBlank'
  OBVIOUS
<1> USE DEF TypeOK, OffIsBlank, At, Goto, hostVars, runVars, fileVars, dirVars, history
<1>1. ASSUME NEW r \in Runs, Start(r) \/ Run(r) \/ Kill(r) PROVE OffIsBlank'
  <2>1. CASE Start(r)
    BY <2>1 DEF Start, Active, Pending
  <2>2. CASE Check(r)
    BY <2>2 DEF Check, Fatal, Ends, RemovesStaged
  <2>3. CASE ReadFrom(r)
    BY <2>3 DEF ReadFrom
  <2>4. CASE Prepare(r)
    BY <2>4 DEF Prepare, Fatal, Dies, CutOff, Ends, RemovesStaged
  <2>5. CASE CopyBegin(r)
    BY <2>5 DEF CopyBegin
  <2>6. CASE CopyEnd(r)
    BY <2>6 DEF CopyEnd, Copied
  <2>7. CASE CopyFails(r)
    BY <2>7 DEF CopyFails, Dies, CutOff, Ends
  <2>8. CASE Verify(r)
    BY <2>8 DEF Verify, Fatal, Ends, RemovesStaged
  <2>9. CASE Decide(r)
    BY <2>9 DEF Decide
  <2>10. CASE InstallAccepted(r)
    BY <2>10 DEF InstallAccepted, HostAccept
  <2>11. CASE InstallRefused(r)
    BY <2>11 DEF InstallRefused
  <2>12. CASE InstallEnds(r)
    BY <2>12 DEF InstallEnds, HostInstalled, HostInstallFailed
  <2>13. CASE ReadTo(r)
    BY <2>13 DEF ReadTo
  <2>14. CASE Remove(r)
    BY <2>14 DEF Remove, RemovesStaged
  <2>15. CASE RemoveDir(r)
    BY <2>15 DEF RemoveDir, Ends, DirAfterRmdir
  <2>16. CASE Complete(r)
    BY <2>16 DEF Complete, Ends
  <2>17. CASE RebootRefused(r)
    BY <2>17 DEF RebootRefused, Fatal, Ends, RemovesStaged
  <2>18. CASE Kill(r)
    BY <2>18 DEF Kill, CutOff, Ends
  <2> QED BY <1>1, <2>1, <2>2, <2>3, <2>4, <2>5, <2>6, <2>7, <2>8, <2>9, <2>10, <2>11, <2>12, <2>13, <2>14, <2>15, <2>16, <2>17, <2>18 DEF Run
<1>2. CASE Boot
  BY <1>2 DEF Boot, HostBoot, Pending
<1>3. CASE ServerInstalls
  BY <1>3 DEF ServerInstalls, HostAccept
<1>4. CASE ServiceEnds
  BY <1>4 DEF ServiceEnds, HostInstalled, HostInstallFailed
<1>5. CASE ServerActivates
  BY <1>5 DEF ServerActivates
<1>6. CASE ServerUploads
  BY <1>6 DEF ServerUploads
<1>7. CASE ServerClears
  BY <1>7 DEF ServerClears
<1>8. CASE UNCHANGED vars
  BY <1>8 DEF vars
<1> QED BY <1>1, <1>2, <1>3, <1>4, <1>5, <1>6, <1>7, <1>8 DEF Next, Environment

LEMMA OpenStep == TypeOK /\ OnlyCpHasItOpen /\ [Next]_vars => OnlyCpHasItOpen'
<1> SUFFICES ASSUME TypeOK, OnlyCpHasItOpen, [Next]_vars PROVE OnlyCpHasItOpen'
  OBVIOUS
<1> USE DEF TypeOK, OnlyCpHasItOpen, At, Goto, hostVars, runVars, fileVars, dirVars, history
<1>1. ASSUME NEW r \in Runs, Start(r) \/ Run(r) \/ Kill(r) PROVE OnlyCpHasItOpen'
  <2>1. CASE Start(r)
    BY <2>1 DEF Start, Active, Pending
  <2>2. CASE Check(r)
    BY <2>2 DEF Check, Fatal, Ends, RemovesStaged
  <2>3. CASE ReadFrom(r)
    BY <2>3 DEF ReadFrom
  <2>4. CASE Prepare(r)
    BY <2>4 DEF Prepare, Fatal, Dies, CutOff, Ends, RemovesStaged
  <2>5. CASE CopyBegin(r)
    BY <2>5 DEF CopyBegin
  <2>6. CASE CopyEnd(r)
    BY <2>6 DEF CopyEnd, Copied
  <2>7. CASE CopyFails(r)
    BY <2>7 DEF CopyFails, Dies, CutOff, Ends
  <2>8. CASE Verify(r)
    BY <2>8 DEF Verify, Fatal, Ends, RemovesStaged
  <2>9. CASE Decide(r)
    BY <2>9 DEF Decide
  <2>10. CASE InstallAccepted(r)
    BY <2>10 DEF InstallAccepted, HostAccept
  <2>11. CASE InstallRefused(r)
    BY <2>11 DEF InstallRefused
  <2>12. CASE InstallEnds(r)
    BY <2>12 DEF InstallEnds, HostInstalled, HostInstallFailed
  <2>13. CASE ReadTo(r)
    BY <2>13 DEF ReadTo
  <2>14. CASE Remove(r)
    BY <2>14 DEF Remove, RemovesStaged
  <2>15. CASE RemoveDir(r)
    BY <2>15 DEF RemoveDir, Ends, DirAfterRmdir
  <2>16. CASE Complete(r)
    BY <2>16 DEF Complete, Ends
  <2>17. CASE RebootRefused(r)
    BY <2>17 DEF RebootRefused, Fatal, Ends, RemovesStaged
  <2>18. CASE Kill(r)
    BY <2>18 DEF Kill, CutOff, Ends
  <2> QED BY <1>1, <2>1, <2>2, <2>3, <2>4, <2>5, <2>6, <2>7, <2>8, <2>9, <2>10, <2>11, <2>12, <2>13, <2>14, <2>15, <2>16, <2>17, <2>18 DEF Run
<1>2. CASE Boot
  BY <1>2 DEF Boot, HostBoot, Pending
<1>3. CASE ServerInstalls
  BY <1>3 DEF ServerInstalls, HostAccept
<1>4. CASE ServiceEnds
  BY <1>4 DEF ServiceEnds, HostInstalled, HostInstallFailed
<1>5. CASE ServerActivates
  BY <1>5 DEF ServerActivates
<1>6. CASE ServerUploads
  BY <1>6 DEF ServerUploads
<1>7. CASE ServerClears
  BY <1>7 DEF ServerClears
<1>8. CASE UNCHANGED vars
  BY <1>8 DEF vars
<1> QED BY <1>1, <1>2, <1>3, <1>4, <1>5, <1>6, <1>7, <1>8 DEF Next, Environment

\* While a run has the device for itself, every other one is off and can only start,
\* which ends the privilege: a step of a run is one of its own.
LEMMA UndisturbedStep ==
  TypeOK /\ OffIsBlank /\ OnlyCpHasItOpen /\ AloneUndisturbed /\ [Next]_vars
    => AloneUndisturbed'
<1> SUFFICES ASSUME TypeOK, OffIsBlank, OnlyCpHasItOpen, AloneUndisturbed, [Next]_vars
             PROVE  AloneUndisturbed'
  OBVIOUS
<1> USE OneShotAssumption, ClientsAssumption
    DEF At, Goto, hostVars, runVars, fileVars, dirVars, history
<1>1. ASSUME NEW r \in Runs, Start(r) PROVE AloneUndisturbed'
  <2>1. CASE Active = {} /\ busy = Nobody
    <3>1. /\ alone' = {r} /\ pc' = [pc EXCEPT ![r] = "check"] /\ pc[r] = "off"
          /\ \A x \in Runs : pc[x] = "off"
      BY <1>1, <2>1 DEF Start, Active
    <3>2. to[r] = NoSlot /\ from[r] = NoSlot /\ got[r] = NoFile
      BY <3>1 DEF OffIsBlank
    <3>3. r \in fresh' => primary = booted
      BY <1>1 DEF Start, Pending
    <3>4. Undisturbed(r)'
      BY <1>1, <2>1, <3>1, <3>2, <3>3 DEF Start, Undisturbed, TypeOK
    <3> QED BY <3>1, <3>4 DEF AloneUndisturbed, TypeOK
  <2>2. CASE ~(Active = {} /\ busy = Nobody)
    BY <1>1, <2>2 DEF Start, AloneUndisturbed
  <2> QED BY <2>1, <2>2
<1>2. ASSUME NEW r \in Runs, Run(r) PROVE AloneUndisturbed'
  <2>1. alone' \subseteq alone /\ pc[r] # "off"
    BY <1>2 DEF Run, Check, ReadFrom, Prepare, CopyBegin, CopyEnd, CopyFails, Verify, Decide, InstallAccepted, InstallRefused, InstallEnds, ReadTo, Remove, RemoveDir, Complete, RebootRefused, Fatal, Dies, CutOff, Ends
  <2>2. SUFFICES ASSUME r \in alone, r \in alone', alone' \subseteq alone PROVE pc'[r] # "off" /\ Undisturbed(r)'
    BY <2>1 DEF AloneUndisturbed, Undisturbed
  <2> USE DEF AloneUndisturbed, Undisturbed, TypeOK, HostTypeOK, Slots, BeforeReport
  <2>3. CASE Check(r)
    BY <2>2, <2>3 DEF Check, Fatal, Ends
  <2>4. CASE ReadFrom(r)
    BY <2>2, <2>4 DEF ReadFrom
  <2>5. CASE Prepare(r)
    BY <2>2, <2>5 DEF Prepare, Fatal, Dies, CutOff, Ends
  <2>6. CASE CopyBegin(r)
    <3>1. \A y \in Runs : copy[y] = "none"
      BY <2>2, <2>6 DEF CopyBegin, OnlyCpHasItOpen
    <3>2. copy'[r] = "sole"
      BY <2>6, <3>1 DEF CopyBegin
    <3> QED BY <2>2, <2>6, <3>2 DEF CopyBegin
  <2>7. CASE CopyEnd(r)
    BY <2>2, <2>7 DEF CopyEnd, Copied
  <2>8. CASE CopyFails(r)
    BY <2>2, <2>8 DEF CopyFails, Dies, CutOff, Ends
  <2>9. CASE Verify(r)
    BY <2>2, <2>9 DEF Verify, Fatal, Ends
  <2>10. CASE Decide(r)
    BY <2>2, <2>10 DEF Decide
  <2>11. CASE InstallAccepted(r)
    BY <2>2, <2>11 DEF InstallAccepted, HostAccept
  <2>12. CASE InstallRefused(r)
    BY <2>2, <2>12 DEF InstallRefused
  <2>13. CASE InstallEnds(r)
    BY <2>2, <2>13 DEF InstallEnds, HostInstalled, HostInstallFailed
  <2>14. CASE ReadTo(r)
    BY <2>2, <2>14 DEF ReadTo
  <2>15. CASE Remove(r)
    BY <2>2, <2>15 DEF Remove, RemovesStaged
  <2>16. CASE RemoveDir(r)
    BY <2>2, <2>16 DEF RemoveDir, Ends
  <2>17. CASE Complete(r)
    BY <2>2, <2>17 DEF Complete, Ends
  <2>18. CASE RebootRefused(r)
    BY <2>2, <2>18 DEF RebootRefused, Fatal, Ends
  <2> QED BY <1>2, <2>3, <2>4, <2>5, <2>6, <2>7, <2>8, <2>9, <2>10, <2>11, <2>12, <2>13, <2>14, <2>15, <2>16, <2>17, <2>18 DEF Run
<1>3. ASSUME NEW r \in Runs, Kill(r) PROVE AloneUndisturbed'
  <2>1. alone' = alone \ {r} /\ pc[r] # "off"
    BY <1>3 DEF Kill, CutOff, Ends
  <2>2. alone' = {}
    BY <2>1 DEF AloneUndisturbed, Undisturbed
  <2> QED BY <2>2 DEF AloneUndisturbed
<1>4. CASE Boot \/ ServerInstalls
  BY <1>4 DEF Boot, ServerInstalls, AloneUndisturbed
<1>5. CASE ServiceEnds
  <2>1. alone = {}
    BY <1>5 DEF ServiceEnds, AloneUndisturbed, Undisturbed, TypeOK
  <2> QED BY <1>5, <2>1 DEF ServiceEnds, AloneUndisturbed
<1>6. CASE ServerActivates \/ ServerUploads \/ ServerClears
  BY <1>6 DEF ServerActivates, ServerUploads, ServerClears, AloneUndisturbed, Undisturbed
<1>7. CASE UNCHANGED vars
  BY <1>7 DEF vars, AloneUndisturbed, Undisturbed
<1> QED BY <1>1, <1>2, <1>3, <1>4, <1>5, <1>6, <1>7 DEF Next, Environment

LEMMA UploadsStep ==
  TypeOK /\ UploadsInDir /\ [Next]_vars
    => UploadsInDir' /\ [uploads /\ ~(uploads' /\ dir') => UNCHANGED pc]_vars
<1> SUFFICES ASSUME TypeOK, UploadsInDir, [Next]_vars
             PROVE  UploadsInDir' /\ (uploads /\ ~(uploads' /\ dir') => UNCHANGED pc)
  BY DEF vars, runVars
<1> USE DEF UploadsInDir, hostVars, runVars, fileVars, dirVars
<1>1. ASSUME NEW r \in Runs, Start(r) \/ Run(r) \/ Kill(r) PROVE uploads' = uploads /\ (uploads => dir')
  <2>1. CASE Prepare(r)
    BY <2>1 DEF Prepare, Fatal, Dies, CutOff
  <2>2. CASE RemoveDir(r)
    BY <2>2 DEF RemoveDir, DirAfterRmdir
  <2>3. CASE ~Prepare(r) /\ ~RemoveDir(r)
    BY <1>1, <2>3
    DEF Start, Kill, Run, Check, ReadFrom, CopyBegin, CopyEnd, CopyFails, Verify, Decide,
        InstallAccepted, InstallRefused, InstallEnds, ReadTo, Remove, Complete,
        RebootRefused, Fatal, Dies, CutOff
  <2> QED BY <2>1, <2>2, <2>3
<1>2. CASE Boot
  BY <1>2 DEF Boot
<1>3. CASE ServerInstalls \/ ServiceEnds \/ ServerActivates \/ ServerUploads \/ ServerClears
  BY <1>3 DEF ServerInstalls, ServiceEnds, ServerActivates, ServerUploads, ServerClears
<1>4. CASE UNCHANGED vars
  BY <1>4 DEF vars
<1> QED BY <1>1, <1>2, <1>3, <1>4 DEF Next, Environment

----------------------------------------------------------------------------

\* The inductive invariant of the script and of the directory it stages in.
THEOREM Invariance == Spec => [](Inv /\ UploadsInDir)
<1>1. Inv /\ UploadsInDir /\ [Next]_vars => (Inv /\ UploadsInDir)'
  BY TypeStep, LeftBehindStep, BlankStep, OpenStep, UndisturbedStep, UploadsStep DEF Inv
<1> QED BY <1>1, InitInv, PTL DEF Spec

\* Type correctness of the one-shot containers and of what they share.
THEOREM OneShotTypeCorrect == Spec => []TypeOK
<1>1. Inv => TypeOK
  BY DEF Inv
<1> QED BY <1>1, Invariance, PTL

\* The staged file outlives its run only when a run was cut off (entrypoint.sh:30, 78).
THEOREM CleansUp == Spec => []NothingLeftBehind
<1>1. Inv => NothingLeftBehind
  BY DEF Inv
<1> QED BY <1>1, Invariance, PTL

\* A run alone on the device installs the bundle of its image (entrypoint.sh:50-73),
\* whatever runs before it left behind.
THEOREM InstallsWhatItCarries == Spec => []InstalledIsCarried
<1>1. Inv => InstalledIsCarried
  BY DEF Inv, AloneUndisturbed, Undisturbed, InstalledIsCarried
<1> QED BY <1>1, Invariance, PTL

\* The slots in the summary of a run alone on the device (entrypoint.sh:85-86) are
\* those that ran and will boot, and differ only if its own installation succeeded.
THEOREM SummaryIsTrue == Spec => []ReportIsTrue
<1>1. Inv => ReportIsTrue
  BY DEF Inv, AloneUndisturbed, Undisturbed, ReportIsTrue
<1> QED BY <1>1, Invariance, PTL

\* No step of a run takes an upload of the server or the directory it is in
\* (entrypoint.sh:65, 79).
THEOREM UploadsAreKept == Spec => ServerFilesKept
<1>1. Inv /\ UploadsInDir /\ [Next]_vars => [uploads /\ ~(uploads' /\ dir') => UNCHANGED pc]_vars
  BY UploadsStep DEF Inv
<1> QED BY <1>1, Invariance, PTL DEF Spec, ServerFilesKept
=============================================================================
