------------------------ MODULE FirmwareUpdateProofs ------------------------
(***************************************************************************)
(* Proofs about FirmwareUpdate, for any number of worker threads, request  *)
(* threads and uploads, with or without an embedded bundle, and under      *)
(* every combination of the environment's failures.                        *)
(***************************************************************************)
EXTENDS FirmwareUpdate, TLAPS

\* The groups of variables an action leaves alone.
USE DEF stVars, fileVars, workerVars, callerVars, hostVars, history

\* A box whose freshness is set is still a box.
LEMMA FreshBox ==
  ASSUME NEW S, NEW b \in [fresh : BOOLEAN, v : S], NEW x \in BOOLEAN
  PROVE  [b EXCEPT !.fresh = x] \in [fresh : BOOLEAN, v : S]
  OBVIOUS

\* The host's slots stay what they are when an installation ends.
LEMMA HostKeepsType ==
  ASSUME HostTypeOK, HostInstalled \/ HostInstallFailed
  PROVE  HostTypeOK'
<1>1. Other(booted) \in Slots
  BY DEF HostTypeOK, Slots, Other
<1>2. CASE HostInstalled
  BY <1>1, <1>2 DEF HostTypeOK, HostInstalled, Busy
<1>3. CASE HostInstallFailed
  <2>1. booted' \in Slots /\ busy' \in Busy
    BY <1>3 DEF HostTypeOK, HostInstallFailed, Busy
  <2>2. primary' \in Slots /\ good' \in SUBSET Slots
    BY <1>3 DEF HostTypeOK, HostInstallFailed
  <2> QED BY <2>1, <2>2 DEF HostTypeOK
<1> QED BY <1>2, <1>3

\* Whatever `rauc status` says, rauc_slots() makes a triple of it.
LEMMA ReadIsTriple ==
  ASSUME TypeOK, NEW v \in RaucSlots
  PROVE  v \in SlotState
<1>1. SlotsNow \in SlotState
  <2>1. (booted \in good) \in BOOLEAN
    OBVIOUS
  <2>2. (IF Pending THEN primary ELSE NoSlot) \in Slots \cup {NoSlot}
    BY DEF TypeOK, HostTypeOK
  <2>3. booted \in Slots \cup {NoSlot}
    BY DEF TypeOK, HostTypeOK
  <2> QED BY <2>1, <2>2, <2>3, Zenon DEF SlotsNow, SlotState
<1>2. SlotsAbsent \in SlotState
  BY DEF SlotsAbsent, SlotState
<1> QED BY <1>1, <1>2 DEF RaucSlots

\* The values of the state machine, the files, the threads, the cache and the
\* host stay what TypeOK says: st never holds Init(1), Revert(6) or NotAvailable(9).
THEOREM TypeCorrect == Spec => []TypeOK
<1> USE PercentagesAssumption, ClientsAssumption
    DEF TypeOK, HostTypeOK, Workers, Slots, Busy, Other
<1>1. Init => TypeOK
  BY DEF Init, ProcessInit, HostInit, WorkerPc, CallerPc, Sources, StatusNames,
         Inactive, NotAvailable, NoError
<1>2. TypeOK /\ [Next]_vars => TypeOK'
  <2> SUFFICES ASSUME TypeOK, [Next]_vars PROVE TypeOK'
    OBVIOUS
  <2> USE DEF StatusNames, Inactive, Prepared, Started, Unconfirmed, Confirmed, Error,
              Finished, NotAvailable, NoError, AbortByUser, SignatureInvalid, UpdateFailed
  <2>1. CASE Activate BY <2>1 DEF Activate
  <2>2. CASE GetUploadIds BY <2>2 DEF GetUploadIds
  <2>3. CASE Clear BY <2>3 DEF Clear
  <2>4. CASE Cancel BY <2>4 DEF Cancel
  <2>5. ASSUME NEW w \in Workers, StartUpload(w) PROVE TypeOK'
    BY <2>5 DEF StartUpload, StartWith, Sources, WorkerPc
  <2>6. ASSUME NEW w \in Workers, StartEmbedded(w) PROVE TypeOK'
    BY <2>6 DEF StartEmbedded, StartWith, Sources, WorkerPc
  <2>7. ASSUME NEW w \in Workers, ProgressLine(w) PROVE TypeOK'
    BY <2>7 DEF ProgressLine
  <2>8. ASSUME NEW w \in Workers, WorkerStep(w) PROVE TypeOK'
    <3> USE DEF WorkerGoes, WorkerEnds, WorkerPc, Sources
    <3>1. CASE StageCopied(w) BY <3>1 DEF StageCopied
    <3>2. CASE StageFails(w) BY <3>2 DEF StageFails
    <3>3. CASE Spawn(w) BY <3>3 DEF Spawn
    <3>4. CASE SpawnRaises(w) BY <3>4 DEF SpawnRaises
    <3>5. CASE InstallBegins(w) BY <3>5 DEF InstallBegins, HostAccept
    <3>6. CASE InstallRefused(w) BY <3>6 DEF InstallRefused
    <3>7. CASE InstallSucceeds(w) BY <3>7 DEF InstallSucceeds, HostInstalled
    <3>8. CASE InstallFails(w)
      <4>1. HostTypeOK'
        BY <3>8, HostKeepsType DEF InstallFails
      <4>2. sincePending' \in SUBSET Callers /\ undisturbed' \in SUBSET Callers
        BY <3>8 DEF InstallFails, StillPending
      <4> QED BY <3>8, <4>1, <4>2 DEF InstallFails
    <3>9. CASE ReportDone(w) BY <3>9 DEF ReportDone
    <3>10. CASE ReportFailed(w) BY <3>10 DEF ReportFailed
    <3> QED BY <2>8, <3>1, <3>2, <3>3, <3>4, <3>5, <3>6, <3>7, <3>8, <3>9, <3>10 DEF WorkerStep
  <2>9. CASE OrphanEnds
    <3>1. HostTypeOK'
      BY <2>9, HostKeepsType DEF OrphanEnds
    <3>2. sincePending' \in SUBSET Callers /\ undisturbed' \in SUBSET Callers
      BY <2>9 DEF OrphanEnds, StillPending
    <3> QED BY <2>9, <3>1, <3>2 DEF OrphanEnds
  <2>11. ASSUME NEW c \in Callers, PollSlots(c) PROVE TypeOK'
    BY <2>11 DEF PollSlots, CallerGoes, CallerPc
  <2>12. ASSUME NEW c \in Callers, FinishCheck(c) PROVE TypeOK'
    BY <2>12 DEF FinishCheck, CallerGoes, CallerPc
  <2>13. ASSUME NEW c \in Callers, ConfirmBegin(c) PROVE TypeOK'
    BY <2>13 DEF ConfirmBegin, CallerGoes, CallerPc, ClearBox
  <2>14. ASSUME NEW c \in Callers, CallerStep(c) PROVE TypeOK'
    <3> USE DEF CallerGoes, CallerPc, CallEnds, NotObserved, ClearBox
    <3>1. CASE FinishSet(c) BY <3>1 DEF FinishSet
    <3>2. CASE FinishClearBox(c) BY <3>2 DEF FinishClearBox
    <3>3. CASE CacheCheck(c) BY <3>3 DEF CacheCheck
    <3>4. CASE CacheRun(c)
      <4>1. RaucSlots \subseteq SlotState
        BY ReadIsTriple
      <4> QED BY <3>4, <4>1 DEF CacheRun
    <3>5. CASE CacheStoreV(c) BY <3>5 DEF CacheStoreV
    <3>6. CASE CacheStoreT(c)
      <4>1. box' = [box EXCEPT !.fresh = TRUE]
        BY <3>6 DEF CacheStoreT
      <4>2. box' \in [fresh : BOOLEAN, v : SlotState \cup {None}]
        BY <4>1, FreshBox
      <4> QED BY <3>6, <4>2 DEF CacheStoreT
    <3>7. CASE CacheReturn(c) BY <3>7 DEF CacheReturn
    <3>8. CASE ConfirmMarkGood(c) BY <3>8 DEF ConfirmMarkGood, HostMarkGood
    <3>9. CASE ConfirmMarkGoodFails(c) BY <3>9 DEF ConfirmMarkGoodFails
    <3>10. CASE ConfirmClearBox(c) BY <3>10 DEF ConfirmClearBox
    <3>11. CASE ConfirmSet(c) BY <3>11 DEF ConfirmSet
    <3> QED BY <2>14, <3>1, <3>2, <3>3, <3>4, <3>5, <3>6, <3>7, <3>8, <3>9, <3>10, <3>11 DEF CallerStep
  <2>15. CASE ContainerRestart
    BY <2>15 DEF ContainerRestart, ProcessGone, HostLosesClients, WorkerPc, CallerPc, Sources
  <2>16. CASE Reboot
    BY <2>16 DEF Reboot, ProcessGone, HostBoot, WorkerPc, CallerPc, Sources
  <2>17. CASE UNCHANGED vars BY <2>17 DEF vars
  <2> QED
    BY <2>1, <2>2, <2>3, <2>4, <2>5, <2>6, <2>7, <2>8, <2>9, <2>11, <2>12, <2>13,
       <2>14, <2>15, <2>16, <2>17 DEF Next, Served
<1> QED BY <1>1, <1>2, PTL DEF Spec

----------------------------------------------------------------------------
(* The state machine                                                       *)

\* mark-good has run on the slot that is still running.
MarkedBeforeSet ==
  \A c \in Callers : cpc[c] \in {"clear2", "confirmed"} => booted \in good

\* The service installs for a worker that waits for it.
BusyForInstaller == busy \in Workers => wpc[busy] = "install"

\* A progress below 100 beside Unconfirmed(4) comes from an installation that has
\* its outcome still to report.
LowProgressOwned ==
  status = Unconfirmed /\ progress # 100 =>
    \E w \in Workers : wpc[w] \in {"install", "done", "failed"}

StateInv ==
  /\ ErrorExplained
  /\ OutcomeIsLatest
  /\ UploadsBacked
  /\ ConfirmedIsGood
  /\ MarkedBeforeSet
  /\ BusyForInstaller
  /\ LowProgressOwned
  /\ StartedOwned

LEMMA StateInvHolds == Spec => []StateInv
<1> USE PercentagesAssumption, ClientsAssumption
    DEF StateInv, ErrorExplained, OutcomeIsLatest, UploadsBacked, ConfirmedIsGood,
        MarkedBeforeSet, BusyForInstaller, LowProgressOwned, StartedOwned, Workers,
        Inactive, Prepared, Started, Unconfirmed, Confirmed, Error, Finished, NotAvailable
<1>1. Init => StateInv
  BY DEF Init, ProcessInit, HostInit
<1>2. TypeOK /\ StateInv /\ [Next]_vars => StateInv'
  <2> SUFFICES ASSUME TypeOK, StateInv, [Next]_vars PROVE StateInv'
    OBVIOUS
  <2> USE DEF TypeOK
  <2>1. CASE Activate BY <2>1 DEF Activate
  <2>2. CASE GetUploadIds BY <2>2 DEF GetUploadIds, StatusNames
  <2>3. CASE Clear BY <2>3 DEF Clear
  <2>4. CASE Cancel BY <2>4 DEF Cancel
  <2>5. ASSUME NEW w \in Workers, StartUpload(w) PROVE StateInv'
    BY <2>5 DEF StartUpload, StartWith
  <2>6. ASSUME NEW w \in Workers, StartEmbedded(w) PROVE StateInv'
    BY <2>6 DEF StartEmbedded, StartWith
  <2>7. ASSUME NEW w \in Workers, ProgressLine(w) PROVE StateInv'
    BY <2>7 DEF ProgressLine
  <2>8. ASSUME NEW w \in Workers, WorkerStep(w) PROVE StateInv'
    <3> USE DEF WorkerGoes, WorkerEnds
    <3>1. CASE StageCopied(w) BY <3>1 DEF StageCopied
    <3>2. CASE StageFails(w) BY <3>2 DEF StageFails
    <3>3. CASE Spawn(w) BY <3>3 DEF Spawn
    <3>4. CASE SpawnRaises(w) BY <3>4 DEF SpawnRaises
    <3>5. CASE InstallBegins(w) BY <3>5 DEF InstallBegins, HostAccept
    <3>6. CASE InstallRefused(w) BY <3>6 DEF InstallRefused
    <3>7. CASE InstallSucceeds(w) BY <3>7 DEF InstallSucceeds, HostInstalled
    <3>8. CASE InstallFails(w) BY <3>8 DEF InstallFails, HostInstallFailed, Other
    <3>9. CASE ReportDone(w) BY <3>9 DEF ReportDone
    <3>10. CASE ReportFailed(w) BY <3>10 DEF ReportFailed
    <3> QED BY <2>8, <3>1, <3>2, <3>3, <3>4, <3>5, <3>6, <3>7, <3>8, <3>9, <3>10 DEF WorkerStep
  <2>9. CASE OrphanEnds
    BY <2>9 DEF OrphanEnds, HostInstalled, HostInstallFailed, Other
  <2>11. ASSUME NEW c \in Callers, PollSlots(c) \/ FinishCheck(c) \/ ConfirmBegin(c)
         PROVE  StateInv'
    BY <2>11 DEF PollSlots, FinishCheck, ConfirmBegin, CallerGoes
  <2>12. ASSUME NEW c \in Callers, CallerStep(c) PROVE StateInv'
    <3> USE DEF CallerGoes, CallEnds
    <3>1. CASE FinishSet(c) BY <3>1 DEF FinishSet
    <3>2. CASE FinishClearBox(c) BY <3>2 DEF FinishClearBox
    <3>3. CASE CacheCheck(c) BY <3>3 DEF CacheCheck
    <3>4. CASE CacheRun(c) \/ CacheStoreV(c) \/ CacheStoreT(c)
      BY <3>4 DEF CacheRun, CacheStoreV, CacheStoreT
    <3>5. CASE CacheReturn(c) BY <3>5 DEF CacheReturn
    <3>6. CASE ConfirmMarkGood(c) BY <3>6 DEF ConfirmMarkGood, HostMarkGood
    <3>7. CASE ConfirmMarkGoodFails(c) BY <3>7 DEF ConfirmMarkGoodFails
    <3>8. CASE ConfirmClearBox(c) BY <3>8 DEF ConfirmClearBox
    <3>9. CASE ConfirmSet(c) BY <3>9 DEF ConfirmSet
    <3> QED BY <2>12, <3>1, <3>2, <3>3, <3>4, <3>5, <3>6, <3>7, <3>8, <3>9 DEF CallerStep
  <2>13. CASE ContainerRestart
    BY <2>13 DEF ContainerRestart, ProcessGone, HostLosesClients
  <2>14. CASE Reboot
    BY <2>14 DEF Reboot, ProcessGone, HostBoot
  <2>15. CASE UNCHANGED vars BY <2>15 DEF vars
  <2> QED
    BY <2>1, <2>2, <2>3, <2>4, <2>5, <2>6, <2>7, <2>8, <2>9, <2>11, <2>12, <2>13,
       <2>14, <2>15 DEF Next, Served
<1> QED BY <1>1, <1>2, TypeCorrect, PTL DEF Spec

\* A client that reads Error(7) always finds a cause beside it: every step that
\* stores the status stores the cause, and no call takes the cause alone away.
THEOREM ErrorsAreExplained == Spec => []ErrorExplained
<1>1. StateInv => ErrorExplained BY DEF StateInv
<1> QED BY <1>1, StateInvHolds, PTL

\* Unconfirmed(4) and Error(7) are the outcome reported last.
THEOREM OutcomesAreLatest == Spec => []OutcomeIsLatest
<1>1. StateInv => OutcomeIsLatest BY DEF StateInv
<1> QED BY <1>1, StateInvHolds, PTL

\* Every registered upload has its file, and the inactive machine has no upload.
THEOREM UploadsAreBacked == Spec => []UploadsBacked
<1>1. StateInv => UploadsBacked BY DEF StateInv
<1> QED BY <1>1, StateInvHolds, PTL

\* Confirmed(5) is shown only while the running slot is marked good.
THEOREM ConfirmedSlotsAreGood == Spec => []ConfirmedIsGood
<1>1. StateInv => ConfirmedIsGood BY DEF StateInv
<1> QED BY <1>1, StateInvHolds, PTL

\* With every worker at its end, Unconfirmed(4) comes with progress 100.
THEOREM ProgressIsSettled == Spec => []ProgressSettles
<1>1. StateInv => ProgressSettles
  BY DEF StateInv, LowProgressOwned, ProgressSettles
<1> QED BY <1>1, StateInvHolds, PTL

\* Started(3) is shown only while an installation has its outcome to report,
\* where Popen does not raise.
THEOREM StartedIsOwned == Spec => []StartedOwned
<1>1. StateInv => StartedOwned BY DEF StateInv
<1> QED BY <1>1, StateInvHolds, PTL

----------------------------------------------------------------------------
(* confirm                                                                 *)

\* A slot has been pending since the observed confirm calls began.
ObservedArePending ==
  /\ undisturbed \subseteq sincePending
  /\ \A c \in sincePending : Pending /\ c \in confirming

\* While an undisturbed call is under way nothing it can read lets it go on:
\* neither the cached slots nor those a thread is about to store.
NothingConfirmable ==
  undisturbed # {} =>
    /\ ~Confirmable(box.v)
    /\ \A d \in Callers : cpc[d] = "storeV" => ~Confirmable(got[d])

ConfirmInv ==
  /\ ObservedArePending
  /\ NothingConfirmable
  /\ UndisturbedConfirmRefused

\* With a slot pending, what rauc says now is not confirmable.
LEMMA PendingReadRefused ==
  ASSUME TypeOK, Pending, NEW v \in RaucSlots
  PROVE  ~Confirmable(v)
<1>1. SlotsNow.pending = primary
  BY DEF SlotsNow
<1>2. primary # NoSlot
  BY DEF TypeOK, HostTypeOK, Slots, NoSlot
<1>3. ~Confirmable(SlotsNow)
  BY <1>1, <1>2, Zenon DEF Confirmable
<1>4. ~Confirmable(SlotsAbsent)
  BY DEF SlotsAbsent, Confirmable
<1> QED BY <1>3, <1>4 DEF RaucSlots

\* A cleared cache is not confirmable.
LEMMA NoneRefused == ~Confirmable(None)
BY DEF Confirmable

\* confirm is refused while a slot is pending: a call during all of which a slot
\* was pending, and at whose start no other request was between reading `rauc
\* status` and storing it, never reaches mark-good, whatever else runs.
THEOREM ConfirmIsRefused == Spec => []UndisturbedConfirmRefused
<1> USE DEF ConfirmInv, ObservedArePending, NothingConfirmable, UndisturbedConfirmRefused
<1>1. Init => ConfirmInv
  BY DEF Init, ProcessInit
<1>2. TypeOK /\ ConfirmInv /\ [Next]_vars => ConfirmInv'
  <2> SUFFICES ASSUME TypeOK, ConfirmInv, [Next]_vars PROVE ConfirmInv'
    OBVIOUS
  <2>1. CASE UNCHANGED <<callerVars, booted, primary, sincePending, undisturbed>>
    BY <2>1 DEF Pending, Confirmable
  <2>2. ASSUME NEW w \in Workers, InstallSucceeds(w) PROVE ConfirmInv'
    BY <2>2 DEF InstallSucceeds, HostInstalled, Pending, Other, TypeOK, HostTypeOK, Slots, Confirmable
  <2>3. ASSUME StillPending, UNCHANGED callerVars PROVE ConfirmInv'
    BY <2>3 DEF StillPending, Confirmable
  <2>5. ASSUME NEW c \in Callers, PollSlots(c) \/ FinishCheck(c) PROVE ConfirmInv'
    BY <2>5 DEF PollSlots, FinishCheck, CallerGoes, Pending, Confirmable, TypeOK
  <2>6. ASSUME NEW c \in Callers, ConfirmBegin(c) PROVE ConfirmInv'
    BY <2>6, NoneRefused DEF ConfirmBegin, ClearBox, CallerGoes, Pending, Confirmable, TypeOK
  <2>7. ASSUME NEW c \in Callers, CallerStep(c) PROVE ConfirmInv'
    <3> USE DEF CallerGoes, CallEnds, NotObserved, TypeOK
    <3>1. CASE FinishSet(c) \/ CacheCheck(c)
      BY <3>1 DEF FinishSet, CacheCheck, Pending, Confirmable
    <3>2. CASE FinishClearBox(c) \/ ConfirmClearBox(c)
      BY <3>2, NoneRefused DEF FinishClearBox, ConfirmClearBox, ClearBox, Pending, Confirmable
    <3>3. CASE CacheRun(c)
      BY <3>3, PendingReadRefused DEF CacheRun, Pending, Confirmable
    <3>4. CASE CacheStoreV(c)
      BY <3>4 DEF CacheStoreV, Pending, Confirmable
    <3>5. CASE CacheStoreT(c)
      BY <3>5 DEF CacheStoreT, Pending, Confirmable
    <3>6. CASE CacheReturn(c)
      BY <3>6 DEF CacheReturn, Pending, Confirmable
    <3>7. CASE ConfirmMarkGood(c)
      BY <3>7 DEF ConfirmMarkGood, HostMarkGood, Pending, Confirmable
    <3>8. CASE ConfirmMarkGoodFails(c) \/ ConfirmSet(c)
      BY <3>8 DEF ConfirmMarkGoodFails, ConfirmSet, Pending, Confirmable
    <3> QED BY <2>7, <3>1, <3>2, <3>3, <3>4, <3>5, <3>6, <3>7, <3>8 DEF CallerStep
  <2>8. CASE ContainerRestart \/ Reboot
    BY <2>8, NoneRefused DEF ContainerRestart, Reboot, ProcessGone
  <2>9. ASSUME NEW w \in Workers, WorkerStep(w) PROVE ConfirmInv'
    <3>1. CASE StageCopied(w) \/ StageFails(w) \/ Spawn(w) \/ SpawnRaises(w)
               \/ InstallBegins(w) \/ InstallRefused(w) \/ ReportDone(w) \/ ReportFailed(w)
      BY <3>1, <2>1 DEF StageCopied, StageFails, Spawn, SpawnRaises, InstallBegins,
           InstallRefused, ReportDone, ReportFailed, HostAccept
    <3>2. CASE InstallFails(w) BY <3>2, <2>3 DEF InstallFails
    <3> QED BY <2>2, <2>9, <3>1, <3>2 DEF WorkerStep
  <2>10. CASE OrphanEnds BY <2>10, <2>3 DEF OrphanEnds
  <2>11. CASE Activate \/ GetUploadIds \/ Clear \/ Cancel
    BY <2>11, <2>1 DEF Activate, GetUploadIds, Clear, Cancel
  <2>12. ASSUME NEW w \in Workers, StartUpload(w) \/ StartEmbedded(w) \/ ProgressLine(w)
         PROVE  ConfirmInv'
    BY <2>12, <2>1 DEF StartUpload, StartEmbedded, StartWith, ProgressLine
  <2>13. CASE UNCHANGED vars BY <2>13, <2>1 DEF vars
  <2> QED
    BY <2>5, <2>6, <2>7, <2>8, <2>9, <2>10, <2>11, <2>12, <2>13 DEF Next, Served
<1>3. ConfirmInv => UndisturbedConfirmRefused
  OBVIOUS
<1> QED BY <1>1, <1>2, <1>3, TypeCorrect, PTL DEF Spec

----------------------------------------------------------------------------
(* The promise to a client                                                 *)

\* A worker that moves moves its installation alone; one that moves within the
\* same stage of the promise moves nothing.
Installs == [w \in Workers |-> InstallOf(w)]

LEMMA WorkerMoves ==
  ASSUME TypeOK, NEW w \in Workers, NEW pc \in WorkerPc, wpc' = [wpc EXCEPT ![w] = pc]
  PROVE  /\ \A x \in Workers : x # w => InstallOf(x)' = InstallOf(x)
         /\ wpc'[w] = pc
         /\ Installs' = [Installs EXCEPT ![w] = InstallOf(w)']
<1>1. \A x \in Workers : x # w => wpc'[x] = wpc[x]
  BY DEF TypeOK
<1>2. wpc'[w] = pc
  BY DEF TypeOK
<1>3. \A x \in Workers : x # w => InstallOf(x)' = InstallOf(x)
  BY <1>1 DEF InstallOf
<1> QED BY <1>2, <1>3 DEF Installs

\* The update API keeps its promise: every step of every thread is a step of
\* UpdateTrack or changes nothing a client can see.
THEOREM PromiseKept == Spec => TrackImplemented
<1> USE DEF Workers
<1>1. Init => Track!TrackInit
  <2> SUFFICES ASSUME Init PROVE Track!TrackInit
    OBVIOUS
  <2>1. \A w \in Workers : InstallOf(w) = "none"
    BY DEF Init, ProcessInit, InstallOf
  <2>2. busy # Orphan /\ ~Pending /\ booted \in good /\ status = 0
    BY ClientsAssumption DEF Init, ProcessInit, HostInit, Pending, Slots, Inactive
  <2> QED BY <2>1, <2>2 DEF Track!TrackInit
<1>2. TypeOK /\ StateInv /\ [Next]_vars => [Track!TrackNext]_(Track!trackVars)
  <2> SUFFICES ASSUME TypeOK, StateInv, [Next]_vars
               PROVE  Track!TrackNext \/ UNCHANGED Track!trackVars
    BY DEF Track!trackVars
  <2> DEFINE Kept == Track!TrackNext \/ UNCHANGED Track!trackVars
  <2> HIDE DEF Kept
  <2>1. ASSUME UNCHANGED <<status, wpc, busy, primary, booted, good>> PROVE Kept
    BY <2>1 DEF Kept, Track!trackVars, InstallOf, Pending
  <2>2. CASE Activate
    BY <2>2 DEF Activate, Kept, Track!TrackNext, Track!Activated, Track!Reset, Track!trackVars, InstallOf, Pending,
         Inactive, Prepared, NotAvailable, TypeOK
  <2>3. CASE Clear \/ Cancel
    BY <2>3 DEF Clear, Cancel, Kept, Track!TrackNext, Track!Reset, InstallOf, Pending, Inactive
  <2>4. ASSUME NEW w \in Workers, StartUpload(w) \/ StartEmbedded(w) PROVE Kept
    <3>1. PICK s, at : at \in {"stage", "spawn"} /\ StartWith(w, s, at)
      BY <2>4 DEF StartUpload, StartEmbedded
    <3>2. Installs' = [Installs EXCEPT ![w] = "flashing"] /\ Installs[w] = "none"
      BY <3>1, WorkerMoves DEF StartWith, InstallOf, WorkerPc, Installs
    <3>3. Track!Begin(w)
      BY <3>1, <3>2 DEF StartWith, Track!Begin, Track!Goes, Installs, Started, Pending
    <3> QED BY <3>3 DEF Kept, Track!TrackNext
  <2>5. ASSUME NEW w \in Workers, WorkerStep(w) PROVE Kept
    <3> USE DEF WorkerPc, Installs, InstallOf
    <3>1. CASE StageCopied(w) \/ Spawn(w)
      <4>1. Installs' = Installs
        BY <3>1, WorkerMoves DEF StageCopied, Spawn, WorkerGoes, TypeOK
      <4> QED BY <3>1, <4>1 DEF StageCopied, Spawn, Kept, Track!trackVars, Pending
    <3>2. CASE StageFails(w)
      <4>1. Installs' = [Installs EXCEPT ![w] = "none"] /\ Installs[w] = "flashing"
        BY <3>2, WorkerMoves DEF StageFails, WorkerEnds
      <4>2. Track!Resolve(w)
        BY <3>2, <4>1 DEF StageFails, Track!Resolve, Track!Goes, Error, Pending
      <4> QED BY <4>2 DEF Kept, Track!TrackNext
    <3>3. CASE SpawnRaises(w)
      <4>1. Installs' = [Installs EXCEPT ![w] = "none"] /\ Installs[w] = "flashing"
        BY <3>3, WorkerMoves DEF SpawnRaises, WorkerEnds
      <4>2. Track!Vanish(w)
        BY <3>3, <4>1 DEF SpawnRaises, Track!Vanish, Track!Goes, Pending
      <4> QED BY <4>2 DEF Kept, Track!TrackNext
    <3>4. CASE InstallBegins(w)
      BY <3>4, ClientsAssumption DEF InstallBegins, HostAccept, Kept, Track!trackVars, Pending
    <3>5. CASE InstallRefused(w)
      <4>1. Installs' = [Installs EXCEPT ![w] = "broken"] /\ Installs[w] = "flashing"
        BY <3>5, WorkerMoves DEF InstallRefused, WorkerGoes
      <4>2. Track!Break(w)
        BY <3>5, <4>1 DEF InstallRefused, Track!Break, Track!Goes, Pending
      <4> QED BY <4>2 DEF Kept, Track!TrackNext
    <3>6. CASE InstallSucceeds(w)
      <4>1. Installs' = [Installs EXCEPT ![w] = "flashed"] /\ Installs[w] = "flashing"
        BY <3>6, WorkerMoves DEF InstallSucceeds, WorkerGoes
      <4>2. Pending' /\ busy # Orphan /\ busy' # Orphan
        BY <3>6, ClientsAssumption DEF InstallSucceeds, HostInstalled, Pending, Other, TypeOK, HostTypeOK, Slots
      <4>3. booted' = booted /\ (booted \in good <=> booted' \in good')
        BY <3>6 DEF InstallSucceeds, HostInstalled, Other, TypeOK, HostTypeOK, Slots
      <4>4. Track!Flash(w)
        BY <3>6, <4>1, <4>2, <4>3 DEF InstallSucceeds, Track!Flash, Track!Goes
      <4> QED BY <4>4 DEF Kept, Track!TrackNext
    <3>7. CASE InstallFails(w)
      <4>1. Installs' = [Installs EXCEPT ![w] = "broken"] /\ Installs[w] = "flashing"
        BY <3>7, WorkerMoves DEF InstallFails, WorkerGoes
      <4>2. Pending' \in {Pending, FALSE} /\ busy # Orphan /\ busy' # Orphan
        BY <3>7, ClientsAssumption DEF InstallFails, HostInstallFailed, Pending
      <4>3. booted' = booted /\ (booted \in good <=> booted' \in good')
        BY <3>7 DEF InstallFails, HostInstallFailed, Other, TypeOK, HostTypeOK, Slots
      <4>4. UNCHANGED <<status, booted \in good, busy = Orphan>>
        BY <3>7, <4>2, <4>3 DEF InstallFails
      <4>5. Track!Break(w)
        BY <4>1, <4>2, <4>4, Zenon DEF Track!Break, Track!Goes, Installs
      <4> QED BY <4>5 DEF Kept, Track!TrackNext
    <3>8. CASE ReportDone(w) \/ ReportFailed(w)
      <4>1. Installs' = [Installs EXCEPT ![w] = "none"]
        BY <3>8, WorkerMoves DEF ReportDone, ReportFailed, WorkerEnds
      <4>2. \/ Installs[w] = "flashed" /\ status' = 4
            \/ Installs[w] = "broken" /\ status' = 7
        BY <3>8 DEF ReportDone, ReportFailed, Unconfirmed, Error
      <4>3. Track!Resolve(w)
        BY <3>8, <4>1, <4>2 DEF ReportDone, ReportFailed, Track!Resolve, Track!Goes, Pending
      <4> QED BY <4>3 DEF Kept, Track!TrackNext
    <3> QED BY <2>5, <3>1, <3>2, <3>3, <3>4, <3>5, <3>6, <3>7, <3>8 DEF WorkerStep
  <2>6. CASE OrphanEnds
    <3>1. busy = Orphan /\ busy' # Orphan
      BY <2>6, ClientsAssumption DEF OrphanEnds, HostInstalled, HostInstallFailed
    <3>2. booted' = booted /\ (booted \in good <=> booted' \in good')
      BY <2>6 DEF OrphanEnds, HostInstalled, HostInstallFailed, Other, TypeOK, HostTypeOK, Slots
    <3>3. Pending' \in {TRUE, FALSE}
      BY DEF Pending
    <3>4. UNCHANGED <<status, Installs, booted \in good>>
      BY <2>6, <3>2 DEF OrphanEnds, Installs, InstallOf
    <3>5. Track!UnattendedEnds
      BY <3>1, <3>3, <3>4, Zenon DEF Track!UnattendedEnds, Installs
    <3> QED BY <3>5 DEF Kept, Track!TrackNext
  <2>7. ASSUME NEW c \in Callers, CallerStep(c) PROVE Kept
    <3>1. CASE FinishSet(c)
      BY <3>1 DEF FinishSet, Kept, Track!TrackNext, Track!FinishCalled, Finished, InstallOf, Pending
    <3>2. CASE ConfirmMarkGood(c)
      <4>1. Track!MarkedGood
        BY <3>2 DEF ConfirmMarkGood, HostMarkGood, Track!MarkedGood, InstallOf, Pending
      <4> QED BY <4>1 DEF Kept, Track!TrackNext
    <3>3. CASE ConfirmSet(c)
      BY <3>3 DEF ConfirmSet, StateInv, MarkedBeforeSet, Kept, Track!TrackNext,
           Track!ConfirmAnswered, Confirmed, InstallOf, Pending
    <3>4. CASE FinishClearBox(c) \/ CacheCheck(c) \/ CacheRun(c) \/ CacheStoreV(c)
               \/ CacheStoreT(c) \/ CacheReturn(c) \/ ConfirmMarkGoodFails(c) \/ ConfirmClearBox(c)
      BY <3>4, <2>1 DEF FinishClearBox, CacheCheck, CacheRun, CacheStoreV, CacheStoreT,
           CacheReturn, ConfirmMarkGoodFails, ConfirmClearBox
    <3> QED BY <2>7, <3>1, <3>2, <3>3, <3>4 DEF CallerStep
  <2>8. CASE ContainerRestart
    <3>1. Installs' = [w \in Workers |-> "none"] /\ status' = 0
      BY <2>8 DEF ContainerRestart, ProcessGone, Installs, InstallOf, Inactive
    <3>2. busy' = Orphan <=> busy = Orphan \/ busy \in Workers
      BY ClientsAssumption, <2>8 DEF ContainerRestart, HostLosesClients
    <3>3. busy \in Workers => Installs[busy] = "flashing"
      BY DEF StateInv, BusyForInstaller, Installs, InstallOf
    <3>4. Track!Restarted
      BY <2>8, <3>1, <3>2, <3>3 DEF ContainerRestart, HostLosesClients, Track!Restarted, Installs, Pending
    <3> QED BY <3>4 DEF Kept, Track!TrackNext
  <2>9. CASE Reboot
    <3>1. Installs' = [w \in Workers |-> "none"] /\ status' = 0
      BY <2>9 DEF Reboot, ProcessGone, Installs, InstallOf, Inactive
    <3>2. busy' # Orphan /\ ~Pending'
      BY ClientsAssumption, <2>9 DEF Reboot, HostBoot, Pending
    <3>3. Track!Rebooted
      BY <3>1, <3>2 DEF Track!Rebooted, Installs
    <3> QED BY <3>3 DEF Kept, Track!TrackNext
  <2>10. CASE GetUploadIds
    BY <2>10, <2>1 DEF Kept, GetUploadIds
  <2>11. ASSUME NEW w \in Workers, ProgressLine(w) PROVE Kept
    BY <2>11, <2>1 DEF ProgressLine
  <2>12. ASSUME NEW c \in Callers, PollSlots(c) \/ FinishCheck(c) \/ ConfirmBegin(c)
         PROVE  Kept
    BY <2>12, <2>1 DEF PollSlots, FinishCheck, ConfirmBegin
  <2>13. CASE UNCHANGED vars
    BY <2>13, <2>1 DEF Kept, vars
  <2>14. Kept
    BY <2>2, <2>3, <2>4, <2>5, <2>6, <2>7, <2>8, <2>9, <2>10, <2>11, <2>12, <2>13 DEF Kept, Next, Served
  <2> QED BY <2>14 DEF Kept
<1> QED BY <1>1, <1>2, TypeCorrect, StateInvHolds, PTL DEF Spec, TrackImplemented, Track!TrackSafe
=============================================================================
