------------------------------ MODULE OneShot ------------------------------
(***************************************************************************)
(* The one-shot container (entrypoint.sh with MODE other than "server"):   *)
(* it stages the bundle of its image in STAGE_DIR, verifies it, installs   *)
(* it and prints a summary.  It shares the device with further runs of     *)
(* itself, all of which stage under one name, and with the REST server,    *)
(* which keeps its uploads in the same directory and installs through the  *)
(* same host service (module Rauc).                                        *)
(*                                                                         *)
(* Every command of the script that reads or changes shared state is an    *)
(* action.  DRY_RUN and REBOOT are read once each, so they are choices at  *)
(* the line that reads them.                                               *)
(***************************************************************************)
EXTENDS Rauc

CONSTANTS
  Runs,         \* the one-shot containers
  Server,       \* the REST server, another client of the service
  Bundles,      \* whole bundle files
  Signed,       \* those the keyring verifies
  Embedded      \* Embedded[r]: the bundle in the image of r

NoFile == "no file"     \* nothing under the name
Torn == "torn"          \* not the bytes of any bundle
NoSlot == "no slot"     \* rauc status gave no line for it

ASSUME OneShotAssumption ==
  /\ Clients = Runs \cup {Server}
  /\ Server \notin Runs
  /\ Signed \subseteq Bundles
  /\ Embedded \in [Runs -> Bundles]
  /\ NoFile \notin Bundles
  /\ Torn \notin Bundles
  /\ NoSlot \notin Slots

VARIABLES
  pc,           \* pc[r]: the command r is about to run; "off" when it is not running
  from, to,     \* FROM_SLOT and TO_SLOT
  got,          \* the bundle that r's installation wrote, NoFile for none
  staged,       \* what $STAGE_DIR/bundle.raucb holds
  copy,         \* what became of the file that r's cp has open
  dir,          \* STAGE_DIR exists
  uploads,      \* it holds files of the server
  source,       \* what the service reads for the installation of a run
  linked,       \* ... and that is still the file under the name
  alone,        \* history: runs that had the device for themselves so far
  fresh,        \* history: those of them that found no slot pending when they began
  leftover      \* history: the staged file belongs to a run that was cut off

runVars  == <<pc, from, to, got>>
fileVars == <<staged, copy, source, linked>>
dirVars  == <<dir, uploads>>
history  == <<alone, fresh, leftover>>
vars     == <<hostVars, runVars, fileVars, dirVars, history>>

\* A run between the creation of the staged file and its removal.
Staging == {"copying", "verify", "decide", "install", "installing", "report",
            "remove", "dry_remove"}
Steps == Staging \cup {"off", "check", "from", "prepare", "copy", "rmdir",
                       "dry_rmdir", "complete", "reboot"}
Active == {r \in Runs : pc[r] # "off"}

TypeOK ==
  /\ HostTypeOK
  /\ pc \in [Runs -> Steps]
  /\ from \in [Runs -> Slots \cup {NoSlot}]
  /\ to \in [Runs -> Slots \cup {NoSlot}]
  /\ got \in [Runs -> Bundles \cup {NoFile}]
  /\ staged \in Bundles \cup {NoFile, Torn}
  /\ copy \in [Runs -> {"none", "sole", "mixed", "unlinked"}]
  /\ dir \in BOOLEAN
  /\ uploads \in BOOLEAN
  /\ source \in Bundles \cup {NoFile, Torn}
  /\ linked \in BOOLEAN
  /\ alone \in SUBSET Runs
  /\ fresh \in SUBSET Runs
  /\ leftover \in BOOLEAN

Init ==
  /\ HostInit
  /\ pc = [r \in Runs |-> "off"]
  /\ from = [r \in Runs |-> NoSlot]
  /\ to = [r \in Runs |-> NoSlot]
  /\ got = [r \in Runs |-> NoFile]
  /\ staged = NoFile
  /\ copy = [r \in Runs |-> "none"]
  /\ dir = FALSE /\ uploads = FALSE
  /\ source = NoFile /\ linked = FALSE
  /\ alone = {} /\ fresh = {} /\ leftover = FALSE

----------------------------------------------------------------------------
(* What the actions share.                                                 *)

At(r, here) == pc[r] = here
Goto(r, there) == pc' = [pc EXCEPT ![r] = there]

\* The process ends; nothing of it is left but what is on the host.
Ends(r) ==
  /\ pc' = [pc EXCEPT ![r] = "off"]
  /\ from' = [from EXCEPT ![r] = NoSlot]
  /\ to' = [to EXCEPT ![r] = NoSlot]
  /\ got' = [got EXCEPT ![r] = NoFile]
  /\ alone' = alone \ {r}
  /\ fresh' = fresh \ {r}

\* rm -f "$STAGED": whoever has the file open keeps it without a name.
RemovesStaged ==
  /\ staged' = NoFile
  /\ copy' = [r \in Runs |-> IF copy[r] = "none" THEN "none" ELSE "unlinked"]
  /\ linked' = FALSE
  /\ leftover' = FALSE
  /\ UNCHANGED source

\* A mutant of the next one: exit 1 alone.
FatalKeeping(r) ==
  /\ Ends(r)
  /\ UNCHANGED <<hostVars, fileVars, dirVars, leftover>>

\* fatal: remove the staged file, whoever's it is, and exit 1.
Fatal(r) ==
  /\ Ends(r)
  /\ RemovesStaged
  /\ UNCHANGED <<hostVars, dirVars>>

\* The process ends where it stands: set -e at a command without fatal, or a kill.
CutOff(r) ==
  /\ Ends(r)
  /\ copy' = [copy EXCEPT ![r] = "none"]
  /\ leftover' = (leftover \/ (pc[r] \in Staging /\ staged # NoFile))
  /\ UNCHANGED <<staged, dirVars>>

Dies(r) ==
  /\ CutOff(r)
  /\ UNCHANGED <<hostVars, source, linked>>

----------------------------------------------------------------------------
(* Mutants: definitions below and above with mistakes the properties catch. *)

\* cp -n: a file that is there already is not replaced.
CopyBeginKeeping(r) ==
  /\ At(r, "copy") /\ dir
  /\ \/ /\ staged # NoFile
        /\ Goto(r, "verify")
        /\ UNCHANGED <<staged, copy>>
     \/ /\ staged = NoFile
        /\ Goto(r, "copying")
        /\ staged' = Torn
        /\ copy' = [copy EXCEPT ![r] = "sole"]
  /\ UNCHANGED <<hostVars, from, to, got, source, linked, dirVars, history>>

\* The summary names the slot that was written to, whatever came of it.
ReadToInactive(r) ==
  /\ At(r, "report")
  /\ Goto(r, "remove")
  /\ to' = [to EXCEPT ![r] = Other(booted)]
  /\ UNCHANGED <<hostVars, from, got, fileVars, dirVars, history>>

\* The default of the summary line is put into the variable.
ReadToDefault(r) ==
  /\ At(r, "report")
  /\ Goto(r, "remove")
  /\ to' \in {[to EXCEPT ![r] = s] : s \in {primary, "inactive slot"}}
  /\ UNCHANGED <<hostVars, from, got, fileVars, dirVars, history>>

\* rm -rf "$STAGE_DIR"
RemoveDirForced(r) ==
  /\ \/ /\ At(r, "rmdir") /\ Goto(r, "complete")
        /\ UNCHANGED <<from, to, got, history>>
     \/ At(r, "dry_rmdir") /\ Ends(r) /\ UNCHANGED leftover
  /\ dir' = FALSE /\ uploads' = FALSE
  /\ UNCHANGED <<hostVars, fileVars>>

----------------------------------------------------------------------------
(* The commands, in the order of the script.                               *)

Start(r) ==
  /\ At(r, "off")
  /\ Goto(r, "check")
  /\ alone' = IF Active = {} /\ busy = Nobody THEN {r} ELSE {}
  /\ fresh' = IF Pending THEN {} ELSE alone'
  /\ UNCHANGED <<hostVars, from, to, got, fileVars, dirVars, leftover>>

\* rauc status >/dev/null || fatal
Check(r) ==
  /\ At(r, "check")
  /\ \/ /\ Goto(r, "from")
        /\ UNCHANGED <<hostVars, from, to, got, fileVars, dirVars, history>>
     \/ Fatal(r)

\* booted_slot: the status of the pipeline is that of sed.
ReadFrom(r) ==
  /\ At(r, "from")
  /\ Goto(r, "prepare")
  /\ from' \in {[from EXCEPT ![r] = s] : s \in {booted, NoSlot}}
  /\ UNCHANGED <<hostVars, to, got, fileVars, dirVars, history>>

\* The bundle or the keyring is missing; or mkdir -p, which can fail.
Prepare(r) ==
  /\ At(r, "prepare")
  /\ \/ Fatal(r)
     \/ Dies(r)
     \/ /\ Goto(r, "copy")
        /\ dir' = TRUE
        /\ UNCHANGED <<hostVars, from, to, got, fileVars, uploads, history>>

\* cp opens and truncates the file under the name, also one that another run is
\* still writing or the service is reading.
CopyBegin(r) ==
  /\ At(r, "copy") /\ dir
  /\ Goto(r, "copying")
  /\ staged' = Torn
  /\ copy' = [x \in Runs |->
       IF x = r
       THEN IF \E y \in Runs : copy[y] \in {"sole", "mixed"} THEN "mixed" ELSE "sole"
       ELSE IF copy[x] = "sole" THEN "mixed" ELSE copy[x]]
  /\ source' = IF linked THEN Torn ELSE source
  /\ UNCHANGED <<hostVars, from, to, got, linked, dirVars, history>>

\* What the file holds at the end of a cp that was not alone with it is not sure.
Copied(r) ==
  IF copy[r] = "sole" THEN {Embedded[r]}
  ELSE IF copy[r] = "mixed" THEN {Embedded[r], Torn}
  ELSE {staged}

CopyEnd(r) ==
  /\ At(r, "copying")
  /\ Goto(r, "verify")
  /\ staged' \in Copied(r)
  /\ source' = IF linked /\ staged' # source THEN Torn ELSE source
  /\ copy' = [copy EXCEPT ![r] = "none"]
  /\ UNCHANGED <<hostVars, from, to, got, linked, dirVars, history>>

\* No directory, no space: set -e ends the script without fatal.
CopyFails(r) ==
  /\ pc[r] \in {"copy", "copying"}
  /\ Dies(r)

\* INFO="$(rauc info ...)" || fatal
Verify(r) ==
  /\ At(r, "verify")
  /\ \/ /\ staged \in Signed
        /\ Goto(r, "decide")
        /\ UNCHANGED <<hostVars, from, to, got, fileVars, dirVars, history>>
     \/ staged \notin Signed /\ Fatal(r)

\* DRY_RUN
Decide(r) ==
  /\ At(r, "decide")
  /\ \/ Goto(r, "dry_remove")
     \/ Goto(r, "install")
  /\ UNCHANGED <<hostVars, from, to, got, fileVars, dirVars, history>>

\* rauc install: the free service opens the staged file ...
InstallAccepted(r) ==
  /\ At(r, "install") /\ staged # NoFile
  /\ HostAccept(r)
  /\ Goto(r, "installing")
  /\ source' = staged
  /\ linked' = TRUE
  /\ UNCHANGED <<from, to, got, staged, copy, dirVars, history>>

\* ... or rauc install fails at once, being busy one reason.  Nothing after the
\* pipe sees it: the status of the pipeline is that of sed.
InstallRefused(r) ==
  /\ At(r, "install")
  /\ Goto(r, "report")
  /\ UNCHANGED <<hostVars, from, to, got, fileVars, dirVars, history>>

\* The installation ends; only a whole, signed bundle can be written.  A failure
\* goes on to the same line as a success.
InstallEnds(r) ==
  /\ At(r, "installing")
  /\ Goto(r, "report")
  /\ \/ HostInstalled /\ source \in Signed /\ got' = [got EXCEPT ![r] = source]
     \/ HostInstallFailed /\ UNCHANGED got
  /\ source' = NoFile
  /\ linked' = FALSE
  /\ UNCHANGED <<from, to, staged, copy, dirVars, history>>

\* active_slot: what the host activated, whoever installed it.
ReadTo(r) ==
  /\ At(r, "report")
  /\ Goto(r, "remove")
  /\ to' \in {[to EXCEPT ![r] = s] : s \in {primary, NoSlot}}
  /\ UNCHANGED <<hostVars, from, got, fileVars, dirVars, history>>

Remove(r) ==
  /\ \/ At(r, "remove") /\ Goto(r, "rmdir")
     \/ At(r, "dry_remove") /\ Goto(r, "dry_rmdir")
  /\ RemovesStaged
  /\ UNCHANGED <<hostVars, from, to, got, dirVars, alone, fresh>>

\* rmdir takes an empty directory only.
DirAfterRmdir == dir /\ (staged # NoFile \/ uploads)

RemoveDir(r) ==
  /\ \/ /\ At(r, "rmdir") /\ Goto(r, "complete")
        /\ UNCHANGED <<from, to, got, history>>
     \/ At(r, "dry_rmdir") /\ Ends(r) /\ UNCHANGED leftover
  /\ dir' = DirAfterRmdir
  /\ UNCHANGED <<hostVars, fileVars, uploads>>

\* "Update complete" is printed; REBOOT decides whether that was all.
Complete(r) ==
  /\ At(r, "complete")
  /\ \/ Ends(r) /\ UNCHANGED leftover
     \/ Goto(r, "reboot") /\ UNCHANGED <<from, to, got, history>>
  /\ UNCHANGED <<hostVars, fileVars, dirVars>>

RebootRefused(r) ==
  /\ At(r, "reboot")
  /\ Fatal(r)

----------------------------------------------------------------------------
(* The host and the server around the runs.                                *)

\* docker stop, or the out-of-memory killer: the service goes on without r.
Kill(r) ==
  /\ pc[r] # "off"
  /\ CutOff(r)
  /\ busy' = IF busy = r THEN Orphan ELSE busy
  /\ source' = IF busy = r THEN NoFile ELSE source
  /\ linked' = (linked /\ busy # r)
  /\ UNCHANGED <<booted, primary, good>>

\* logind restarts the device for a run (REBOOT), the server or an operator.
Boot ==
  /\ HostBoot
  /\ pc' = [r \in Runs |-> "off"]
  /\ from' = [r \in Runs |-> NoSlot]
  /\ to' = [r \in Runs |-> NoSlot]
  /\ got' = [r \in Runs |-> NoFile]
  /\ copy' = [r \in Runs |-> "none"]
  /\ source' = NoFile /\ linked' = FALSE
  /\ alone' = {} /\ fresh' = {}
  /\ leftover' = (staged # NoFile)
  /\ UNCHANGED <<staged, dir, uploads>>

ServerInstalls ==
  /\ HostAccept(Server)
  /\ alone' = {} /\ fresh' = {}
  /\ UNCHANGED <<runVars, fileVars, dirVars, leftover>>

\* An installation of the server, or of a client that died, ends.
ServiceEnds ==
  /\ busy \in {Server, Orphan}
  /\ \/ HostInstalled
     \/ HostInstallFailed
  /\ UNCHANGED <<runVars, fileVars, dirVars, history>>

\* activate makes the directory; getuploadids creates a file in it.
ServerActivates ==
  /\ dir' = TRUE
  /\ UNCHANGED <<hostVars, runVars, fileVars, uploads, history>>

ServerUploads ==
  /\ dir
  /\ uploads' = TRUE
  /\ UNCHANGED <<hostVars, runVars, fileVars, dir, history>>

ServerClears ==
  /\ uploads' = FALSE
  /\ UNCHANGED <<hostVars, runVars, fileVars, dir, history>>

Run(r) ==
  \/ Check(r) \/ ReadFrom(r) \/ Prepare(r) \/ CopyBegin(r) \/ CopyEnd(r)
  \/ CopyFails(r) \/ Verify(r) \/ Decide(r) \/ InstallAccepted(r)
  \/ InstallRefused(r) \/ InstallEnds(r) \/ ReadTo(r) \/ Remove(r)
  \/ RemoveDir(r) \/ Complete(r) \/ RebootRefused(r)

Environment ==
  \/ Boot \/ ServerInstalls \/ ServiceEnds
  \/ ServerActivates \/ ServerUploads \/ ServerClears

Next ==
  \/ \E r \in Runs : Start(r) \/ Run(r) \/ Kill(r)
  \/ Environment

Spec == Init /\ [][Next]_vars

----------------------------------------------------------------------------
(* Properties.                                                             *)

\* The staged file does not outlive its run (README.md:392-393: "the staged file is
\* cleaned up"), unless a run was cut off: killed, caught by a restart, or ended
\* by set -e at a mkdir or cp that failed.
NothingLeftBehind ==
  staged # NoFile => leftover \/ \E r \in Runs : pc[r] \in Staging

\* The tidying up of a one-shot never takes what the server keeps in the same
\* directory: no step of a run removes an upload or the directory around it.
ServerFilesKept == [][uploads /\ ~(uploads' /\ dir') => UNCHANGED pc]_vars

\* A run that had the device for itself installs the bundle of its own image and
\* no other, whatever an earlier run left under the name.
InstalledIsCarried ==
  \A r \in alone : got[r] # NoFile => got[r] = Embedded[r]

\* The summary tells the truth to who reads "was booted" and "next boot" rather than
\* "Update complete": a run that had the device for itself names the slot
\* that will boot, and one that found nothing pending and names another slot than
\* it ran from has written its bundle there.
ReportIsTrue ==
  \A r \in alone :
    to[r] # NoSlot =>
      /\ to[r] = primary
      /\ r \in fresh /\ from[r] # NoSlot /\ to[r] # from[r] =>
           got[r] = Embedded[r] /\ to[r] # booted

\* entrypoint.sh:74 `|| fatal "install failed"` and README.md:392 "Any failure is
\* `FATAL:`": a run that prints Update complete has installed its bundle.
CompleteMeansInstalled ==
  \A r \in Runs : pc[r] = "complete" => got[r] # NoFile
=============================================================================
