---------------------------- MODULE UpdateTrack -----------------------------
(***************************************************************************)
(* What the update API promises a client, without threads, locks, caches   *)
(* or files: every installation it started ends in exactly one outcome     *)
(* (in none only where rauc may not start),                                *)
(* Unconfirmed(4) appears only when an installation flashed the inactive   *)
(* slot, Error(7) only when one did not, a call never makes a slot pending *)
(* and Confirmed(5) appears only on a running slot that is marked good.    *)
(* FirmwareUpdate implements this specification.                           *)
(***************************************************************************)
EXTENDS Naturals

CONSTANTS
  Installs,     \* the installations that can be alive at a time
  MayVanish     \* rauc may not even start, and nobody be told

VARIABLES
  status,       \* 0-0-firmwareupdate-status
  install,      \* per installation: none, flashing, flashed or broken
  unattended,   \* rauc still works for a container that is gone
  pending,      \* a slot is staged for the next boot
  confirmed     \* the running slot is marked good

trackVars == <<status, install, unattended, pending, confirmed>>

TrackInit ==
  /\ status = 0
  /\ install = [i \in Installs |-> "none"]
  /\ unattended = FALSE
  /\ pending = FALSE
  /\ confirmed = TRUE

\* The calls: activate, clear or cancel, finish, and the two halves of confirm.
Activated == status = 0 /\ status' = 2 /\ UNCHANGED <<install, unattended, pending, confirmed>>
Reset == status' = 0 /\ UNCHANGED <<install, unattended, pending, confirmed>>
FinishCalled == status' = 8 /\ UNCHANGED <<install, unattended, pending, confirmed>>
MarkedGood == confirmed' = TRUE /\ UNCHANGED <<status, install, unattended, pending>>
ConfirmAnswered ==
  /\ confirmed
  /\ status' = 5
  /\ UNCHANGED <<install, unattended, pending, confirmed>>

Goes(i, from, to) == install[i] = from /\ install' = [install EXCEPT ![i] = to]

Begin(i) ==
  /\ status >= 2
  /\ Goes(i, "none", "flashing")
  /\ status' = 3
  /\ UNCHANGED <<unattended, pending, confirmed>>

Flash(i) ==
  /\ Goes(i, "flashing", "flashed")
  /\ pending' = TRUE
  /\ UNCHANGED <<status, unattended, confirmed>>

Break(i) ==
  /\ Goes(i, "flashing", "broken")
  /\ pending' \in {pending, FALSE}
  /\ UNCHANGED <<status, unattended, confirmed>>

\* The outcome is reported once; a bundle that could not be staged broke nothing.
Resolve(i) ==
  /\ \/ Goes(i, "flashed", "none") /\ status' = 4
     \/ Goes(i, "broken", "none") /\ status' = 7
     \/ Goes(i, "flashing", "none") /\ status' = 7
  /\ UNCHANGED <<unattended, pending, confirmed>>

\* An installation that never began can leave Started(3) behind it, for good.
Vanish(i) ==
  /\ MayVanish
  /\ Goes(i, "flashing", "none")
  /\ UNCHANGED <<status, unattended, pending, confirmed>>

UnattendedEnds ==
  /\ unattended
  /\ unattended' = FALSE
  /\ pending' \in {TRUE, FALSE}
  /\ UNCHANGED <<status, install, confirmed>>

\* The activation state outlives the container; the update sequence does not.
Restarted ==
  /\ status' = 0
  /\ install' = [i \in Installs |-> "none"]
  /\ unattended' \in {unattended} \cup {TRUE : i \in {j \in Installs : install[j] = "flashing"}}
  /\ UNCHANGED <<pending, confirmed>>

Rebooted ==
  /\ status' = 0
  /\ install' = [i \in Installs |-> "none"]
  /\ unattended' = FALSE
  /\ pending' = FALSE
  /\ confirmed' \in BOOLEAN

TrackNext ==
  \/ Activated \/ Reset \/ FinishCalled \/ MarkedGood \/ ConfirmAnswered
  \/ \E i \in Installs : Begin(i) \/ Flash(i) \/ Break(i) \/ Resolve(i) \/ Vanish(i)
  \/ UnattendedEnds \/ Restarted \/ Rebooted

TrackSafe == TrackInit /\ [][TrackNext]_trackVars

\* Every installation comes to its outcome.
TrackSpec ==
  TrackSafe /\ \A i \in Installs : WF_trackVars(Flash(i) \/ Break(i) \/ Resolve(i) \/ Vanish(i))
=============================================================================
