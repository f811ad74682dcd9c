-------------------------------- MODULE Rauc --------------------------------
(***************************************************************************)
(* The host side of an update, as the container sees it: the two rootfs    *)
(* slots of the A/B layout, the slot the bootloader tries next (primary),  *)
(* which slots are marked good, and the single installation the host's     *)
(* rauc.service can run.  None of this is code of the repository: it is    *)
(* modelled from how providers/firmwareupdate.py and entrypoint.sh use     *)
(* rauc, and from the `rauc status` documents in tests/test_activation.py. *)
(***************************************************************************)

CONSTANTS
  Clients,      \* the threads that can run `rauc install`
  Nobody        \* no thread: the service is free

\* An installation goes on in the host when the client that asked for it died.
Orphan == "orphan"

ASSUME ClientsAssumption ==
  /\ Nobody \notin Clients
  /\ Orphan \notin Clients
  /\ Nobody # Orphan

VARIABLES
  booted,       \* the slot that is running
  primary,      \* the slot the bootloader tries at the next boot
  good,         \* the slots marked good
  busy          \* who the service is installing for

hostVars == <<booted, primary, good, busy>>

Slots == {"rootfs.1", "rootfs.2"}
Other(s) == IF s = "rootfs.1" THEN "rootfs.2" ELSE "rootfs.1"

Busy == Clients \cup {Nobody, Orphan}

HostTypeOK ==
  /\ booted \in Slots
  /\ primary \in Slots
  /\ good \in SUBSET Slots
  /\ busy \in Busy

HostInit ==
  /\ booted = "rootfs.1"
  /\ primary = booted
  /\ good = Slots
  /\ busy = Nobody

\* A slot other than the running one is staged for the next boot.
Pending == primary # booted

----------------------------------------------------------------------------

\* The service takes an installation only while it has none.
HostAccept(c) ==
  /\ busy = Nobody
  /\ busy' = c
  /\ UNCHANGED <<booted, primary, good>>

\* A successful installation wrote the inactive slot and made it primary; rauc
\* reports both slots good then (the STAGED document of test_activation.py).
HostInstalled ==
  /\ busy' = Nobody
  /\ primary' = Other(booted)
  /\ good' = good \cup {Other(booted)}
  /\ UNCHANGED booted

\* A failed one may have touched the inactive slot before it gave up: then that
\* slot is no longer bootable and the bootloader stays with the running one.
HostInstallFailed ==
  /\ busy' = Nobody
  /\ \/ UNCHANGED <<primary, good>>
     \/ primary' = booted /\ good' = good \ {Other(booted)}
  /\ UNCHANGED booted

\* `rauc status mark-good booted`
HostMarkGood ==
  /\ good' = good \cup {booted}
  /\ UNCHANGED <<booted, primary, busy>>

\* The container went away: its installation, if any, stays with the service.
HostLosesClients ==
  /\ busy' = IF busy \in Clients THEN Orphan ELSE busy
  /\ UNCHANGED <<booted, primary, good>>

\* The device restarts.  It boots the primary slot, or falls back to the old one
\* when the staged slot does not come up; a slot on trial may be reported bad until
\* it is confirmed (REBOOTED in test_activation.py).
HostBoot ==
  /\ booted' \in {primary, booted}
  /\ primary' = booted'
  /\ good' \in {good} \cup (IF Pending THEN {good \ {primary}} ELSE {})
  /\ busy' = Nobody
=============================================================================
