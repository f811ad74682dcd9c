---------------------------- MODULE IpForwarding ----------------------------
(***************************************************************************)
(* providers/sysctl.py: IP forwarding is written as a drop-in file, through*)
(* a .tmp that all requests share, and put into effect by a restart of the *)
(* host's systemd-sysctl.service.  RestartUnit only queues the job: the    *)
(* unit reads the drop-in when it runs, and it runs at every boot.         *)
(*                                                                         *)
(* Files are those of ParameterStore, with one difference: the texts for   *)
(* `enabled' and `disabled' have the same length, so that a complete write *)
(* leaves a whole file whatever was there.                                 *)
(***************************************************************************)
CONSTANTS
  Callers       \* request threads

VARIABLES
  dropin, tmp,  \* 99-wda-ipforwarding.conf, and its .tmp, which systemd does not read
  kernel,       \* net.ipv4.ip_forward
  queued,       \* a restart of the unit is queued
  fd            \* the file a thread has open

sysctlVars == <<dropin, tmp, kernel, queued, fd>>

Absent == [form |-> "absent"]
Empty == [form |-> "empty"]
Torn == [form |-> "torn"]
Whole(b) == [form |-> "whole", value |-> b]
File == {Absent, Empty, Torn, Whole(TRUE), Whole(FALSE)}

SysctlTypeOK ==
  /\ dropin \in File /\ tmp \in File
  /\ kernel \in BOOLEAN
  /\ queued \in BOOLEAN
  /\ fd \in [Callers -> {"none", "tmp", "dropin", "gone"}]

SysctlInit ==
  /\ dropin = Absent /\ tmp = Absent
  /\ kernel \in BOOLEAN
  /\ queued = FALSE
  /\ fd = [c \in Callers |-> "none"]

----------------------------------------------------------------------------
(* set_ip_forwarding, up to the restart of the unit                        *)

Content(c) == IF fd[c] = "dropin" THEN dropin ELSE tmp

Writes(c, f) ==
  /\ tmp' = IF fd[c] = "tmp" THEN f ELSE tmp
  /\ dropin' = IF fd[c] = "dropin" THEN f ELSE dropin
  /\ fd' = [fd EXCEPT ![c] = "none"]
  /\ UNCHANGED <<kernel, queued>>

SysctlOpen(c) ==
  /\ tmp' = Empty
  /\ fd' = [fd EXCEPT ![c] = "tmp"]
  /\ UNCHANGED <<dropin, kernel, queued>>

SysctlDump(c, b) == Writes(c, Whole(b))

SysctlDumpFails(c) == \E f \in {Torn, Content(c)} : Writes(c, f)

\* A thread that has the .tmp open has the drop-in open now.
SysctlReplace ==
  /\ tmp # Absent
  /\ dropin' = tmp
  /\ tmp' = Absent
  /\ fd' = [x \in Callers |-> IF fd[x] = "none" THEN "none" ELSE
              IF fd[x] = "tmp" THEN "dropin" ELSE "gone"]
  /\ UNCHANGED <<kernel, queued>>

SysctlReads(b) == kernel = b

SysctlRestart ==
  /\ queued' = TRUE
  /\ UNCHANGED <<dropin, tmp, kernel, fd>>

----------------------------------------------------------------------------
(* The host                                                                *)

\* What the unit makes of the drop-in where the value was k.
AsIn(f, k) ==
  IF f.form = "whole" THEN {f.value} ELSE IF f = Torn THEN BOOLEAN ELSE {k}

SysctlUnitRuns ==
  /\ queued
  /\ queued' = FALSE
  /\ kernel' \in AsIn(dropin, kernel)
  /\ UNCHANGED <<dropin, tmp, fd>>

\* Docker turns it on when it starts.
SysctlHostSets ==
  /\ kernel' = TRUE
  /\ UNCHANGED <<dropin, tmp, queued, fd>>

SysctlLosesThreads ==
  /\ fd' = [c \in Callers |-> "none"]
  /\ UNCHANGED <<dropin, tmp, kernel, queued>>

SysctlBoot ==
  /\ fd' = [c \in Callers |-> "none"]
  /\ queued' = FALSE
  /\ \E k \in BOOLEAN : kernel' \in AsIn(dropin, k)
  /\ UNCHANGED <<dropin, tmp>>
=============================================================================
