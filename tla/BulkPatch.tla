------------------------------ MODULE BulkPatch ------------------------------
(***************************************************************************)
(* PATCH /wda/parameters and /wda/parameters/{id} (api.py): the members of *)
(* a request are written one after the other, each through the registry of *)
(* providers/__init__.py, up to the first that is refused.  Requests are   *)
(* threads and no lock spans a request, nor the three times a member of a  *)
(* bridge asks which device its id stands for.                             *)
(*                                                                         *)
(* The members are IP forwarding, step by step (IpForwarding); addresses   *)
(* and gateway of a bridge, whose NetworkManager calls NmProfile has and   *)
(* are one step here; and Refused, an id that is never writable or a value *)
(* that does not validate.                                                 *)
(***************************************************************************)
EXTENDS IpForwarding, Naturals, Sequences, FiniteSets

CONSTANTS
  Ports,          \* the numbers of the ports X1, X2, ...
  BridgeDevices,  \* bridge devices the host may have, numbered in the order of their names
  Addresses,
  Gateways,
  Nothing,        \* an empty list or string: back to DHCP
  Refused,
  Offers,         \* the requests each thread may get
  Faults          \* the environment failures this instance can meet

AllFaults == {"disk",     \* open, write or rename of the drop-in raises OSError, or no mount
              "systemd",  \* RestartUnit is refused, or busctl times out
              "static",   \* the read of static_ipv4, which reports no error
              "nm"}       \* another D-Bus call of nmcfg fails

Devices == [kind : {"port"}, n : Ports] \cup [kind : {"bridge"}, n : BridgeDevices]
ForwardingMembers == [param : {"forwarding"}, value : BOOLEAN]
BridgeMembers ==
  [param : {"addresses"}, id : Nat \ {0}, value : Addresses \cup {Nothing}] \cup
  [param : {"gateway"}, id : Nat \ {0}, value : Gateways \cup {Nothing}]
Members == ForwardingMembers \cup BridgeMembers \cup {Refused}

ASSUME PortsAssumption ==
  /\ Ports \subseteq Nat \ {0} /\ BridgeDevices \subseteq Nat
  /\ IsFiniteSet(BridgeDevices)
ASSUME RefusedAssumption == Refused \notin ForwardingMembers \cup BridgeMembers
ASSUME OffersAssumption == \A c \in Callers : Offers[c] \subseteq Seq(Members)
ASSUME PatchFaultsAssumption == Faults \subseteq AllFaults

VARIABLES
  present,      \* the bridge devices the host has
  addressed,    \* the ports with an IPv4 address
  static,       \* the static configuration of each device, in its profile
  pc, req, at,  \* request threads: where they are, their members, the one they are at
  dev,          \* the device of that member
  \* history, read by no action:
  alone,        \* requests that nothing overlapped so far, no change of the host either
  before,       \* what such a request found
  misread,      \* its members whose static_ipv4 failed, and that were written all the same
  promised,     \* what the last such write of IP forwarding answered
  foreign,      \* somebody else set the kernel value since the unit ran
  shaken        \* requests whose id has lost its device since they found it writable

deviceVars == <<present, addressed, static>>
threadVars == <<pc, req, at, dev>>
courseVars == <<alone, before, misread>>
history == <<courseVars, promised, foreign>>
vars == <<sysctlVars, deviceVars, threadVars, history, shaken>>

Static == [addresses : Addresses \cup {Nothing}, gateway : Gateways \cup {Nothing}]
Dhcp == [addresses |-> Nothing, gateway |-> Nothing]
NoDevice == [kind |-> "none"]

Unknown == [known |-> FALSE]
Promise(b) == [known |-> TRUE, value |-> b]

Writing == {"open", "dump", "replace", "restart", "verify"}
Looking == {"set", "dev"}
Ended == {"applied", "error", "keyerror", "timeout"}

\* bridges(): the bridge devices, counted in the order of their names, or else the
\* ports that have an address, by their own number.  Number(d) is 0 for the others.
Place(on, n) == Cardinality({k \in on : k <= n})

Number(d) ==
  IF present # {}
  THEN IF d.kind = "bridge" /\ d.n \in present THEN Place(present, d.n) ELSE 0
  ELSE IF d.kind = "port" /\ d.n \in addressed THEN d.n ELSE 0

Instance(i) == \E d \in Devices : Number(d) = i

\* What a request is to change.
Configuration == [dropin |-> dropin, static |-> static]
NoConfiguration == <<>>

TypeOK ==
  /\ SysctlTypeOK
  /\ present \in SUBSET BridgeDevices /\ addressed \in SUBSET Ports
  /\ static \in [Devices -> Static]
  /\ pc \in [Callers -> {"idle", "next", "nm"} \cup Looking \cup Writing \cup Ended]
  /\ req \in [Callers -> Seq(Members)]
  /\ at \in [Callers -> Nat \ {0}]
  /\ dev \in [Callers -> Devices \cup {NoDevice}]
  /\ \A c \in Callers : pc[c] = "nm" => dev[c] \in Devices
  /\ \A c \in Callers :
       pc[c] \in Looking \cup Writing \cup {"nm"} => at[c] \in DOMAIN req[c]
  /\ alone \in SUBSET Callers
  /\ before \in [dropin : File, static : [Devices -> Static]] \cup {NoConfiguration}
  /\ misread \in SUBSET (Nat \ {0})
  /\ promised \in {Unknown, Promise(TRUE), Promise(FALSE)}
  /\ foreign \in BOOLEAN
  /\ shaken \in SUBSET Callers

Threads ==
  /\ pc = [c \in Callers |-> "idle"]
  /\ req = [c \in Callers |-> <<>>]
  /\ at = [c \in Callers |-> 1]
  /\ dev = [c \in Callers |-> NoDevice]

Init ==
  /\ SysctlInit
  /\ present \in SUBSET BridgeDevices /\ addressed \in SUBSET Ports
  /\ static = [d \in Devices |-> Dhcp]
  /\ Threads
  /\ alone = {} /\ before = NoConfiguration /\ misread = {}
  /\ promised = Unknown /\ foreign = FALSE /\ shaken = {}

Member(c) == req[c][at[c]]

Goes(c, from, to) ==
  /\ pc[c] = from
  /\ pc' = [pc EXCEPT ![c] = to]

\* set_param returned: on to the next member.
Applied(c) ==
  /\ pc' = [pc EXCEPT ![c] = "next"]
  /\ at' = [at EXCEPT ![c] = @ + 1]

Disturbed == alone' = {} /\ before' = NoConfiguration /\ misread' = {}

\* What a member leaves of the static configuration its writer has read.
Changed(m, s) ==
  IF m.param = "gateway" THEN [s EXCEPT !.gateway = m.value] ELSE
  [addresses |-> m.value, gateway |-> IF m.value = Nothing THEN Nothing ELSE s.gateway]

----------------------------------------------------------------------------
(* Mutants: the actions below with the mistakes the properties must catch. *)
(* No action of Next uses them.                                            *)

\* The loop goes on after a refused member, and answers with the last result.
FailsContinues(c) ==
  /\ pc' = [pc EXCEPT ![c] = IF at[c] < Len(req[c]) THEN "next" ELSE "error"]
  /\ at' = IF at[c] < Len(req[c]) THEN [at EXCEPT ![c] = @ + 1] ELSE at

\* The answer does not wait for the kernel value.
VerifySkipped(c) ==
  /\ pc[c] = "verify"
  /\ Applied(c)
  /\ promised' = IF c \in alone THEN Promise(Member(c).value) ELSE Unknown
  /\ UNCHANGED <<sysctlVars, deviceVars, req, dev, courseVars, foreign>>

\* set_param without the test for writable() before it.
WritableUntested(c) ==
  /\ Goes(c, "next", "set")
  /\ at[c] \in DOMAIN req[c] /\ Member(c) \in BridgeMembers
  /\ UNCHANGED <<sysctlVars, deviceVars, req, at, dev, history>>

\* bridges().get(idx) goes on with None.
IpWriterUnchecked(c) ==
  /\ Goes(c, "dev", "nm")
  /\ dev' \in {[dev EXCEPT ![c] = d] : d \in {e \in Devices : Number(e) = Member(c).id} \cup
                                       {NoDevice}}
  /\ UNCHANGED <<sysctlVars, deviceVars, req, at, history>>

----------------------------------------------------------------------------
(* A request                                                               *)

\* The member is refused, and the request with it.
Fails(c) ==
  /\ pc' = [pc EXCEPT ![c] = "error"]
  /\ UNCHANGED at

\* History: only a request that begins while there is no other is alone.
Call(c) ==
  /\ Goes(c, "idle", "next")
  /\ \E r \in Offers[c] : req' = [req EXCEPT ![c] = r]
  /\ IF \A d \in Callers : pc[d] = "idle"
     THEN alone' = {c} /\ before' = Configuration /\ misread' = {} ELSE Disturbed
  /\ UNCHANGED <<sysctlVars, deviceVars, at, dev, promised, foreign>>

\* 204, or 200 where a value was normalised.
Completed(c) ==
  /\ at[c] = Len(req[c]) + 1
  /\ Goes(c, "next", "applied")
  /\ UNCHANGED <<sysctlVars, deviceVars, req, at, dev, history>>

\* writable(): 404, and 400 for a value that does not validate.
Unwritable(c) ==
  /\ pc[c] = "next" /\ at[c] \in DOMAIN req[c]
  /\ \/ Member(c) = Refused
     \/ Member(c) \in BridgeMembers /\ ~Instance(Member(c).id)
  /\ Fails(c)
  /\ UNCHANGED <<sysctlVars, deviceVars, req, dev, history>>

Writable(c) ==
  /\ Goes(c, "next", "set")
  /\ at[c] \in DOMAIN req[c]
  /\ Member(c) \in BridgeMembers /\ Instance(Member(c).id)
  /\ UNCHANGED <<sysctlVars, deviceVars, req, at, dev, history>>

\* set_param() looks for the writer once more, and nobody catches its KeyError.
SetParam(c) ==
  /\ Goes(c, "set", IF Instance(Member(c).id) THEN "dev" ELSE "keyerror")
  /\ UNCHANGED <<sysctlVars, deviceVars, req, at, dev, history>>

IpWriter(c) ==
  /\ Goes(c, "dev", "nm")
  /\ \E d \in Devices : Number(d) = Member(c).id /\ dev' = [dev EXCEPT ![c] = d]
  /\ UNCHANGED <<sysctlVars, deviceVars, req, at, history>>

NoInstance(c) ==
  /\ pc[c] = "dev"
  /\ ~Instance(Member(c).id)
  /\ Fails(c)
  /\ UNCHANGED <<sysctlVars, deviceVars, req, dev, history>>

\* What static_ipv4 may return: a failure reads as no addresses and no gateway.
StaticReads(c) == {static[dev[c]]} \cup (IF "static" \in Faults THEN {Dhcp} ELSE {})

\* A static gateway needs a static address.
GatewayRefused(c, s) ==
  Member(c).param = "gateway" /\ Member(c).value # Nothing /\ s.addresses = Nothing

\* Another address, or DHCP with or without a lease, on a device that is live or not.
Readdressed(d) ==
  IF d.kind = "port" THEN {addressed, addressed \cup {d.n}, addressed \ {d.n}} ELSE {addressed}

\* What was read, however, is written, and the other of the two keys with it.
NmSets(c) ==
  \E s \in StaticReads(c) :
    /\ ~GatewayRefused(c, s)
    /\ static' = [static EXCEPT ![dev[c]] = Changed(Member(c), s)]
    /\ misread' = IF c \in alone /\ s # static[dev[c]] THEN misread \cup {at[c]} ELSE misread
    /\ addressed' \in Readdressed(dev[c])

NmWrite(c) ==
  /\ pc[c] = "nm"
  /\ NmSets(c)
  /\ Applied(c)
  /\ dev' = [dev EXCEPT ![c] = NoDevice]
  /\ UNCHANGED <<sysctlVars, present, req, alone, before, promised, foreign>>

\* 400, or 503: before anything is written, or after an Update2 that only timed out.
NmRefused(c) ==
  /\ pc[c] = "nm"
  /\ \/ /\ "nm" \in Faults \/ \E s \in StaticReads(c) : GatewayRefused(c, s)
        /\ UNCHANGED <<static, addressed, misread>>
     \/ "nm" \in Faults /\ NmSets(c)
  /\ Fails(c)
  /\ dev' = [dev EXCEPT ![c] = NoDevice]
  /\ UNCHANGED <<sysctlVars, present, req, alone, before, promised, foreign>>

----------------------------------------------------------------------------
(* w_ipforwarding                                                          *)

Forwarding(c) ==
  /\ Goes(c, "next", "open")
  /\ at[c] \in DOMAIN req[c] /\ Member(c) \in ForwardingMembers
  /\ promised' = Unknown
  /\ UNCHANGED <<sysctlVars, deviceVars, req, at, dev, courseVars, foreign>>

Open(c) ==
  /\ Goes(c, "open", "dump")
  /\ SysctlOpen(c)
  /\ UNCHANGED <<deviceVars, req, at, dev, history>>

Dump(c) ==
  /\ Goes(c, "dump", "replace")
  /\ SysctlDump(c, Member(c).value)
  /\ UNCHANGED <<deviceVars, req, at, dev, history>>

Replace(c) ==
  /\ Goes(c, "replace", "restart")
  /\ SysctlReplace
  /\ UNCHANGED <<deviceVars, req, at, dev, history>>

\* 503: "is not writable in this container", "could not write".
OpenFails(c) ==
  /\ "disk" \in Faults
  /\ pc[c] = "open"
  /\ Fails(c)
  /\ UNCHANGED <<sysctlVars, deviceVars, req, dev, history>>

DumpFails(c) ==
  /\ "disk" \in Faults
  /\ pc[c] = "dump"
  /\ SysctlDumpFails(c)
  /\ Fails(c)
  /\ UNCHANGED <<deviceVars, req, dev, history>>

\* Another thread has renamed it away, or the rename fails.
ReplaceFails(c) ==
  /\ pc[c] = "replace"
  /\ tmp = Absent \/ "disk" \in Faults
  /\ Fails(c)
  /\ UNCHANGED <<sysctlVars, deviceVars, req, dev, history>>

RestartUnit(c) ==
  /\ Goes(c, "restart", "verify")
  /\ SysctlRestart
  /\ UNCHANGED <<deviceVars, req, at, dev, history>>

\* 503: the drop-in stays, for the next run of the unit.
RestartRefused(c) ==
  /\ "systemd" \in Faults
  /\ pc[c] = "restart"
  /\ Fails(c)
  /\ UNCHANGED <<sysctlVars, deviceVars, req, dev, history>>

\* TimeoutExpired ends the thread, whether systemd does as it was asked or not.
RestartTimesOut(c) ==
  /\ "systemd" \in Faults
  /\ Goes(c, "restart", "timeout")
  /\ SysctlRestart \/ UNCHANGED sysctlVars
  /\ UNCHANGED <<deviceVars, req, at, dev, history>>

Verify(c) ==
  /\ pc[c] = "verify"
  /\ SysctlReads(Member(c).value)
  /\ Applied(c)
  /\ promised' = IF c \in alone THEN Promise(Member(c).value) ELSE Unknown
  /\ UNCHANGED <<sysctlVars, deviceVars, req, dev, courseVars, foreign>>

\* 503: the value differs, or the unit has not run yet.
VerifyFails(c) ==
  /\ pc[c] = "verify"
  /\ ~SysctlReads(Member(c).value)
  /\ Fails(c)
  /\ UNCHANGED <<sysctlVars, deviceVars, req, dev, history>>

\* The request is answered, or its thread ends without an answer.
Return(c) ==
  /\ pc[c] \in Ended
  /\ pc' = [pc EXCEPT ![c] = "idle"]
  /\ req' = [req EXCEPT ![c] = <<>>]
  /\ at' = [at EXCEPT ![c] = 1]
  /\ IF c \in alone THEN Disturbed ELSE UNCHANGED courseVars
  /\ UNCHANGED <<sysctlVars, deviceVars, dev, promised, foreign>>

----------------------------------------------------------------------------
(* The host                                                                *)

UnitRuns ==
  /\ SysctlUnitRuns
  /\ foreign' = FALSE
  /\ UNCHANGED <<deviceVars, threadVars, courseVars, promised>>

HostSets ==
  /\ SysctlHostSets
  /\ foreign' = TRUE
  /\ UNCHANGED <<deviceVars, threadVars, courseVars, promised>>

\* A card is plugged, a bridge made or removed, a lease comes or expires.
DevicesChange ==
  /\ present' \in SUBSET BridgeDevices /\ addressed' \in SUBSET Ports
  /\ Disturbed
  /\ UNCHANGED <<sysctlVars, static, threadVars, promised, foreign>>

LosesThreads ==
  /\ pc' = [c \in Callers |-> "idle"]
  /\ req' = [c \in Callers |-> <<>>]
  /\ at' = [c \in Callers |-> 1]
  /\ dev' = [c \in Callers |-> NoDevice]
  /\ Disturbed
  /\ UNCHANGED <<deviceVars, promised>>

Restart == SysctlLosesThreads /\ LosesThreads /\ UNCHANGED foreign

Boot == SysctlBoot /\ LosesThreads /\ foreign' = FALSE

----------------------------------------------------------------------------

ForwardingStep(c) ==
  \/ Open(c) \/ OpenFails(c) \/ Dump(c) \/ DumpFails(c) \/ Replace(c) \/ ReplaceFails(c)
  \/ RestartUnit(c) \/ RestartRefused(c) \/ RestartTimesOut(c) \/ Verify(c) \/ VerifyFails(c)

BridgeStep(c) ==
  \/ Writable(c) \/ SetParam(c) \/ IpWriter(c) \/ NoInstance(c) \/ NmWrite(c) \/ NmRefused(c)

CallerStep(c) ==
  \/ Call(c) \/ Completed(c) \/ Unwritable(c) \/ BridgeStep(c)
  \/ Forwarding(c) \/ ForwardingStep(c) \/ Return(c)

\* History.
Observe ==
  shaken' = {c \in Callers :
    \/ c \in shaken /\ pc'[c] \in Looking \cup {"keyerror"}
    \/ pc[c] \in Looking /\ pc'[c] = pc[c] /\ ~Instance(Member(c).id)'}

Next ==
  /\ \/ \E c \in Callers : CallerStep(c)
     \/ UnitRuns \/ HostSets \/ DevicesChange \/ Restart \/ Boot
  /\ Observe

Spec == Init /\ [][Next]_vars

----------------------------------------------------------------------------
(* Safety                                                                  *)

\* What a write of IP forwarding that no other request overlapped has answered stays:
\* the drop-in holds it, and so does the kernel, until somebody else sets it, whatever
\* jobs earlier writes left in systemd's queue, whatever half-written .tmp, and through
\* restarts and boots ("the kernel value did not change" is an error).
SettledForwarding ==
  promised.known => dropin = Whole(promised.value) /\ (kernel = promised.value \/ foreign)

\* The device an id stands for where the bridge devices are `on`: a port also without
\* an address.
StandsFor(on, i, d) ==
  IF on # {} THEN d.kind = "bridge" /\ d.n \in on /\ Place(on, d.n) = i
  ELSE d.kind = "port" /\ d.n = i

\* What member m makes of the configuration; where the read of static_ipv4 failed, of
\* a device that seems to have no static configuration.
After(on, conf, m, missed) ==
  IF m.param = "forwarding" THEN [conf EXCEPT !.dropin = Whole(m.value)] ELSE
  [conf EXCEPT !.static = [d \in Devices |->
     IF StandsFor(on, m.id, d)
     THEN Changed(m, IF missed THEN Dhcp ELSE conf.static[d]) ELSE conf.static[d]]]

\* What the first k members of r make of `start', one after the other, when the reads
\* of those at `missed' have failed.
Course(on, start, r, missed) ==
  LET conf[k \in Nat] ==
        IF k = 0 THEN start ELSE After(on, conf[k - 1], r[k], k \in missed)
  IN conf

\* What an answer says of a request that nothing overlaps: with 200 and 204 every member
\* has been applied, in order; with an error those before the refused one have been,
\* that one may have been, and none after it ("applied in order and is not atomic: the
\* first failure stops the batch and is reported").  What it does not say: that a member
\* found no static configuration because static_ipv4 failed.  Then it was refused for
\* that, or the other static key of its device has been lost with it; nothing else is.
AnswerMatchesEffect ==
  \A c \in alone :
    LET done == at[c] - 1
        reached == Course(present, before, req[c], misread)[done]
    IN /\ pc[c] = "applied" => done = Len(req[c]) /\ Configuration = reached
       /\ pc[c] = "error" =>
            \/ Configuration = reached
            \/ /\ Member(c) # Refused
               /\ Configuration = After(present, reached, Member(c), at[c] \in misread)

\* A request ends in a KeyError only if its bridge went away after it had been found
\* writable ("404 unknown or read-only").
KeyErrorsExplained == \A c \in Callers : pc[c] = "keyerror" => c \in shaken
=============================================================================
