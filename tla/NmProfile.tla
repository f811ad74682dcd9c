------------------------------ MODULE NmProfile ------------------------------
(***************************************************************************)
(* providers/nmcfg.py and the writers of providers/networking.py that use  *)
(* it: a NetworkManager profile is read as a whole, changed, written back  *)
(* (Update2) and made live (Device.Reapply).  Requests are threads and no  *)
(* lock spans the four calls.                                              *)
(*                                                                         *)
(* Of the profile of one interface only the keys the writers touch are     *)
(* kept.  A value that does not validate, a bridge that is not there and a *)
(* device without NetworkManager are refused before anything is read and   *)
(* are not written here.                                                   *)
(***************************************************************************)
EXTENDS Naturals

CONSTANTS
  Callers,      \* request threads
  Addresses,    \* address lists a client may ask for
  Gateways,
  Servers,      \* DNS server lists
  Domains,      \* search domains
  Nothing,      \* an empty list or string: back to DHCP
  Faults        \* the D-Bus calls that may fail in this instance

Keys == {"addresses", "gateway", "dns", "search"}

AllFaults == {"static",     \* the read of static_ipv4, which reports no error
              "describe",   \* GetDeviceByIpIface, ActiveConnection, GetSettings
              "update",     \* Update2
              "reapply"}    \* Reapply

ASSUME NothingAssumption == Nothing \notin Addresses \cup Gateways \cup Servers \cup Domains
ASSUME NmFaultsAssumption == Faults \subseteq AllFaults

VARIABLES
  profile,      \* the profile on disk
  live,         \* the settings the device runs with
  pc, key, value,   \* request threads: where they are, what they write
  kept,         \* the addresses and gateway static_ipv4 returned
  settings,     \* the profile as the thread changed it
  \* history, read by no action:
  alone,        \* calls that no other call overlapped so far
  claims,       \* what the clients of such calls were answered 204 for, until the
                \* key is written again or two calls overlap
  doubtful,     \* those of the claims that a failed read may have undone
  unlive        \* those whose own Reapply failed, until the device is up to date again

threadVars == <<pc, key, value, kept, settings>>
claimVars == <<claims, doubtful, unlive>>
history == <<alone, claimVars>>
vars == <<profile, live, threadVars, history>>

Of(k) == CASE k = "addresses" -> Addresses
           [] k = "gateway" -> Gateways
           [] k = "dns" -> Servers
           [] k = "search" -> Domains
Contents == Addresses \cup Gateways \cup Servers \cup Domains \cup {Nothing}

Profiles == [addresses : Addresses \cup {Nothing}, gateway : Gateways \cup {Nothing},
             dns : Servers \cup {Nothing}, search : Domains \cup {Nothing},
             method : {"auto", "manual"}]
Static == [addresses : Addresses \cup {Nothing}, gateway : Gateways \cup {Nothing}]

NoStatic == [addresses |-> Nothing, gateway |-> Nothing]
Dhcp == [addresses |-> Nothing, gateway |-> Nothing, dns |-> Nothing, search |-> Nothing,
         method |-> "auto"]

TypeOK ==
  /\ profile \in Profiles
  /\ live \in Profiles
  /\ pc \in [Callers -> {"idle", "static", "describe", "update", "reapply"}]
  /\ key \in [Callers -> Keys \cup {"none"}]
  /\ value \in [Callers -> Contents]
  /\ kept \in [Callers -> Static]
  /\ settings \in [Callers -> Profiles]
  /\ alone \in SUBSET Callers
  /\ claims \in SUBSET [key : Keys, value : Contents]
  /\ doubtful \in SUBSET claims
  /\ unlive \in SUBSET claims

Threads ==
  /\ pc = [c \in Callers |-> "idle"]
  /\ key = [c \in Callers |-> "none"]
  /\ value = [c \in Callers |-> Nothing]
  /\ kept = [c \in Callers |-> NoStatic]
  /\ settings = [c \in Callers |-> Dhcp]

\* The factory profile: DHCP.
Init ==
  /\ profile = Dhcp /\ live = Dhcp
  /\ Threads
  /\ alone = {} /\ claims = {} /\ doubtful = {} /\ unlive = {}

----------------------------------------------------------------------------
(* Steps of a call                                                         *)

CallerGoes(c, from, to) ==
  /\ pc[c] = from
  /\ pc' = [pc EXCEPT ![c] = to]

\* History: a call that begins while another is under way is not alone, and then
\* nothing is known of the profile.
Enters(c) ==
  IF \A d \in Callers : pc[d] = "idle"
  THEN alone' = {c} /\ UNCHANGED claimVars
  ELSE alone' = {} /\ claims' = {} /\ doubtful' = {} /\ unlive' = {}

Ends(c) ==
  /\ pc' = [pc EXCEPT ![c] = "idle"]
  /\ key' = [key EXCEPT ![c] = "none"]
  /\ value' = [value EXCEPT ![c] = Nothing]
  /\ kept' = [kept EXCEPT ![c] = NoStatic]
  /\ settings' = [settings EXCEPT ![c] = Dhcp]
  /\ alone' = alone \ {c}

\* History: no answer stands any longer for an older value of the keys written here.
\* Clearing the addresses takes the gateway away.
Overwritten(c) ==
  {key[c]} \cup (IF key[c] = "addresses" /\ value[c] = Nothing THEN {"gateway"} ELSE {})

\* The writer returns the value and the client is answered 204, whether or not _commit
\* says that it is live: that goes into the log only.
Told(c) == IF c \in alone THEN {[key |-> key[c], value |-> value[c]]} ELSE {}
Claim(c) == claims' = claims \cup Told(c) /\ doubtful' = doubtful \ Told(c)

\* What the writers of the addresses and of the gateway need to have read.
StaticKeys == {"addresses", "gateway"}
StaticPart == [addresses |-> profile.addresses, gateway |-> profile.gateway]

\* History: a write that goes on from a failed read leaves the other static key in doubt.
Doubted(c) ==
  IF key[c] \in StaticKeys /\ kept[c] # StaticPart
  THEN {l \in claims : l.key \in StaticKeys} ELSE {}

----------------------------------------------------------------------------
(* Mutants: the definitions below have the mistakes the properties must    *)
(* catch.  Nothing else uses them.                                         *)

\* NetworkManager knows no method "static".
WithStaticMisnamed(s, a, g) ==
  [s EXCEPT !.addresses = a,
            !.method = IF a # Nothing THEN "static" ELSE "auto",
            !.gateway = IF a # Nothing THEN g ELSE Nothing]

\* The gateway stays when the addresses go.
WithStaticKeepsGateway(s, a, g) ==
  [s EXCEPT !.addresses = a,
            !.method = IF a # Nothing THEN "manual" ELSE "auto",
            !.gateway = g]

----------------------------------------------------------------------------
(* The change a writer makes to the profile it read                        *)

\* set_static_ipv4.  Dropping the deprecated form of the addresses makes `a' count.
WithStatic(s, a, g) ==
  [s EXCEPT !.addresses = a,
            !.method = IF a # Nothing THEN "manual" ELSE "auto",
            !.gateway = IF a # Nothing THEN g ELSE Nothing]

\* A writer of the addresses keeps the gateway it read before, and conversely.
Changed(c, s) ==
  CASE key[c] = "addresses" -> WithStatic(s, value[c], kept[c].gateway)
    [] key[c] = "gateway" -> WithStatic(s, kept[c].addresses, value[c])
    [] key[c] = "dns" -> [s EXCEPT !.dns = value[c]]
    [] key[c] = "search" -> [s EXCEPT !.search = value[c]]

----------------------------------------------------------------------------
(* The handlers                                                            *)

\* w_dns and w_domain go straight to the profile, w_addresses and w_gateway read
\* the static configuration first.
Write(c) ==
  /\ pc[c] = "idle"
  /\ \E k \in Keys : \E v \in Of(k) \cup {Nothing} :
       /\ key' = [key EXCEPT ![c] = k]
       /\ value' = [value EXCEPT ![c] = v]
       /\ pc' = [pc EXCEPT ![c] = IF k \in StaticKeys THEN "static" ELSE "describe"]
  /\ Enters(c)
  /\ UNCHANGED <<profile, live, kept, settings>>

\* What static_ipv4 may return: a failure reads as no addresses and no gateway.
StaticReads ==
  {StaticPart} \cup (IF "static" \in Faults THEN {NoStatic} ELSE {})

\* A static gateway needs a static address first.
Refused(c, s) == key[c] = "gateway" /\ value[c] # Nothing /\ s.addresses = Nothing

ReadStatic(c) ==
  /\ pc[c] = "static"
  /\ \E s \in StaticReads :
       \/ /\ ~Refused(c, s)
          /\ pc' = [pc EXCEPT ![c] = "describe"]
          /\ kept' = [kept EXCEPT ![c] = s]
          /\ UNCHANGED <<key, value, settings, alone>>
       \/ Refused(c, s) /\ Ends(c)
  /\ UNCHANGED <<profile, live, claimVars>>

\* The settings the device runs with are changed and written back (GetAppliedConnection).
DescribeApplied(c) ==
  /\ CallerGoes(c, "describe", "update")
  /\ settings' = [settings EXCEPT ![c] = Changed(c, live)]
  /\ UNCHANGED <<profile, live, key, value, kept, history>>

Describe(c) ==
  /\ CallerGoes(c, "describe", "update")
  /\ settings' = [settings EXCEPT ![c] = Changed(c, profile)]
  /\ UNCHANGED <<profile, live, key, value, kept, history>>

DescribeFails(c) ==
  /\ "describe" \in Faults
  /\ pc[c] = "describe"
  /\ Ends(c)
  /\ UNCHANGED <<profile, live, claimVars>>

Saves(c) ==
  /\ profile' = settings[c]
  /\ claims' = {l \in claims : l.key \notin Overwritten(c)}
  /\ doubtful' = (doubtful \cup Doubted(c)) \cap claims'
  /\ unlive' = unlive \cap claims'

Update(c) ==
  /\ CallerGoes(c, "update", "reapply")
  /\ Saves(c)
  /\ UNCHANGED <<live, key, value, kept, settings, alone>>

\* The answer is 503.  An Update2 that only timed out has been carried out.
UpdateFails(c) ==
  /\ "update" \in Faults
  /\ pc[c] = "update"
  /\ Saves(c) \/ UNCHANGED <<profile, claimVars>>
  /\ Ends(c)
  /\ UNCHANGED live

\* The device runs with the whole of the profile again.
Reapply(c) ==
  /\ pc[c] = "reapply"
  /\ live' = settings[c]
  /\ Claim(c) /\ unlive' = {}
  /\ Ends(c)
  /\ UNCHANGED profile

\* "saved to the profile, not yet live", and the same answer; or it only timed out.
ReapplyFails(c) ==
  /\ "reapply" \in Faults
  /\ pc[c] = "reapply"
  /\ live' \in {live, settings[c]}
  /\ Claim(c) /\ unlive' = unlive \cup Told(c)
  /\ Ends(c)
  /\ UNCHANGED profile

\* The process goes; when the device goes too it comes back with the profile.
Restart ==
  /\ pc' = [c \in Callers |-> "idle"]
  /\ key' = [c \in Callers |-> "none"]
  /\ value' = [c \in Callers |-> Nothing]
  /\ kept' = [c \in Callers |-> NoStatic]
  /\ settings' = [c \in Callers |-> Dhcp]
  /\ alone' = {}
  /\ UNCHANGED <<live, unlive>> \/ (live' = profile /\ unlive' = {})
  /\ UNCHANGED <<profile, claims, doubtful>>

Next ==
  \/ \E c \in Callers :
       \/ Write(c) \/ ReadStatic(c) \/ Describe(c) \/ DescribeFails(c)
       \/ Update(c) \/ UpdateFails(c) \/ Reapply(c) \/ ReapplyFails(c)
  \/ Restart

Spec == Init /\ [][Next]_vars

----------------------------------------------------------------------------
(* Safety                                                                  *)

Consistent(s) ==
  /\ s.method = "manual" <=> s.addresses # Nothing
  /\ s.gateway # Nothing => s.addresses # Nothing

\* "A gateway without an address is invalid" (set_static_ipv4): neither the profile
\* nor the device ever has one, nor addresses that the method makes void, whichever
\* writers overlap and whatever a failed read made them believe.
ProfileConsistent == Consistent(profile) /\ Consistent(live)

\* What a client was answered 204 for is on disk until someone writes that key, and the
\* device runs with it, whatever calls of other keys succeed, fail half-way or die with
\* the process in between, as long as they do not overlap.  There are two exceptions.
\* When its own Reapply failed, of which the client is not told, the device runs with
\* it only after the next Reapply, of whatever key, or the next boot.  And addresses or
\* gateway can be lost to a write of the other that went on from a failed read.
ClaimsStand ==
  \A l \in claims \ doubtful :
    /\ profile[l.key] = l.value
    /\ l \notin unlive => live[l.key] = l.value

----------------------------------------------------------------------------
(* What the comments say                                                   *)

\* Without the exceptions ("keep the gateway; it has its own id", w_addresses; "nothing
\* else in it is lost", set_static_ipv4; not live: "the caller must not claim otherwise",
\* set_dns).
ClaimsInEffect == \A l \in claims : profile[l.key] = l.value /\ live[l.key] = l.value
=============================================================================
