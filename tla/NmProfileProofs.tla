--------------------------- MODULE NmProfileProofs ---------------------------
(***************************************************************************)
(* Proofs about NmProfile, for any number of callers, whatever fails.      *)
(***************************************************************************)
EXTENDS NmProfile, TLAPS

USE DEF claimVars, StaticKeys

\* A call knows what it writes, and a value that fits.
CallsFit ==
  \A c \in Callers : pc[c] # "idle" => key[c] \in Keys /\ value[c] \in Of(key[c]) \cup {Nothing}

\* What a call is about to write is consistent.
SettingsConsistent == \A c \in Callers : Consistent(settings[c])

\* The part of TypeOK about claims.
ClaimsFit ==
  claims \in SUBSET [key : Keys, value : Contents] /\ {doubtful, unlive} \subseteq SUBSET claims

Inv == TypeOK /\ CallsFit /\ ProfileConsistent /\ SettingsConsistent

LEMMA DhcpFits == Dhcp \in Profiles /\ Consistent(Dhcp) /\ NoStatic \in Static
BY DEF Dhcp, Profiles, Consistent, NoStatic, Static

\* A value that fits its key is among the contents.
LEMMA FitsAreContents ==
  ASSUME NEW k \in Keys, NEW v \in Of(k) \cup {Nothing}
  PROVE  v \in Contents
BY DEF Contents, Of, Keys

\* set_static_ipv4 makes a consistent profile of whatever was read before.
LEMMA StaticIsConsistent ==
  ASSUME NEW s \in Profiles, NEW a \in Addresses \cup {Nothing}, NEW g \in Gateways \cup {Nothing}
  PROVE  WithStatic(s, a, g) \in Profiles /\ Consistent(WithStatic(s, a, g))
BY DEF WithStatic, Profiles, Consistent

\* Each writer's change keeps a profile a profile, and consistent.
LEMMA ChangeIsConsistent ==
  ASSUME TypeOK, CallsFit, ProfileConsistent, NEW c \in Callers, pc[c] # "idle"
  PROVE  Changed(c, profile) \in Profiles /\ Consistent(Changed(c, profile))
<1>1. key[c] \in Keys /\ value[c] \in Of(key[c]) \cup {Nothing}
  BY DEF CallsFit
<1>2. profile \in Profiles /\ Consistent(profile) /\ kept[c] \in Static
  BY DEF TypeOK, ProfileConsistent
<1>3. kept[c].gateway \in Gateways \cup {Nothing} /\ kept[c].addresses \in Addresses \cup {Nothing}
  BY <1>2 DEF Static
<1>4. CASE key[c] = "addresses"
  <2>1. Changed(c, profile) = WithStatic(profile, value[c], kept[c].gateway)
    BY <1>4 DEF Changed
  <2>2. value[c] \in Addresses \cup {Nothing}
    BY <1>1, <1>4 DEF Of
  <2> QED BY <2>1, <2>2, <1>2, <1>3, StaticIsConsistent
<1>5. CASE key[c] = "gateway"
  <2>1. Changed(c, profile) = WithStatic(profile, kept[c].addresses, value[c])
    BY <1>5 DEF Changed
  <2>2. value[c] \in Gateways \cup {Nothing}
    BY <1>1, <1>5 DEF Of
  <2> QED BY <2>1, <2>2, <1>2, <1>3, StaticIsConsistent
<1>6. CASE key[c] = "dns"
  <2>1. value[c] \in Servers \cup {Nothing}
    BY <1>1, <1>6 DEF Of
  <2> QED BY <2>1, <1>2, <1>6 DEF Changed, Profiles, Consistent
<1>7. CASE key[c] = "search"
  <2>1. value[c] \in Domains \cup {Nothing}
    BY <1>1, <1>7 DEF Of
  <2> QED BY <2>1, <1>2, <1>7 DEF Changed, Profiles, Consistent
<1> QED BY <1>1, <1>4, <1>5, <1>6, <1>7 DEF Keys

LEMMA InvInit == Init => Inv
<1> SUFFICES ASSUME Init PROVE Inv
  OBVIOUS
<1>1. TypeOK
  BY DhcpFits DEF Init, Threads, TypeOK, Contents
<1>2. CallsFit /\ ProfileConsistent /\ SettingsConsistent
  BY DhcpFits DEF Init, Threads, CallsFit, ProfileConsistent, SettingsConsistent
<1> QED BY <1>1, <1>2 DEF Inv

\* A call that ends.
LEMMA EndKeepsInv ==
  ASSUME Inv, NEW c \in Callers, Ends(c), profile' \in Profiles, live' \in Profiles,
         ClaimsFit', ProfileConsistent'
  PROVE  Inv'
<1> USE DEF Inv
<1>1. TypeOK'
  BY DhcpFits DEF Ends, TypeOK, ClaimsFit, Contents
<1>2. CallsFit' /\ SettingsConsistent'
  BY DhcpFits DEF Ends, CallsFit, SettingsConsistent, TypeOK
<1> QED BY <1>1, <1>2

LEMMA InvStep == Inv /\ [Next]_vars => Inv'
<1> SUFFICES ASSUME Inv, [Next]_vars PROVE Inv'
  OBVIOUS
<1> USE DEF Inv
<1>1. ASSUME NEW c \in Callers, Write(c) PROVE Inv'
  <2>1. PICK k \in Keys : \E v \in Of(k) \cup {Nothing} :
          /\ key' = [key EXCEPT ![c] = k]
          /\ value' = [value EXCEPT ![c] = v]
          /\ pc' = [pc EXCEPT ![c] = IF k \in StaticKeys THEN "static"
                                                                      ELSE "describe"]
    BY <1>1 DEF Write
  <2>2. PICK v \in Of(k) \cup {Nothing} :
          /\ key' = [key EXCEPT ![c] = k]
          /\ value' = [value EXCEPT ![c] = v]
          /\ pc' = [pc EXCEPT ![c] = IF k \in StaticKeys THEN "static"
                                                                      ELSE "describe"]
    BY <2>1
  <2>3. UNCHANGED <<profile, live, kept, settings>>
    BY <1>1 DEF Write
  <2>4. v \in Contents
    BY FitsAreContents
  <2>5. TypeOK'
    BY <1>1, <2>2, <2>3, <2>4 DEF Write, Enters, TypeOK
  <2>6. CallsFit'
    BY <2>2, <2>3 DEF CallsFit, TypeOK
  <2>7. ProfileConsistent' /\ SettingsConsistent'
    BY <2>3 DEF ProfileConsistent, SettingsConsistent
  <2> QED BY <2>5, <2>6, <2>7
<1>2. ASSUME NEW c \in Callers, ReadStatic(c) PROVE Inv'
  <2>1. PICK s \in StaticReads :
          \/ /\ ~Refused(c, s)
             /\ pc' = [pc EXCEPT ![c] = "describe"]
             /\ kept' = [kept EXCEPT ![c] = s]
             /\ UNCHANGED <<key, value, settings, alone>>
          \/ Refused(c, s) /\ Ends(c)
    BY <1>2 DEF ReadStatic
  <2>2. UNCHANGED <<profile, live, claimVars>> /\ pc[c] = "static"
    BY <1>2 DEF ReadStatic
  <2>3. s \in Static
    BY DhcpFits DEF StaticReads, StaticPart, TypeOK, Profiles, Static
  <2>4. CASE Ends(c)
    BY <2>2, <2>4, EndKeepsInv DEF TypeOK, ClaimsFit, ProfileConsistent
  <2>5. CASE /\ pc' = [pc EXCEPT ![c] = "describe"]
             /\ kept' = [kept EXCEPT ![c] = s]
             /\ UNCHANGED <<key, value, settings, alone>>
    <3>1. TypeOK'
      BY <2>2, <2>3, <2>5 DEF TypeOK
    <3>2. CallsFit'
      BY <2>2, <2>5 DEF CallsFit, TypeOK
    <3>3. ProfileConsistent' /\ SettingsConsistent'
      BY <2>2, <2>5 DEF ProfileConsistent, SettingsConsistent
    <3> QED BY <3>1, <3>2, <3>3
  <2> QED BY <2>1, <2>4, <2>5
<1>3. ASSUME NEW c \in Callers, Describe(c) PROVE Inv'
  <2>1. Changed(c, profile) \in Profiles /\ Consistent(Changed(c, profile))
    BY <1>3, ChangeIsConsistent DEF Describe, CallerGoes
  <2>2. TypeOK'
    BY <1>3, <2>1 DEF Describe, CallerGoes, history, TypeOK
  <2>3. CallsFit'
    BY <1>3 DEF Describe, CallerGoes, CallsFit, TypeOK
  <2>4. ProfileConsistent'
    BY <1>3 DEF Describe, ProfileConsistent
  <2>5. SettingsConsistent'
    BY <1>3, <2>1 DEF Describe, SettingsConsistent, TypeOK
  <2> QED BY <2>2, <2>3, <2>4, <2>5
<1>4. ASSUME NEW c \in Callers, Update(c) PROVE Inv'
  <2>1. settings[c] \in Profiles /\ Consistent(settings[c])
    BY DEF TypeOK, SettingsConsistent
  <2>2. ClaimsFit'
    BY <1>4 DEF Update, Saves, TypeOK, ClaimsFit
  <2>3. TypeOK'
    BY <1>4, <2>1, <2>2 DEF Update, Saves, CallerGoes, TypeOK, ClaimsFit
  <2>4. CallsFit'
    BY <1>4 DEF Update, CallerGoes, CallsFit, TypeOK
  <2>5. ProfileConsistent' /\ SettingsConsistent'
    BY <1>4, <2>1 DEF Update, Saves, ProfileConsistent, SettingsConsistent
  <2> QED BY <2>3, <2>4, <2>5
<1>5. ASSUME NEW c \in Callers, Reapply(c) \/ ReapplyFails(c) PROVE Inv'
  <2>1. settings[c] \in Profiles /\ Consistent(settings[c])
    BY DEF TypeOK, SettingsConsistent
  <2>2. key[c] \in Keys /\ value[c] \in Contents
    BY <1>5 DEF Reapply, ReapplyFails, CallsFit, TypeOK
  <2>3. Claim(c) /\ unlive' \in {{}, unlive \cup Told(c)}
    BY <1>5 DEF Reapply, ReapplyFails
  <2>4. ClaimsFit'
    BY <2>2, <2>3 DEF Claim, Told, TypeOK, ClaimsFit
  <2>5. live' \in {live, settings[c]} /\ profile' = profile /\ Ends(c)
    BY <1>5 DEF Reapply, ReapplyFails
  <2>6. profile' \in Profiles /\ live' \in Profiles /\ ProfileConsistent'
    BY <2>1, <2>5 DEF ProfileConsistent, TypeOK
  <2> QED BY <2>4, <2>5, <2>6, EndKeepsInv
<1>6. ASSUME NEW c \in Callers, DescribeFails(c) \/ UpdateFails(c) PROVE Inv'
  <2>1. Ends(c) /\ live' = live /\ (Saves(c) \/ UNCHANGED <<profile, claimVars>>)
    BY <1>6 DEF DescribeFails, UpdateFails
  <2>2. ClaimsFit'
    BY <2>1 DEF Saves, TypeOK, ClaimsFit
  <2>3. profile' \in Profiles /\ live' \in Profiles /\ ProfileConsistent'
    BY <2>1 DEF Saves, TypeOK, SettingsConsistent, ProfileConsistent
  <2> QED BY <2>1, <2>2, <2>3, EndKeepsInv
<1>7. ASSUME Restart PROVE Inv'
  <2>1. TypeOK'
    BY <1>7, DhcpFits DEF Restart, TypeOK, Contents
  <2>2. CallsFit' /\ ProfileConsistent' /\ SettingsConsistent'
    BY <1>7, DhcpFits DEF Restart, CallsFit, ProfileConsistent, SettingsConsistent
  <2> QED BY <2>1, <2>2
<1>8. CASE UNCHANGED vars
  BY <1>8 DEF vars, threadVars, history, TypeOK, CallsFit, ProfileConsistent, SettingsConsistent
<1> QED BY <1>1, <1>2, <1>3, <1>4, <1>5, <1>6, <1>7, <1>8 DEF Next

\* Every reachable state has its type.
THEOREM ProfileTypeCorrect == Spec => []TypeOK
<1>1. Init => Inv
  BY InvInit
<1>2. Inv /\ [Next]_vars => Inv'
  BY InvStep
<1>3. Inv => TypeOK
  BY DEF Inv
<1> QED BY <1>1, <1>2, <1>3, PTL DEF Spec

\* However many writers overlap and whatever their reads failed to see, neither the
\* profile nor the device ever has a gateway without an address.
THEOREM ProfileStaysConsistent == Spec => []ProfileConsistent
<1>1. Init => Inv
  BY InvInit
<1>2. Inv /\ [Next]_vars => Inv'
  BY InvStep
<1>3. Inv => ProfileConsistent
  BY DEF Inv
<1> QED BY <1>1, <1>2, <1>3, PTL DEF Spec

----------------------------------------------------------------------------
(* What clients were told                                                  *)

\* A call that is alone is the only one; what it read is so still, what it is about
\* to write is its change of the profile, and once written no claim contradicts it.
AloneUndisturbed ==
  \A c \in alone :
    /\ pc[c] # "idle"
    /\ \A d \in Callers : pc[d] # "idle" => d = c
    /\ pc[c] \in {"describe", "update"} =>
         /\ ~Refused(c, kept[c])
         /\ key[c] \in StaticKeys /\ "static" \notin Faults => kept[c] = StaticPart
    /\ pc[c] = "update" => settings[c] = Changed(c, profile)
    /\ pc[c] = "reapply" => settings[c] = profile /\ profile[key[c]] = value[c]

\* Claims are true unless they are in doubt, which takes a failed read, or not live, which
\* takes a failed Reapply, and a call under way that could falsify one has withdrawn it.
ClaimsHold ==
  /\ \A l \in claims :
       /\ \A c \in Callers : pc[c] # "idle" => c \in alone
       /\ l \notin doubtful => profile[l.key] = l.value
       /\ l \notin doubtful \cup unlive => live[l.key] = l.value
  /\ "static" \notin Faults => doubtful = {}
  /\ "reapply" \notin Faults => unlive = {}

ClaimInv == AloneUndisturbed /\ ClaimsHold

\* A change puts the value at its key, and disturbs no other key than Overwritten says
\* but the other static key, if it was made with a static part the profile does not have.
LEMMA ChangeIsLocal ==
  ASSUME Inv, NEW c \in Callers, pc[c] # "idle", ~Refused(c, kept[c])
  PROVE  /\ Changed(c, profile)[key[c]] = value[c]
         /\ \A k \in Keys :
              k \notin Overwritten(c) /\ ({k, key[c]} \subseteq StaticKeys => kept[c] = StaticPart)
                => Changed(c, profile)[k] = profile[k]
<1>1. profile \in Profiles /\ key[c] \in Keys
  BY DEF Inv, TypeOK, CallsFit
<1>2. CASE key[c] = "addresses"
  <2>1. Changed(c, profile) = WithStatic(profile, value[c], kept[c].gateway)
    BY <1>2 DEF Changed
  <2>2. kept[c] = StaticPart => kept[c].gateway = profile.gateway
    BY DEF StaticPart
  <2> QED BY <1>1, <1>2, <2>1, <2>2 DEF WithStatic, Overwritten, Keys, Profiles
<1>3. CASE key[c] = "gateway"
  <2>1. Changed(c, profile) = WithStatic(profile, kept[c].addresses, value[c])
    BY <1>3 DEF Changed
  <2>2. kept[c].addresses = Nothing => value[c] = Nothing
    BY <1>3 DEF Refused
  <2>3. kept[c] = StaticPart => kept[c].addresses = profile.addresses
    BY DEF StaticPart
  <2> QED BY <1>1, <1>3, <2>1, <2>2, <2>3 DEF WithStatic, Overwritten, Keys, Profiles
<1>4. CASE key[c] = "dns"
  <2>1. Changed(c, profile) = [profile EXCEPT !.dns = value[c]]
    BY <1>4 DEF Changed
  <2> QED BY <1>1, <1>4, <2>1 DEF Overwritten, Keys, Profiles
<1>5. CASE key[c] = "search"
  <2>1. Changed(c, profile) = [profile EXCEPT !.search = value[c]]
    BY <1>5 DEF Changed
  <2> QED BY <1>1, <1>5, <2>1 DEF Overwritten, Keys, Profiles
<1> QED BY <1>1, <1>2, <1>3, <1>4, <1>5 DEF Keys

\* A call that ends before it has written anything.
LEMMA EndKeepsClaims ==
  ASSUME Inv, ClaimInv, NEW c \in Callers, pc[c] # "idle", Ends(c),
         UNCHANGED <<profile, live, claimVars>>
  PROVE  ClaimInv'
<1>1. \A d \in alone : d = c
  BY DEF ClaimInv, AloneUndisturbed
<1>2. alone' = {}
  BY <1>1 DEF Ends
<1>3. \A d \in Callers : pc'[d] # "idle" => d # c /\ pc[d] # "idle"
  BY DEF Inv, TypeOK, Ends
<1>4. AloneUndisturbed'
  BY <1>2 DEF AloneUndisturbed
<1>5. ClaimsHold'
  BY <1>1, <1>3 DEF ClaimInv, ClaimsHold
<1> QED BY <1>4, <1>5 DEF ClaimInv

\* An Update2 that is carried out takes back what it disturbs, and no more.
LEMMA SaveKeepsClaims ==
  ASSUME Inv, ClaimInv, NEW c \in Callers, pc[c] = "update", Saves(c), live' = live,
         \A d \in Callers : pc'[d] # "idle" => pc[d] # "idle" /\ (d \in alone => d \in alone')
  PROVE  ClaimsHold'
<1>1. ASSUME NEW l \in claims'
      PROVE  /\ l \in claims /\ c \in alone
             /\ l \notin doubtful' => l \notin doubtful /\ profile'[l.key] = profile[l.key]
             /\ l \notin unlive' => l \notin unlive
  <2>1. l \in claims /\ l.key \in Keys /\ l.key \notin Overwritten(c)
    BY <1>1 DEF Saves, Inv, TypeOK
  <2>2. c \in alone
    BY <2>1 DEF ClaimInv, ClaimsHold
  <2>3. profile' = Changed(c, profile) /\ ~Refused(c, kept[c])
    BY <2>2 DEF Saves, ClaimInv, AloneUndisturbed
  <2>4. l \notin doubtful' => l \notin doubtful /\ l \notin Doubted(c)
    BY <1>1 DEF Saves
  <2>5. l \notin doubtful' => ({l.key, key[c]} \subseteq StaticKeys => kept[c] = StaticPart)
    BY <2>1, <2>4 DEF Doubted
  <2>6. l \notin doubtful' => profile'[l.key] = profile[l.key]
    BY <2>1, <2>3, <2>5, ChangeIsLocal
  <2>7. l \notin unlive' => l \notin unlive
    BY <1>1 DEF Saves
  <2> QED BY <2>1, <2>2, <2>4, <2>6, <2>7
<1>2. "static" \notin Faults => doubtful' = {}
  <2>1. claims' \subseteq claims
    BY DEF Saves
  <2>2. claims # {} => c \in alone
    BY DEF ClaimInv, ClaimsHold
  <2>3. "static" \notin Faults /\ claims # {} => Doubted(c) = {}
    BY <2>2 DEF ClaimInv, AloneUndisturbed, Doubted
  <2> QED BY <2>1, <2>3 DEF Saves, ClaimInv, ClaimsHold
<1>3. "reapply" \notin Faults => unlive' = {}
  BY DEF Saves, ClaimInv, ClaimsHold
<1> QED BY <1>1, <1>2, <1>3 DEF ClaimInv, ClaimsHold

LEMMA ClaimStep ==
  ASSUME Inv, ClaimInv, [Next]_vars
  PROVE  ClaimInv'
<1>1. ASSUME NEW c \in Callers, Write(c) PROVE ClaimInv'
  <2>1. PICK k \in Keys : pc' = [pc EXCEPT ![c] = IF k \in StaticKeys
                                                  THEN "static" ELSE "describe"]
                          /\ key' = [key EXCEPT ![c] = k]
    BY <1>1 DEF Write
  <2>2. /\ pc[c] = "idle" /\ Enters(c)
        /\ UNCHANGED <<profile, live, kept, settings>>
    BY <1>1 DEF Write
  <2>3. pc'[c] \in {"static", "describe"} /\ key'[c] = k
        /\ (pc'[c] = "describe" => k \notin StaticKeys)
        /\ \A d \in Callers : d # c => pc'[d] = pc[d]
    BY <2>1 DEF Inv, TypeOK
  <2>4. CASE \A d \in Callers : pc[d] = "idle"
    <3>1. alone' = {c} /\ UNCHANGED claimVars
      BY <2>2, <2>4 DEF Enters
    <3>2. pc'[c] = "describe" => ~Refused(c, kept[c])'
      BY <2>3 DEF Refused
    <3>3. AloneUndisturbed'
      BY <2>2, <2>3, <2>4, <3>1, <3>2 DEF AloneUndisturbed
    <3>4. ClaimsHold'
      BY <2>2, <2>3, <2>4, <3>1 DEF ClaimInv, ClaimsHold
    <3> QED BY <3>3, <3>4 DEF ClaimInv
  <2>5. CASE ~ \A d \in Callers : pc[d] = "idle"
    <3>1. alone' = {} /\ claims' = {} /\ doubtful' = {} /\ unlive' = {}
      BY <2>2, <2>5 DEF Enters
    <3> QED BY <3>1 DEF ClaimInv, AloneUndisturbed, ClaimsHold
  <2> QED BY <2>4, <2>5
<1>2. ASSUME NEW c \in Callers, ReadStatic(c) PROVE ClaimInv'
  <2>1. PICK s \in StaticReads :
          \/ /\ ~Refused(c, s)
             /\ pc' = [pc EXCEPT ![c] = "describe"]
             /\ kept' = [kept EXCEPT ![c] = s]
             /\ UNCHANGED <<key, value, settings, alone>>
          \/ Refused(c, s) /\ Ends(c)
    BY <1>2 DEF ReadStatic
  <2>2. UNCHANGED <<profile, live, claimVars>> /\ pc[c] = "static"
    BY <1>2 DEF ReadStatic
  <2>3. "static" \notin Faults => s = StaticPart
    BY DEF StaticReads
  <2>4. CASE Ends(c)
    BY <2>2, <2>4, EndKeepsClaims
  <2>5. CASE /\ ~Refused(c, s)
             /\ pc' = [pc EXCEPT ![c] = "describe"]
             /\ kept' = [kept EXCEPT ![c] = s]
             /\ UNCHANGED <<key, value, settings, alone>>
    <3>1. \A d \in alone : d = c
      BY <2>2 DEF ClaimInv, AloneUndisturbed
    <3>2. pc'[c] = "describe" /\ kept'[c] = s /\ \A d \in Callers : d # c => pc'[d] = pc[d]
      BY <2>5 DEF Inv, TypeOK
    <3>3. ~Refused(c, kept[c])' /\ StaticPart' = StaticPart
      BY <2>2, <2>5, <3>2 DEF Refused, StaticPart
    <3>4. AloneUndisturbed'
      BY <2>2, <2>3, <2>5, <3>1, <3>2, <3>3 DEF ClaimInv, AloneUndisturbed
    <3>5. ClaimsHold'
      BY <2>2, <2>5, <3>2 DEF ClaimInv, ClaimsHold
    <3> QED BY <3>4, <3>5 DEF ClaimInv
  <2> QED BY <2>1, <2>4, <2>5
<1>3. ASSUME NEW c \in Callers, Describe(c) PROVE ClaimInv'
  <2>1. /\ pc[c] = "describe" /\ pc' = [pc EXCEPT ![c] = "update"]
        /\ settings' = [settings EXCEPT ![c] = Changed(c, profile)]
        /\ UNCHANGED <<profile, live, key, value, kept, alone, claimVars>>
    BY <1>3 DEF Describe, CallerGoes, history
  <2>2. \A d \in alone : d = c
    BY <2>1 DEF ClaimInv, AloneUndisturbed
  <2>3. pc'[c] = "update" /\ settings'[c] = Changed(c, profile)
        /\ \A d \in Callers : d # c => pc'[d] = pc[d]
    BY <2>1 DEF Inv, TypeOK
  <2>4. /\ Refused(c, kept[c])' = Refused(c, kept[c]) /\ StaticPart' = StaticPart
        /\ Changed(c, profile)' = Changed(c, profile)
    BY <2>1 DEF Refused, StaticPart, Changed
  <2>5. AloneUndisturbed'
    BY <2>1, <2>2, <2>3, <2>4 DEF ClaimInv, AloneUndisturbed
  <2>6. ClaimsHold'
    BY <2>1, <2>3 DEF ClaimInv, ClaimsHold
  <2> QED BY <2>5, <2>6 DEF ClaimInv
<1>4. ASSUME NEW c \in Callers, Update(c) PROVE ClaimInv'
  <2>1. /\ pc[c] = "update" /\ pc' = [pc EXCEPT ![c] = "reapply"] /\ Saves(c)
        /\ UNCHANGED <<live, key, value, kept, settings, alone>>
    BY <1>4 DEF Update, CallerGoes
  <2>2. \A d \in alone : d = c
    BY <2>1 DEF ClaimInv, AloneUndisturbed
  <2>3. pc'[c] = "reapply" /\ \A d \in Callers : d # c => pc'[d] = pc[d]
    BY <2>1 DEF Inv, TypeOK
  <2>4. c \in alone => settings'[c] = profile' /\ profile'[key'[c]] = value'[c]
    BY <2>1, ChangeIsLocal DEF ClaimInv, AloneUndisturbed, Saves
  <2>5. AloneUndisturbed'
    BY <2>1, <2>2, <2>3, <2>4 DEF ClaimInv, AloneUndisturbed
  <2>6. \A d \in Callers : pc'[d] # "idle" => pc[d] # "idle"
    BY <2>1, <2>3
  <2>7. ClaimsHold'
    BY <2>1, <2>6, SaveKeepsClaims
  <2> QED BY <2>5, <2>7 DEF ClaimInv
<1>5. ASSUME NEW c \in Callers, Reapply(c) \/ ReapplyFails(c) PROVE ClaimInv'
  <2>1. /\ pc[c] = "reapply" /\ Claim(c) /\ Ends(c) /\ profile' = profile
        /\ live' \in {live, settings[c]}
        /\ \/ live' = settings[c] /\ unlive' = {}
           \/ "reapply" \in Faults /\ unlive' = unlive \cup Told(c)
    BY <1>5 DEF Reapply, ReapplyFails
  <2>2. \A d \in alone : d = c
    BY <2>1 DEF ClaimInv, AloneUndisturbed
  <2>3. alone' = {} /\ \A d \in Callers : pc'[d] # "idle" => d # c /\ pc[d] # "idle"
    BY <2>1, <2>2 DEF Ends, Inv, TypeOK
  <2>4. AloneUndisturbed'
    BY <2>3 DEF AloneUndisturbed
  <2>5. ASSUME NEW l \in claims'
        PROVE  /\ \A d \in Callers : pc'[d] = "idle"
               /\ l \notin doubtful' => profile[l.key] = l.value
               /\ l \notin doubtful' \cup unlive' => live'[l.key] = l.value
    <3>1. c \in alone
      BY <2>1, <2>5 DEF Claim, Told, ClaimInv, ClaimsHold
    <3>2. settings[c] = profile /\ profile[key[c]] = value[c]
      BY <2>1, <3>1 DEF ClaimInv, AloneUndisturbed
    <3>3. \A d \in Callers : pc'[d] = "idle"
      BY <2>3, <3>1 DEF ClaimInv, AloneUndisturbed
    <3>4. CASE l \in Told(c)
      <4>1. profile[l.key] = l.value
        BY <3>2, <3>4 DEF Told
      <4>2. l \notin unlive' => live' = profile
        BY <2>1, <3>2, <3>4
      <4> QED BY <3>3, <4>1, <4>2
    <3>5. CASE l \notin Told(c)
      <4>1. l \in claims /\ (l \notin doubtful' => l \notin doubtful)
        BY <2>1, <2>5, <3>5 DEF Claim
      <4>2. l \notin doubtful' => profile[l.key] = l.value
        BY <4>1 DEF ClaimInv, ClaimsHold
      <4>3. l \notin doubtful' \cup unlive' => live' = profile \/ (l \notin unlive /\ live' = live)
        BY <2>1, <3>2
      <4>4. l \notin doubtful \cup unlive => live[l.key] = l.value
        BY <4>1 DEF ClaimInv, ClaimsHold
      <4> QED BY <3>3, <4>1, <4>2, <4>3, <4>4
    <3> QED BY <3>4, <3>5
  <2>6. /\ "static" \notin Faults => doubtful' = {}
        /\ "reapply" \notin Faults => unlive' = {}
    BY <2>1 DEF Claim, ClaimInv, ClaimsHold
  <2>7. ClaimsHold'
    BY <2>1, <2>5, <2>6 DEF ClaimsHold
  <2> QED BY <2>4, <2>7 DEF ClaimInv
<1>6. ASSUME NEW c \in Callers, DescribeFails(c) \/ UpdateFails(c) PROVE ClaimInv'
  <2>1. Ends(c) /\ live' = live /\ pc[c] # "idle"
    BY <1>6 DEF DescribeFails, UpdateFails
  <2>2. CASE UNCHANGED <<profile, claimVars>>
    BY <2>1, <2>2, EndKeepsClaims
  <2>3. CASE pc[c] = "update" /\ Saves(c)
    <3>1. \A d \in alone : d = c
      BY <2>1 DEF ClaimInv, AloneUndisturbed
    <3>2. AloneUndisturbed'
      BY <2>1, <3>1 DEF Ends, AloneUndisturbed
    <3>3. \A d \in Callers : pc'[d] # "idle" => pc[d] # "idle" /\ d # c
      BY <2>1 DEF Ends, Inv, TypeOK
    <3>4. \A d \in Callers : d # c /\ d \in alone => d \in alone'
      BY <2>1 DEF Ends
    <3>5. ClaimsHold'
      BY <2>1, <2>3, <3>3, <3>4, SaveKeepsClaims
    <3> QED BY <3>2, <3>5 DEF ClaimInv
  <2> QED BY <1>6, <2>2, <2>3 DEF DescribeFails, UpdateFails
<1>7. ASSUME Restart PROVE ClaimInv'
  <2>1. AloneUndisturbed'
    BY <1>7 DEF Restart, AloneUndisturbed
  <2>2. ClaimsHold'
    BY <1>7 DEF Restart, ClaimInv, ClaimsHold
  <2> QED BY <2>1, <2>2 DEF ClaimInv
<1>8. CASE UNCHANGED vars
  BY <1>8 DEF vars, threadVars, history, ClaimInv, AloneUndisturbed, ClaimsHold, Refused,
     StaticPart, Changed
<1> QED BY <1>1, <1>2, <1>3, <1>4, <1>5, <1>6, <1>7, <1>8 DEF Next

LEMMA ClaimInvAlways == Spec => [](Inv /\ ClaimInv)
<1>1. Init => Inv /\ ClaimInv
  BY InvInit DEF Init, ClaimInv, AloneUndisturbed, ClaimsHold
<1>2. Inv /\ ClaimInv /\ [Next]_vars => (Inv /\ ClaimInv)'
  BY InvStep, ClaimStep
<1> QED BY <1>1, <1>2, PTL DEF Spec

\* What a client was answered 204 for is on disk until someone writes that key, and live
\* unless its own Reapply failed and no other has followed, whatever fails; but addresses
\* or gateway can be lost to a write of the other after a failed read.
THEOREM ClaimsDoStand == Spec => []ClaimsStand
<1>1. Inv /\ ClaimInv => ClaimsStand
  BY DEF ClaimInv, ClaimsHold, ClaimsStand
<1> QED BY <1>1, ClaimInvAlways, PTL

\* Those two failures are the only exceptions: where they do not happen, whatever else
\* fails, what was answered 204 is in effect, on disk and in the device.
THEOREM ClaimsStayInEffect ==
  ASSUME "static" \notin Faults, "reapply" \notin Faults
  PROVE  Spec => []ClaimsInEffect
<1>1. Inv /\ ClaimInv => ClaimsInEffect
  BY DEF ClaimInv, ClaimsHold, ClaimsInEffect
<1> QED BY <1>1, ClaimInvAlways, PTL
=============================================================================
