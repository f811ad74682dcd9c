SPECIFICATION Spec
CONSTANTS
  c1 = c1
  c2 = c2
  a1 = a1
  g1 = g1
  Callers = {c1, c2}
  Ports = {1}
  BridgeDevices = {2}
  Addresses = {a1}
  Gateways = {g1}
  Nothing = nothing
  Refused = refused
  Offers <- MCOffers
  Faults = {"disk", "systemd", "static", "nm"}
INVARIANTS
  TypeOK
  SettledForwarding
  AnswerMatchesEffect
  KeyErrorsExplained
