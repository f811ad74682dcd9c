SPECIFICATION Spec
CONSTANTS
  Callers = {c1}
  Addresses = {a1}
  Gateways = {g1}
  Servers = {d1}
  Domains = {}
  Nothing = nothing
  Faults = {"static"}
INVARIANTS
  ClaimsInEffect
