SPECIFICATION Spec
CONSTANTS
  Callers = {c1, c2}
  Addresses = {a1}
  Gateways = {g1}
  Servers = {d1}
  Domains = {s1}
  Nothing = nothing
  Faults = {"static", "describe", "update", "reapply"}
SYMMETRY Symmetry
INVARIANTS
  TypeOK
  ClaimsStand
  ProfileConsistent
