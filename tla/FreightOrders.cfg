SPECIFICATION Spec
CONSTANTS
  Container = {yard, site}
  Yard = yard
  Client = {c1}
  Order = {o1}
  Request = {r1, r2}
  Invoice = {bill}
  AmendId = {a1}
  AmendStatus = {"awarded", "cancelled"}
  MaxRevision = 7
  MaxStops = 1
SYMMETRY Symmetry
INVARIANTS TypeOK MovedOnce EvidenceTrue OrderMatchesMovement
PROPERTIES OrderKept
CHECK_DEADLOCK FALSE
