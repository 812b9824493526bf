SPECIFICATION Spec
CONSTANTS
  Process = {api, tool}
  Claimant = {tool}
  Id = {i1, i2}
  Source = {s1, s2}
  Entity = {e1}
  None = None
  MayStall = TRUE
  MaxFaults = 1
SYMMETRY Symmetry
INVARIANTS TypeOK ExclusiveUnlessRaced FileConsistent FreshMutation
PROPERTIES PassportsPermanent
