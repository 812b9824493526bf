SPECIFICATION Spec
CONSTANTS
  Process = {api, worker}
  Claimant = {}
  Id = {i1, i2}
  Source = {s1, s2}
  Entity = {}
  None = None
  MayStall = FALSE
  MaxFaults = 1
SYMMETRY Symmetry
INVARIANTS ExclusiveWrites
