SPECIFICATION FairSpec
CONSTANTS
  Process = {api, tool}
  Claimant = {tool}
  Id = {i1, i2, i3}
  Source = {s1, s2}
  Entity = {}
  None = None
  MayStall = TRUE
  MaxFaults = 0
PROPERTIES NoPassportLost
