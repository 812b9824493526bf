SPECIFICATION FairSpec
CONSTANTS
  Process = {api, worker}
  Claimant = {}
  Id = {i1}
  Source = {s1}
  Entity = {}
  None = None
  MayStall = TRUE
  MaxFaults = 2
PROPERTIES DesertedLockRecovered
