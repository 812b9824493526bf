SPECIFICATION FairSpec
CONSTANTS
  Request = {r1, r2, r3}
  Object = {o1, o2}
  Nobody = Nobody
  NoObject = NoObject
  MaxFaults = 3
  MaxEnded = 1
INVARIANTS TypeOK OneObject OneActiveEdge AttachUnderLease ReceiptTrue
PROPERTIES CompletedIsFinal IdentityIsFinal KeepsPromise SavedIntentCompletes
