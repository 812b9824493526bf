SPECIFICATION Spec
CONSTANTS
  Process = {server, tool}
  Key = {objects, idempotency}
  Entry = {e1, e2}
  NonAudited = {idempotency}
  Unread = Unread
  MaxVersion = 4
SYMMETRY Symmetry
INVARIANTS TypeOK FreshBasis HistoryComplete
PROPERTIES HistoryFaithful ImplementsCollections
