SPECIFICATION Spec
CONSTANTS
  Process = {server, tool}
  Object = {a, b, c}
  Container = {a, b}
  None = None
  Labelled = {c}
  MaxCalls = 3
SYMMETRY Symmetry
INVARIANTS TypeOK StructureAcyclic ContainmentAcyclic ContainmentAgrees ProjectionCurrent
PROPERTIES NoOrphaning
CHECK_DEADLOCK FALSE
