SPECIFICATION Spec
CONSTANTS
  src = src
  p1 = p1
  p2 = p2
  c1 = c1
  Doc = {src, p1, p2}
  None = None
  Worker = {w1, w2}
  Key = {k1}
  NoKey = NoKey
  Shapes <- ExpenseShapes
  Direct = {}
  MaxCents = 1
  MaxRevision = 2
SYMMETRY PaymentSymmetry
INVARIANTS OneWritePerKey
 
\* Users may simply make no further request (and revisions are bounded).
CHECK_DEADLOCK FALSE
