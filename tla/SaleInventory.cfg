SPECIFICATION Spec
CONSTANTS
  Invoice = {a, b}
  Traded = {b}
  CreditId = {c1, c2}
  RefundId = {r1, r2}
  Worker = {w1, w2}
  None = None
  Total = 2
  MaxDay = 2
  MaxCalls = 6
SYMMETRY Symmetry
INVARIANTS TypeOK InventoryTrue MoneyWithinSale
\* Users may simply make no further request (and requests are bounded).
CHECK_DEADLOCK FALSE
