--------------------------- MODULE SaleInventoryMC ---------------------------
(* Small instances of SaleInventory.  Requests, and the commands of credits  *)
(* and of refunds, are interchangeable.                                      *)
EXTENDS SaleInventory, TLC

Symmetry == Permutations(Worker) \cup Permutations(CreditId) \cup Permutations(RefundId)
            \cup Permutations(Invoice \ Traded)
=============================================================================
