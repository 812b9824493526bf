-------------------------- MODULE PayableBalanceMC --------------------------
(* Small instances of PayableBalance: one payable source, the documents that  *)
(* settle it, and what users make of each.                                    *)
EXTENDS PayableBalance, FiniteSetsExt, TLC

CONSTANTS src, p1, p2, c1

Plain(kind, link) == [kind |-> kind, link |-> link, method |-> "none"]

(* A Bill with a payment and a credit.  The payment may become one received   *)
(* that is linked to nothing, and come back.                                  *)
BillShapes == (src :> {Plain("bill", None)}) @@
              (p1 :> {Plain("outflow", src), Plain("inflow", None)}) @@
              (c1 :> {Plain("credit", src)})

(* An Expense and its payments.  My money is owed like unpaid.                *)
ExpenseShapes == (src :> [kind : {"expense"}, link : {None}, method : {"unpaid", "company"}]) @@
                 [d \in Doc \ {src} |-> {Plain("outflow", src)}]

(* The totals of CentSums are the sums a reducer computes.                    *)
ASSUME TotalsAreSums ==
    \A amount \in [1..3 -> 0..3], D \in SUBSET (1..3) :
       SumCents(amount, D) = MapThenSumSet(LAMBDA d : amount[d], D)

Symmetry == Permutations(Worker) \cup Permutations(Key)
PaymentSymmetry == Symmetry \cup Permutations({p1, p2})
=============================================================================
