------------------------------ MODULE CentSums ------------------------------
(***************************************************************************)
(* The totals the financial services add up document by document, e.g.     *)
(* credits.reduce((sum, doc) => sum + cents(totalOf(doc)), 0) in            *)
(* IXIFinancialSaleReturnService.js.  A total of cents is the number of     *)
(* the cents: said so, it takes no recursion over the documents, and can    *)
(* be reasoned about as well as evaluated.                                  *)
(***************************************************************************)
EXTENDS Naturals, FiniteSets

(* The cents of the documents D, each told apart by its document.            *)
CentsOf(amount, D) == UNION {{d} \X (1..amount[d]) : d \in D}

SumCents(amount, D) == Cardinality(CentsOf(amount, D))
=============================================================================
