---------------------------- MODULE SaleInventory ----------------------------
(***************************************************************************)
(* The sale of one machine of a company, and what undoes it: SOLD closes a *)
(* collected invoice, credits and refunds give the customer money back, a  *)
(* return puts the machine back into private inventory, a later            *)
(* acquisition brings it in again, and then it is sold by another invoice. *)
(*                                                                          *)
(* The inventory is a projection of the documents, ordered by the dates    *)
(* users give them (IXIFinancialInventoryLifecycle.js).  A request reads,  *)
(* decides, and commits one DynamoDB transaction; what holds it to what it *)
(* read are conditions in that transaction: the machine's inventory lock,  *)
(* counters of what was credited and refunded, the revision of the invoice *)
(* and the absence of the new document (IXIFinancialDynamoStore.js).       *)
(*                                                                          *)
(* Every invoice is for this machine and for Total cents.  Day 0 is "no    *)
(* date".  The tax counter is one more counter of the same kind and is     *)
(* left out.                                                                *)
(***************************************************************************)
EXTENDS Naturals, CentSums

CONSTANTS Invoice,       \* collected invoices for the machine
          Traded,        \* those of them settled in part (1 cent) by a trade-in
          CreditId,      \* adjustments, by the command ID they derive theirs from
          RefundId,      \* refunds, likewise
          Worker,        \* requests that may be in flight together
          None,          \* no invoice, no document, no revision, no counter
          Total,         \* cents of an invoice
          MaxDay,        \* bound: business dates
          MaxCalls       \* bound: requests, acquisitions and receipt changes

ASSUME InvoicesAssumption ==
    /\ Traded \subseteq Invoice /\ CreditId \cap RefundId = {}
    /\ IsFiniteSet(CreditId) /\ IsFiniteSet(RefundId)
    /\ None \notin Invoice /\ None \notin CreditId /\ None \notin Nat
ASSUME BoundsAssumption ==
    Total \in Nat \ {0} /\ MaxDay \in Nat \ {0} /\ MaxCalls \in Nat

VARIABLES invoice,       \* metadata and revision of each invoice
          acquired,      \* dates of the machine's asset-acquisition documents
          credit,        \* revenue credits
          refund,        \* customer refunds
          received,      \* cents of the active receipts of each invoice
          spent,         \* SALE-BALANCE items: the counters
          lock,          \* INVENTORY-LOCK item of the machine
          call,          \* the requests in flight
          calls,         \* how many there were
          disordered,    \* ghost: an event was dated before a recorded one
          overwrote,     \* ghost: a write without a revision replaced a newer one
          unseen,        \* ghost: a sale was committed over a return it had not seen
          clawedBack     \* ghost: invoices that lost receipts after a refund began

documents == <<invoice, acquired, credit, refund, received>>
ghosts == <<disordered, overwrote, unseen, clawedBack>>
vars == <<documents, spent, lock, call, calls, ghosts>>

-----------------------------------------------------------------------------
Day == 1..MaxDay
Cents == 1..Total

(* inventoryMutation: the event that last moved the machine on this invoice. *)
Mutation == [sequence : Nat, state : {"sold", "owned"}, previous : Invoice \cup {None}]
(* assetSaleRecord's date, the date of the return event, inventoryMutation.  *)
Metadata == [sold : 0..MaxDay, returned : 0..MaxDay, mutation : Mutation \cup {None}]
Unsold == [sold |-> 0, returned |-> 0, mutation |-> None]

CreditDoc == [sale : Invoice, amount : Cents, kind : {"price-adjustment", "return"}]
RefundDoc == [credit : CreditId, amount : Cents]
Counter == ({"credit", "cash-refund"} \X Invoice) \cup ({"refund"} \X CreditId)

Sold(i) == invoice[i].data.sold > 0
Returned(i) == invoice[i].data.returned > 0

-----------------------------------------------------------------------------
(* projectInventory.                                                         *)

(* A sale shares the sequence of the return that replaced its mutation.      *)
SaleEvent(i) ==
    [state |-> "sold", day |-> invoice[i].data.sold,
     sequence |-> invoice[i].data.mutation.sequence, priority |-> 2, sale |-> i]
ReturnEvent(i) ==
    [state |-> "owned", day |-> invoice[i].data.returned,
     sequence |-> invoice[i].data.mutation.sequence, priority |-> 3, sale |-> i]
AcquisitionEvent(d) ==
    [state |-> "owned", day |-> d, sequence |-> 0, priority |-> 1, sale |-> None]

Events == {SaleEvent(i) : i \in {j \in Invoice : Sold(j)}}
          \cup {ReturnEvent(i) : i \in {j \in Invoice : Sold(j) /\ Returned(j)}}
          \cup {AcquisitionEvent(d) : d \in acquired}

Before(e, f) ==
    \/ e.day < f.day
    \/ e.day = f.day /\ e.sequence < f.sequence
    \/ e.day = f.day /\ e.sequence = f.sequence /\ e.priority < f.priority

(* The last event is the machine's state.  What the order leaves open is     *)
(* decided by the clock at entry: any of them.                               *)
Current == {e \in Events : \A f \in Events : ~Before(e, f)}

(* The sale a new one follows: the one with the latest sale date.            *)
PreviousSale ==
    LET sales == {i \in Invoice : Sold(i)} IN
    IF sales = {} THEN {None}
    ELSE {i \in sales : \A j \in sales : invoice[j].data.sold <= invoice[i].data.sold}

-----------------------------------------------------------------------------
(* Sums over the documents.                                                  *)
CreditsOf(i) == {c \in CreditId : credit[c] # None /\ credit[c].sale = i}
RefundsOf(c) == {r \in RefundId : refund[r] # None /\ refund[r].credit = c}
Trade(i) == IF i \in Traded THEN 1 ELSE 0
CreditCents == [c \in CreditId |-> IF credit[c] = None THEN 0 ELSE credit[c].amount]
RefundCents == [r \in RefundId |-> IF refund[r] = None THEN 0 ELSE refund[r].amount]

Credited(i) == Trade(i) + SumCents(CreditCents, CreditsOf(i))
Refunded(c) == SumCents(RefundCents, RefundsOf(c))
CashRefunded(i) == SumCents(RefundCents, {r \in RefundId : refund[r] # None
                                                           /\ refund[r].credit \in CreditsOf(i)})

(* Mutant of HasRoom: the documents the request has read are trusted.        *)
HasRoomAsRead(counter, baseline, limit, amount) == baseline + amount <= limit

(* createSaleBalanceTransactionItems: the condition on a counter, and what   *)
(* it holds afterwards.                                                      *)
HasRoom(counter, baseline, limit, amount) ==
    (IF spent[counter] = None THEN baseline ELSE spent[counter]) + amount <= limit
After(counter, baseline, amount) ==
    (IF spent[counter] = None THEN baseline ELSE spent[counter]) + amount

-----------------------------------------------------------------------------
(* Requests.                                                                 *)
Idle == [op |-> "idle"]
View == [state : {"sold", "owned", "none"}, sale : Invoice \cup {None},
         sequence : Nat, previous : Invoice \cup {None}]
NoView == [state |-> "none", sale |-> None, sequence |-> 0, previous |-> None]

(* returns: a ghost, the returns the view has seen.                          *)
InvoiceCall ==
    [op : {"sell", "patch", "return"}, sale : Invoice, read : Metadata \cup {None},
     revision : Nat, view : View \cup {None}, returns : SUBSET Invoice]
AdjustCall == [op : {"adjust"}, id : CreditId, document : CreditDoc, baseline : Nat]
RefundCall == [op : {"refund"}, id : RefundId, sale : Invoice, document : RefundDoc,
               baseline : Nat, returned : Nat, received : Nat]

Begin(w, c) ==
    /\ call[w] = Idle /\ calls < MaxCalls
    /\ call' = [call EXCEPT ![w] = c]
    /\ calls' = calls + 1
    /\ UNCHANGED <<documents, spent, lock, ghosts>>

Proceed(w, c) ==
    /\ call' = [call EXCEPT ![w] = c]
    /\ UNCHANGED <<documents, spent, lock, calls, ghosts>>

(* A check refuses the request, a condition fails, a read fails, or the      *)
(* process dies: nothing is written.                                         *)
GiveUp(w) == call[w] # Idle /\ Proceed(w, Idle)

-----------------------------------------------------------------------------
(* SOLD: PATCH of the invoice.  The inventory may have been read before the  *)
(* invoice: requests join a read of it that is under way (loadInventory).    *)
BeginSale(w, i) ==
    Begin(w, [op |-> "sell", sale |-> i, read |-> None, revision |-> 0,
              view |-> None, returns |-> {}])

(* assertInvoiceCollectionPatchAvailable: collected, with a zero balance and *)
(* some money received.                                                      *)
CollectedSale(i) ==
    /\ received[i] + Credited(i) >= Total
    /\ received[i] > 0 /\ Credited(i) < Total

(* The route reads the invoice.                                              *)
ReadForSale(w) ==
    LET c == call[w] IN
    /\ c.op = "sell" /\ c.read = None
    /\ ~Sold(c.sale) /\ CollectedSale(c.sale)
    /\ Proceed(w, [c EXCEPT !.read = invoice[c.sale].data,
                            !.revision = invoice[c.sale].revision])

LoadInventory(w) ==
    LET c == call[w] IN
    /\ c.op = "sell" /\ c.view = None
    /\ \E e \in Current \cup (IF Events = {} THEN {NoView} ELSE {}), p \in PreviousSale :
          Proceed(w, [c EXCEPT !.view = [state |-> e.state, sale |-> e.sale,
                                         sequence |-> e.sequence, previous |-> p],
                               !.returns = {i \in Invoice : Returned(i)}])

(* bindSoldInventory: the machine is not sold by another invoice.            *)
MayBeSold(c) == c.view.state = "sold" => c.view.sale = c.sale
SaleOf(c, day) ==
    [c.read EXCEPT !.sold = day,
                   !.mutation = [sequence |-> c.view.sequence + 1, state |-> "sold",
                                 previous |-> c.view.previous]]

(* A PATCH of something else in the invoice's metadata: the patch replaces   *)
(* the metadata, and may change nothing the route read about the sale.       *)
BeginPatch(w, i) ==
    Begin(w, [op |-> "patch", sale |-> i, read |-> invoice[i].data,
              revision |-> invoice[i].revision, view |-> None, returns |-> {}])

(* planReturn: a return credit is recorded, and no return yet.               *)
BeginReturn(w, i) ==
    /\ Sold(i) /\ ~Returned(i)
    /\ \E c \in CreditsOf(i) : credit[c].kind = "return"
    /\ Begin(w, [op |-> "return", sale |-> i, read |-> invoice[i].data,
                 revision |-> invoice[i].revision, view |-> None, returns |-> {}])
ReturnOf(c, day) ==
    [c.read EXCEPT !.returned = day,
                   !.mutation = [sequence |-> c.read.mutation.sequence + 1, state |-> "owned",
                                 previous |-> c.sale]]

-----------------------------------------------------------------------------
(* patchDocument and the transaction of replaceDocumentRecord.               *)
Fresh(c) == c.op \in {"sell", "return"}

(* The metadata a call may write, whatever date its user gives.              *)
Written(c) ==
    CASE c.op = "sell" -> {SaleOf(c, d) : d \in Day}
      [] c.op = "return" -> {ReturnOf(c, d) : d \in {e \in Day : e >= c.read.sold}}
      [] c.op = "patch" -> {c.read}

(* createInventoryTransactionItems: a mutation the invoice does not have yet *)
(* takes the lock over from the sale it names.                               *)
MovesMachine(c, data) ==
    data.mutation # None /\ (Fresh(c) \/ data.mutation # invoice[c.sale].data.mutation)
LockItem == [sale : Invoice, state : {"sold", "owned"}]
ASSUME NoneAssumption ==
    /\ None \notin Mutation /\ None \notin LockItem
    /\ None \notin CreditDoc /\ None \notin RefundDoc
(* Mutant of LockFree: the lock is put without a condition.                  *)
LockAlwaysFree(data) == TRUE
LockFree(data) ==
    lock \in {None} \cup {item \in LockItem : item.sale = data.mutation.previous}

DateOf(c, data) == IF c.op = "return" THEN data.returned ELSE data.sold

(* Mutant of LockedBy: the sale and the one before it are mixed up.          *)
LockedByPrevious(c, data) == [sale |-> data.mutation.previous, state |-> data.mutation.state]
LockedBy(c, data) == [sale |-> c.sale, state |-> data.mutation.state]

(* Only a return must name the revision it read.                             *)
RevisionHolds(c) == c.op = "return" => invoice[c.sale].revision = c.revision

CommitInvoice(w) ==
    LET c == call[w] IN
    /\ c.op \in {"sell", "patch", "return"} /\ c.read # None
    /\ c.op = "sell" => c.view # None /\ MayBeSold(c)
    /\ RevisionHolds(c)
    /\ \E data \in Written(c) :
          /\ MovesMachine(c, data) => LockFree(data)
          /\ invoice' = [invoice EXCEPT ![c.sale] =
                            [data |-> data, revision |-> @.revision + 1]]
          /\ lock' = IF MovesMachine(c, data) THEN LockedBy(c, data) ELSE lock
          /\ disordered' = (disordered \/ (Fresh(c) /\ \E e \in Events : DateOf(c, data) < e.day))
    /\ overwrote' = (overwrote \/ invoice[c.sale].revision # c.revision)
    /\ unseen' = (unseen \/ (c.op = "sell" /\ \E i \in Invoice \ c.returns : Returned(i)))
    /\ call' = [call EXCEPT ![w] = Idle]
    /\ UNCHANGED <<acquired, credit, refund, received, spent, calls, clawedBack>>

-----------------------------------------------------------------------------
(* An asset-acquisition document: the machine comes in (again).              *)
Acquire(d) ==
    /\ d \notin acquired /\ calls < MaxCalls
    /\ calls' = calls + 1
    /\ acquired' = acquired \cup {d}
    /\ disordered' = (disordered \/ \E e \in Events : d < e.day)
    /\ UNCHANGED <<invoice, credit, refund, received, spent, lock, call,
                   overwrote, unseen, clawedBack>>

(* PUT of a receipt: neither the sale nor a refund is looked at.             *)
RefundBegun(i) ==
    \/ CashRefunded(i) > 0
    \/ \E w \in Worker : call[w].op = "refund" /\ call[w].sale = i
ReplaceReceipt(i) ==
    /\ calls < MaxCalls
    /\ calls' = calls + 1
    /\ \E n \in 0..(Total - Trade(i)) :
          /\ n # received[i]
          /\ received' = [received EXCEPT ![i] = n]
          /\ clawedBack' = IF n < received[i] /\ RefundBegun(i) THEN clawedBack \cup {i} ELSE clawedBack
          /\ UNCHANGED <<invoice, acquired, credit, refund, spent, lock, call,
                         disordered, overwrote, unseen>>

-----------------------------------------------------------------------------
(* planAdjustment.  A command that is recorded is answered from its record.  *)
BeginAdjust(w, id, i) ==
    /\ credit[id] = None /\ Sold(i)
    /\ ~\E c \in CreditsOf(i) : credit[c].kind = "return"
    /\ \E n \in Cents, k \in {"price-adjustment", "return"} :
          /\ n + Credited(i) <= Total
          /\ k = "return" => i \notin Traded /\ n + Credited(i) = Total
          /\ Begin(w, [op |-> "adjust", id |-> id, baseline |-> Credited(i),
                       document |-> [sale |-> i, amount |-> n, kind |-> k]])

CommitAdjust(w) ==
    LET c == call[w] IN
    /\ c.op = "adjust"
    /\ LET n == c.document.amount  counter == <<"credit", c.document.sale>> IN
       /\ credit[c.id] = None
       /\ HasRoom(counter, c.baseline, Total, n)
       /\ spent' = [spent EXCEPT ![counter] = After(counter, c.baseline, n)]
    /\ credit' = [credit EXCEPT ![c.id] = c.document]
    /\ call' = [call EXCEPT ![w] = Idle]
    /\ UNCHANGED <<invoice, acquired, refund, received, lock, calls, ghosts>>

(* planRefund: within the credit, and within the money received.             *)
BeginRefund(w, id, cr) ==
    /\ refund[id] = None /\ credit[cr] # None
    /\ LET i == credit[cr].sale IN
       /\ Sold(i)
       /\ \E n \in Cents :
             /\ n + Refunded(cr) <= credit[cr].amount
             /\ n + CashRefunded(i) <= received[i]
             /\ Begin(w, [op |-> "refund", id |-> id, sale |-> i,
                          document |-> [credit |-> cr, amount |-> n],
                          baseline |-> Refunded(cr), returned |-> CashRefunded(i),
                          received |-> received[i]])

CommitRefund(w) ==
    LET c == call[w] IN
    /\ c.op = "refund"
    /\ LET cr == c.document.credit  n == c.document.amount
           ofCredit == <<"refund", cr>>  ofSale == <<"cash-refund", c.sale>> IN
       /\ refund[c.id] = None
       /\ HasRoom(ofCredit, c.baseline, credit[cr].amount, n)
       /\ HasRoom(ofSale, c.returned, c.received, n)
       /\ spent' = [spent EXCEPT ![ofCredit] = After(ofCredit, c.baseline, n),
                                 ![ofSale] = After(ofSale, c.returned, n)]
    /\ refund' = [refund EXCEPT ![c.id] = c.document]
    /\ call' = [call EXCEPT ![w] = Idle]
    /\ UNCHANGED <<invoice, acquired, credit, received, lock, calls, ghosts>>

-----------------------------------------------------------------------------
Init ==
    /\ invoice = [i \in Invoice |-> [data |-> Unsold, revision |-> 1]]
    /\ acquired = {}
    /\ credit = [c \in CreditId |-> None]
    /\ refund = [r \in RefundId |-> None]
    /\ received = [i \in Invoice |-> Total - Trade(i)]
    /\ spent = [k \in Counter |->
                  IF k[1] = "credit" /\ k[2] \in Traded THEN 1 ELSE None]
    /\ lock = None
    /\ call = [w \in Worker |-> Idle]
    /\ calls = 0
    /\ disordered = FALSE /\ overwrote = FALSE /\ unseen = FALSE
    /\ clawedBack = {}

Step(w) ==
    \/ \E i \in Invoice : BeginSale(w, i) \/ BeginPatch(w, i) \/ BeginReturn(w, i)
    \/ ReadForSale(w) \/ LoadInventory(w) \/ CommitInvoice(w)
    \/ \E c \in CreditId, i \in Invoice : BeginAdjust(w, c, i)
    \/ \E r \in RefundId, c \in CreditId : BeginRefund(w, r, c)
    \/ CommitAdjust(w) \/ CommitRefund(w) \/ GiveUp(w)

Next ==
    \/ \E w \in Worker : Step(w)
    \/ \E d \in Day : Acquire(d)
    \/ \E i \in Invoice : ReplaceReceipt(i)

Spec == Init /\ [][Next]_vars

-----------------------------------------------------------------------------
(* Documents, counters, lock and requests are well formed.                   *)
TypeOK ==
    /\ invoice \in [Invoice -> [data : Metadata, revision : Nat]]
    /\ acquired \subseteq Day
    /\ credit \in [CreditId -> CreditDoc \cup {None}]
    /\ refund \in [RefundId -> RefundDoc \cup {None}]
    /\ received \in [Invoice -> 0..Total]
    /\ spent \in [Counter -> Nat \cup {None}]
    /\ lock \in LockItem \cup {None}
    /\ call \in [Worker -> {Idle} \cup InvoiceCall \cup AdjustCall \cup RefundCall]
    /\ calls \in 0..MaxCalls
    /\ disordered \in BOOLEAN /\ overwrote \in BOOLEAN /\ unseen \in BOOLEAN
    /\ clawedBack \subseteq Invoice

Open(i) == Sold(i) /\ ~Returned(i)

(* The machine is not sold twice: between two sales that stand, it was       *)
(* acquired again.                                                           *)
SoldOnce ==
    \A i, j \in Invoice :
       i # j /\ Open(i) /\ Open(j) /\ invoice[i].data.sold <= invoice[j].data.sold =>
          \E d \in acquired : invoice[i].data.sold <= d /\ d <= invoice[j].data.sold

(* The lock names the machine's last sale and says whether it stands, and    *)
(* the projection agrees with it unless the machine was acquired since.      *)
LockAgrees ==
    /\ lock = None => \A i \in Invoice : ~Sold(i)
    /\ lock # None => Sold(lock.sale) /\ (lock.state = "owned" <=> Returned(lock.sale))
    /\ \A e \in Current : e.sale # None => lock = [sale |-> e.sale, state |-> e.state]

(* Sales, returns and acquisitions in any interleaving leave a machine sold  *)
(* at most once, and lock and projection in agreement, as long as users date *)
(* events in order, no write without a revision replaces a newer one, and no *)
(* sale is committed over a return it has not seen.                          *)
InventoryTrue == ~disordered /\ ~overwrote /\ ~unseen => SoldOnce /\ LockAgrees

(* Concurrent credits and refunds stay within the invoice, the credit and    *)
(* the money received (until a receipt is lowered after a refund began); the *)
(* counters say what the documents say; a returned sale is credited in full. *)
MoneyWithinSale ==
    /\ \A i \in Invoice :
          /\ Credited(i) <= Total
          /\ Returned(i) => Credited(i) = Total
          /\ i \notin clawedBack => CashRefunded(i) <= received[i]
          /\ spent[<<"credit", i>>] \in {None, Credited(i)}
          /\ spent[<<"cash-refund", i>>] \in {None, CashRefunded(i)}
    /\ \A c \in CreditId :
          credit[c] # None => /\ Refunded(c) <= credit[c].amount
                              /\ spent[<<"refund", c>>] \in {None, Refunded(c)}
=============================================================================
