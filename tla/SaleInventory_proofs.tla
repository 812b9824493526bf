------------------------ MODULE SaleInventory_proofs ------------------------
(***************************************************************************)
(* Proof that lock, sales and projection agree, for any invoices, dates and *)
(* any number of requests.  The inductive invariant says how the events of  *)
(* earlier sales trail those of the last one, and of a sale in flight that, *)
(* if the lock still names the sale its view followed and every return has  *)
(* been seen, then the machine is free and its sale will be the last event. *)
(***************************************************************************)
EXTENDS SaleInventory, CentSums_proofs, TLAPS

----------------------------------------------------------------------------
(* What holds whatever dates users give and whoever overwrites whom.         *)
DataSound(data) ==
    /\ data \in Metadata
    /\ data.sold = 0 => data = Unsold
    /\ data.sold > 0 => data.mutation \in Mutation
    /\ data.returned > 0 => data.sold <= data.returned

InvoiceOps == {"sell", "patch", "return"}

ReadKnown(c) ==
    /\ DataSound(c.read) /\ c.revision <= invoice[c.sale].revision
    /\ c.revision = invoice[c.sale].revision => c.read = invoice[c.sale].data
    /\ c.op = "sell" => c.read.sold = 0
    /\ c.op = "return" => c.read.sold > 0 /\ c.read.returned = 0

CallKnown(c) ==
    c.op \in InvoiceOps =>
        /\ c \in InvoiceCall
        /\ c.read # None => ReadKnown(c)

Typed ==
    /\ invoice \in [Invoice -> [data : Metadata, revision : Nat]]
    /\ acquired \subseteq Day
    /\ lock \in LockItem \cup {None}
    /\ call = [w \in Worker |-> call[w]]
    /\ disordered \in BOOLEAN /\ overwrote \in BOOLEAN /\ unseen \in BOOLEAN

----------------------------------------------------------------------------
(* What holds besides while InventoryTrue promises anything.                 *)
Orderly == ~disordered /\ ~overwrote /\ ~unseen

SoldOn(i) == invoice[i].data.sold
ReturnedOn(i) == invoice[i].data.returned
Sequence(i) == invoice[i].data.mutation.sequence
AcquiredSince(i) == \E d \in acquired : SoldOn(i) <= d
Past(day) == \E e \in Events : day < e.day

LockSound ==
    /\ lock = None => \A i \in Invoice : ~Sold(i)
    /\ lock # None => Sold(lock.sale) /\ (lock.state = "owned" <=> Returned(lock.sale))

(* Every sale but the last was returned or followed by an acquisition.       *)
Covered == lock # None =>
    \A i \in Invoice : Open(i) /\ i # lock.sale => AcquiredSince(i)

(* The events of every other sale come before the last sale.                 *)
BehindLast(i, day) ==
    \/ day < SoldOn(lock.sale)
    \/ day = SoldOn(lock.sale) /\ Sequence(i) < Sequence(lock.sale)
Trailing == lock # None =>
    \A i \in Invoice : Sold(i) /\ i # lock.sale =>
        BehindLast(i, SoldOn(i)) /\ (Returned(i) => BehindLast(i, ReturnedOn(i)))

(* The view of a sale in flight is worth something only while these hold.    *)
ViewHolds(c) ==
    /\ lock = None \/ lock.sale = c.view.previous
    /\ \A i \in Invoice : Returned(i) => i \in c.returns
    /\ ~Sold(c.sale) /\ MayBeSold(c)
Free(c) ==
    /\ \A i \in Invoice : Open(i) => AcquiredSince(i)
    /\ \A i \in Invoice : Sold(i) =>
          \/ Sequence(i) <= c.view.sequence
          \/ Past(SoldOn(i)) /\ (Returned(i) => Past(ReturnedOn(i)))
ViewSound(c) ==
    c.op = "sell" /\ c.view # None =>
        /\ c.view.previous = None \/ (c.view.previous \in Invoice /\ Sold(c.view.previous))
        /\ \A i \in c.returns : Returned(i)
        /\ ViewHolds(c) => Free(c)

Consistent ==
    /\ LockSound /\ Covered /\ Trailing /\ SoldOnce
    /\ \A w \in Worker : ViewSound(call[w])

IInv ==
    /\ Typed
    /\ \A i \in Invoice : DataSound(invoice[i].data)
    /\ \A w \in Worker : CallKnown(call[w])
    /\ Orderly => Consistent

----------------------------------------------------------------------------
(* Events.                                                                   *)
LEMMA EventFields ==
    /\ \A i : /\ SaleEvent(i).state = "sold" /\ SaleEvent(i).day = SoldOn(i)
              /\ SaleEvent(i).sequence = Sequence(i)
              /\ SaleEvent(i).priority = 2 /\ SaleEvent(i).sale = i
    /\ \A i : /\ ReturnEvent(i).state = "owned" /\ ReturnEvent(i).day = ReturnedOn(i)
              /\ ReturnEvent(i).sequence = Sequence(i)
              /\ ReturnEvent(i).priority = 3 /\ ReturnEvent(i).sale = i
    /\ \A d : /\ AcquisitionEvent(d).state = "owned" /\ AcquisitionEvent(d).day = d
              /\ AcquisitionEvent(d).sequence = 0
              /\ AcquisitionEvent(d).priority = 1 /\ AcquisitionEvent(d).sale = None
  BY DEF SaleEvent, ReturnEvent, AcquisitionEvent, SoldOn, ReturnedOn, Sequence

LEMMA EventsAre ==
    /\ \A i \in Invoice : Sold(i) => SaleEvent(i) \in Events
    /\ \A i \in Invoice : Sold(i) /\ Returned(i) => ReturnEvent(i) \in Events
    /\ \A d \in acquired : AcquisitionEvent(d) \in Events
    /\ \A e \in Events : \/ \E i \in Invoice : Sold(i) /\ e = SaleEvent(i)
                         \/ \E i \in Invoice : Sold(i) /\ Returned(i) /\ e = ReturnEvent(i)
                         \/ \E d \in acquired : e = AcquisitionEvent(d)
  BY DEF Events

LEMMA DataFields ==
  ASSUME NEW data, DataSound(data)
  PROVE  /\ data.sold \in Int /\ data.sold >= 0 /\ data.returned \in Int /\ data.returned >= 0
         /\ data.returned > 0 => data.sold > 0
         /\ data.sold > 0 => data.mutation # None /\ data.mutation.sequence \in Nat
<1>1. data.sold \in 0..MaxDay /\ data.returned \in 0..MaxDay
  BY DEF DataSound, Metadata
<1>2. data.sold = 0 => data.returned = 0
  BY DEF DataSound, Unsold
<1>3. data.sold > 0 => data.mutation.sequence \in Nat
  BY DEF DataSound, Mutation
<1>4. data.sold > 0 => data.mutation # None
  BY NoneAssumption DEF DataSound
<1> QED BY <1>1, <1>2, <1>3, <1>4, BoundsAssumption


----------------------------------------------------------------------------
(* Documents and requests, whatever dates users give.                        *)
LEMMA InvoiceFields ==
  ASSUME IInv, NEW i \in Invoice
  PROVE  /\ SoldOn(i) \in Int /\ SoldOn(i) >= 0
         /\ ReturnedOn(i) \in Int /\ ReturnedOn(i) >= 0
         /\ Sold(i) <=> SoldOn(i) > 0
         /\ Returned(i) <=> ReturnedOn(i) > 0
         /\ Returned(i) => Sold(i) /\ SoldOn(i) <= ReturnedOn(i)
         /\ Sold(i) => Sequence(i) \in Nat
         /\ invoice[i].revision \in Nat
<1>1. DataSound(invoice[i].data)
  BY DEF IInv
<1>2. invoice[i].revision \in Nat
  BY DEF IInv, Typed
<1>3. /\ SoldOn(i) \in Int /\ SoldOn(i) >= 0 /\ ReturnedOn(i) \in Int /\ ReturnedOn(i) >= 0
      /\ ReturnedOn(i) > 0 => SoldOn(i) > 0
      /\ SoldOn(i) > 0 => Sequence(i) \in Nat
  BY <1>1, DataFields DEF SoldOn, ReturnedOn, Sequence
<1>4. ReturnedOn(i) > 0 => SoldOn(i) <= ReturnedOn(i)
  BY <1>1 DEF DataSound, SoldOn, ReturnedOn
<1> QED BY <1>2, <1>3, <1>4 DEF Sold, Returned, SoldOn, ReturnedOn

LEMMA UnsoldSound == DataSound(Unsold)
  BY BoundsAssumption DEF DataSound, Unsold, Metadata

LEMMA SaleOfSound ==
  ASSUME NEW c \in InvoiceCall, c.view # None, DataSound(c.read), c.read.sold = 0,
         NEW day \in Day
  PROVE  /\ DataSound(SaleOf(c, day)) /\ SaleOf(c, day).sold = day
         /\ SaleOf(c, day).returned = 0
         /\ SaleOf(c, day).mutation.sequence = c.view.sequence + 1
         /\ SaleOf(c, day).mutation.previous = c.view.previous
         /\ SaleOf(c, day).mutation.state = "sold"
         /\ SaleOf(c, day).mutation # None
<1> DEFINE m == [sequence |-> c.view.sequence + 1, state |-> "sold",
                 previous |-> c.view.previous]
<1>1. c.view \in View
  BY DEF InvoiceCall
<1>2. m \in Mutation
  <2>1. c.view.sequence \in Nat /\ c.view.previous \in Invoice \cup {None}
    BY <1>1 DEF View
  <2> QED BY <2>1 DEF Mutation
<1>3. day \in 0..MaxDay /\ day > 0
  BY BoundsAssumption DEF Day
<1>4. c.read \in Metadata /\ c.read.returned = 0
  BY DEF DataSound, Unsold
<1>5. /\ SaleOf(c, day) \in Metadata
      /\ SaleOf(c, day).sold = day /\ SaleOf(c, day).returned = 0
      /\ SaleOf(c, day).mutation = m
  BY <1>2, <1>3, <1>4 DEF SaleOf, Metadata
<1>6. DataSound(SaleOf(c, day))
  BY <1>2, <1>3, <1>5 DEF DataSound
<1> QED BY <1>2, <1>5, <1>6, NoneAssumption

LEMMA ReturnOfSound ==
  ASSUME NEW c, c.sale \in Invoice, DataSound(c.read), c.read.sold > 0,
         NEW day \in Day, day >= c.read.sold
  PROVE  /\ DataSound(ReturnOf(c, day)) /\ ReturnOf(c, day).sold = c.read.sold
         /\ ReturnOf(c, day).returned = day
         /\ ReturnOf(c, day).mutation.sequence = c.read.mutation.sequence + 1
         /\ ReturnOf(c, day).mutation.previous = c.sale
         /\ ReturnOf(c, day).mutation.state = "owned"
         /\ ReturnOf(c, day).mutation # None
<1> DEFINE m == [sequence |-> c.read.mutation.sequence + 1, state |-> "owned",
                 previous |-> c.sale]
<1>1. c.read \in Metadata /\ c.read.mutation.sequence \in Nat
  BY DataFields DEF DataSound
<1>2. m \in Mutation
  BY <1>1 DEF Mutation
<1>3. day \in 0..MaxDay /\ day > 0
  BY BoundsAssumption DEF Day
<1>4. /\ ReturnOf(c, day) \in Metadata
      /\ ReturnOf(c, day).sold = c.read.sold /\ ReturnOf(c, day).returned = day
      /\ ReturnOf(c, day).mutation = m
  BY <1>1, <1>2, <1>3 DEF ReturnOf, Metadata
<1>5. c.read.sold <= day
  OBVIOUS
<1>6. DataSound(ReturnOf(c, day))
  BY <1>2, <1>3, <1>4, <1>5 DEF DataSound
<1> QED BY <1>2, <1>4, <1>6, NoneAssumption


----------------------------------------------------------------------------
(* What steps other than a commit of an invoice and an acquisition do.       *)
Quiet == UNCHANGED <<invoice, acquired, lock, disordered, overwrote, unseen>>

SameView(c, k) == c.op = "sell" /\ k.sale = c.sale /\ k.view = c.view /\ k.returns = c.returns
Loaded(k) ==
    /\ \E e \in Current \cup (IF Events = {} THEN {NoView} ELSE {}), p \in PreviousSale :
          k.view = [state |-> e.state, sale |-> e.sale, sequence |-> e.sequence, previous |-> p]
    /\ k.returns = {i \in Invoice : Returned(i)}
BecomesCall(w, k) ==
    /\ call' = [call EXCEPT ![w] = k]
    /\ CallKnown(k)
    /\ k.op = "sell" /\ k.view # None => SameView(call[w], k) \/ Loaded(k)

LEMMA CurrentIsView ==
  ASSUME IInv, NEW e \in Current \cup (IF Events = {} THEN {NoView} ELSE {}),
         NEW p \in PreviousSale
  PROVE  [state |-> e.state, sale |-> e.sale, sequence |-> e.sequence, previous |-> p] \in View
<1>1. p \in Invoice \cup {None}
  BY DEF PreviousSale
<1>2. CASE e \in Current
  <2>1. e \in Events
    BY <1>2 DEF Current
  <2>2. ASSUME NEW i \in Invoice, Sold(i), e = SaleEvent(i) \/ e = ReturnEvent(i)
        PROVE  e.state \in {"sold", "owned"} /\ e.sale \in Invoice /\ e.sequence \in Nat
    BY <2>2, EventFields, InvoiceFields
  <2>3. ASSUME NEW d \in acquired, e = AcquisitionEvent(d)
        PROVE  e.state = "owned" /\ e.sale = None /\ e.sequence = 0
    BY <2>3, EventFields
  <2>4. e.state \in {"sold", "owned"} /\ e.sale \in Invoice \cup {None} /\ e.sequence \in Nat
    BY <2>1, <2>2, <2>3, EventsAre
  <2> QED BY <1>1, <2>4 DEF View
<1>3. CASE e = NoView
  <2>1. e.state = "none" /\ e.sale = None /\ e.sequence = 0
    BY <1>3 DEF NoView
  <2> QED BY <1>1, <2>1 DEF View
<1> QED BY <1>2, <1>3

LEMMA BegunKnown ==
  ASSUME IInv, NEW i \in Invoice, NEW op \in {"patch", "return"},
         op = "return" => Sold(i) /\ ~Returned(i)
  PROVE  CallKnown([op |-> op, sale |-> i, read |-> invoice[i].data,
                    revision |-> invoice[i].revision, view |-> None, returns |-> {}])
<1> DEFINE k == [op |-> op, sale |-> i, read |-> invoice[i].data,
                 revision |-> invoice[i].revision, view |-> None, returns |-> {}]
<1>1. DataSound(invoice[i].data)
  BY DEF IInv
<1>2. SoldOn(i) \in Int /\ ReturnedOn(i) \in Int /\ ReturnedOn(i) >= 0
      /\ invoice[i].revision \in Nat
  BY InvoiceFields
<1>3. op = "return" => invoice[i].data.sold > 0 /\ invoice[i].data.returned = 0
  BY <1>2 DEF Sold, Returned, SoldOn, ReturnedOn
<1>4. invoice[i].data \in Metadata
  BY <1>1 DEF DataSound
<1>5. k \in InvoiceCall
  BY <1>2, <1>4 DEF InvoiceCall
<1>6. ReadKnown(k)
  BY <1>1, <1>2, <1>3 DEF ReadKnown
<1> QED BY <1>5, <1>6 DEF CallKnown

LEMMA CallSteps ==
  ASSUME IInv, NEW w \in Worker, Step(w), ~CommitInvoice(w)
  PROVE  Quiet /\ \E k : BecomesCall(w, k)
<1> USE DEF Begin, Proceed, documents, ghosts, Quiet, BecomesCall
<1>1. CASE \E i \in Invoice : BeginSale(w, i)
  <2>1. PICK i \in Invoice : BeginSale(w, i)
    BY <1>1
  <2> DEFINE k == [op |-> "sell", sale |-> i, read |-> None, revision |-> 0,
                   view |-> None, returns |-> {}]
  <2>2. k \in InvoiceCall
    BY DEF InvoiceCall
  <2>3. CallKnown(k)
    BY <2>2 DEF CallKnown
  <2>4. k.view = None
    OBVIOUS
  <2>5. call' = [call EXCEPT ![w] = k] /\ Quiet
    BY <2>1 DEF BeginSale
  <2> HIDE DEF k
  <2> QED BY <2>3, <2>4, <2>5
<1>2. CASE \E i \in Invoice : BeginPatch(w, i)
  <2>1. PICK i \in Invoice : BeginPatch(w, i)
    BY <1>2
  <2> DEFINE k == [op |-> "patch", sale |-> i, read |-> invoice[i].data,
                   revision |-> invoice[i].revision, view |-> None, returns |-> {}]
  <2>2. CallKnown(k)
    BY BegunKnown
  <2>3. k.op = "patch"
    OBVIOUS
  <2>4. call' = [call EXCEPT ![w] = k] /\ Quiet
    BY <2>1 DEF BeginPatch
  <2> HIDE DEF k
  <2> QED BY <2>2, <2>3, <2>4
<1>3. CASE \E i \in Invoice : BeginReturn(w, i)
  <2>1. PICK i \in Invoice : BeginReturn(w, i)
    BY <1>3
  <2> DEFINE k == [op |-> "return", sale |-> i, read |-> invoice[i].data,
                   revision |-> invoice[i].revision, view |-> None, returns |-> {}]
  <2>2. CallKnown(k)
    BY <2>1, BegunKnown DEF BeginReturn
  <2>3. k.op = "return"
    OBVIOUS
  <2>4. call' = [call EXCEPT ![w] = k] /\ Quiet
    BY <2>1 DEF BeginReturn
  <2> HIDE DEF k
  <2> QED BY <2>2, <2>3, <2>4
<1>4. CASE ReadForSale(w)
  <2> DEFINE c == call[w]
             k == [c EXCEPT !.read = invoice[c.sale].data,
                            !.revision = invoice[c.sale].revision]
  <2>1. c.op = "sell" /\ ~Sold(c.sale) /\ call' = [call EXCEPT ![w] = k]
    BY <1>4 DEF ReadForSale
  <2>2. c \in InvoiceCall
    BY <2>1 DEF IInv, CallKnown, InvoiceOps
  <2>3. PICK i \in Invoice : i = c.sale
    BY <2>2 DEF InvoiceCall
  <2>4. SoldOn(i) \in Int /\ SoldOn(i) >= 0 /\ invoice[i].revision \in Nat
    BY InvoiceFields
  <2>5. DataSound(invoice[i].data) /\ invoice[i].data \in Metadata
    BY DEF IInv, DataSound
  <2>6. invoice[i].data.sold = 0
    BY <2>1, <2>3, <2>4 DEF Sold, SoldOn
  <2>7. /\ k \in InvoiceCall /\ k.op = "sell" /\ k.sale = i /\ k.read = invoice[i].data
        /\ k.revision = invoice[i].revision /\ k.view = c.view /\ k.returns = c.returns
    BY <2>1, <2>2, <2>3, <2>4, <2>5 DEF InvoiceCall
  <2> HIDE DEF k
  <2>8. ReadKnown(k)
    BY <2>4, <2>5, <2>6, <2>7 DEF ReadKnown
  <2>9. CallKnown(k) /\ SameView(call[w], k)
    BY <2>1, <2>3, <2>7, <2>8 DEF CallKnown, SameView
  <2> QED BY <1>4, <2>1, <2>9 DEF ReadForSale
<1>5. CASE LoadInventory(w)
  <2> DEFINE c == call[w]
  <2>1. c.op = "sell"
    BY <1>5 DEF LoadInventory
  <2>2. c \in InvoiceCall /\ (c.read # None => ReadKnown(c))
    BY <2>1 DEF IInv, CallKnown, InvoiceOps
  <2>3. PICK e \in Current \cup (IF Events = {} THEN {NoView} ELSE {}), p \in PreviousSale :
            Proceed(w, [c EXCEPT !.view = [state |-> e.state, sale |-> e.sale,
                                           sequence |-> e.sequence, previous |-> p],
                                 !.returns = {i \in Invoice : Returned(i)}])
    BY <1>5 DEF LoadInventory
  <2> DEFINE v == [state |-> e.state, sale |-> e.sale,
                   sequence |-> e.sequence, previous |-> p]
             k == [c EXCEPT !.view = v, !.returns = {i \in Invoice : Returned(i)}]
  <2>4. v \in View
    BY CurrentIsView
  <2> HIDE DEF v
  <2>5. /\ k \in InvoiceCall /\ k.op = "sell" /\ k.sale = c.sale /\ k.read = c.read
        /\ k.revision = c.revision /\ k.view = v
        /\ k.returns = {i \in Invoice : Returned(i)}
    BY <2>1, <2>2, <2>4 DEF InvoiceCall
  <2>6. call' = [call EXCEPT ![w] = k]
    BY <2>3 DEF v
  <2> HIDE DEF k
  <2>7. k.read # None => ReadKnown(k)
    BY <2>1, <2>2, <2>5 DEF ReadKnown
  <2>8. CallKnown(k)
    BY <2>5, <2>7 DEF CallKnown
  <2>9. Loaded(k)
    BY <2>5 DEF Loaded, v
  <2> QED BY <2>3, <2>6, <2>8, <2>9
<1>6. CASE \E a \in CreditId, i \in Invoice : BeginAdjust(w, a, i)
  <2>1. PICK a \in CreditId, i \in Invoice : BeginAdjust(w, a, i)
    BY <1>6
  <2>2. PICK n \in Cents, kind \in {"price-adjustment", "return"} :
            Begin(w, [op |-> "adjust", id |-> a, baseline |-> Credited(i),
                      document |-> [sale |-> i, amount |-> n, kind |-> kind]])
    BY <2>1 DEF BeginAdjust
  <2> DEFINE k == [op |-> "adjust", id |-> a, baseline |-> Credited(i),
                   document |-> [sale |-> i, amount |-> n, kind |-> kind]]
  <2>3. k.op = "adjust" /\ call' = [call EXCEPT ![w] = k] /\ Quiet
    BY <2>2
  <2> HIDE DEF k
  <2> QED BY <2>3 DEF CallKnown, InvoiceOps
<1>7. CASE \E r \in RefundId, a \in CreditId : BeginRefund(w, r, a)
  <2>1. PICK r \in RefundId, a \in CreditId : BeginRefund(w, r, a)
    BY <1>7
  <2> DEFINE i == credit[a].sale
  <2>2. PICK n \in Cents :
            Begin(w, [op |-> "refund", id |-> r, sale |-> i,
                      document |-> [credit |-> a, amount |-> n],
                      baseline |-> Refunded(a), returned |-> CashRefunded(i),
                      received |-> received[i]])
    BY <2>1 DEF BeginRefund
  <2> DEFINE k == [op |-> "refund", id |-> r, sale |-> i,
                   document |-> [credit |-> a, amount |-> n],
                   baseline |-> Refunded(a), returned |-> CashRefunded(i),
                   received |-> received[i]]
  <2>3. k.op = "refund" /\ call' = [call EXCEPT ![w] = k] /\ Quiet
    BY <2>2
  <2> HIDE DEF k
  <2> QED BY <2>3 DEF CallKnown, InvoiceOps
<1>8. CASE CommitAdjust(w) \/ CommitRefund(w) \/ GiveUp(w)
  <2>1. call' = [call EXCEPT ![w] = Idle] /\ Quiet
    BY <1>8 DEF CommitAdjust, CommitRefund, GiveUp
  <2>2. Idle.op = "idle"
    BY DEF Idle
  <2> QED BY <2>1, <2>2 DEF CallKnown, InvoiceOps
<1> QED
  BY <1>1, <1>2, <1>3, <1>4, <1>5, <1>6, <1>7, <1>8 DEF Step


----------------------------------------------------------------------------
(* A commit of an invoice.                                                   *)
Replaces(w, data) ==
    LET c == call[w] IN
    /\ data \in Written(c) /\ DataSound(data)
    /\ MovesMachine(c, data) => LockFree(data)
    /\ invoice' = [invoice EXCEPT ![c.sale] =
                      [data |-> data, revision |-> invoice[c.sale].revision + 1]]
    /\ lock' = IF MovesMachine(c, data) THEN LockedBy(c, data) ELSE lock
    /\ disordered' = (disordered \/ (Fresh(c) /\ \E e \in Events : DateOf(c, data) < e.day))

LEMMA CommitReplaces ==
  ASSUME IInv, NEW w \in Worker, CommitInvoice(w)
  PROVE  /\ call[w] \in InvoiceCall /\ call[w].sale \in Invoice /\ ReadKnown(call[w])
         /\ \E data : Replaces(w, data)
<1> DEFINE c == call[w]
<1>1. c.op \in InvoiceOps /\ c.read # None /\ (c.op = "sell" => c.view # None)
  BY DEF CommitInvoice, InvoiceOps
<1>2. c \in InvoiceCall /\ ReadKnown(c)
  BY <1>1 DEF IInv, CallKnown
<1>3. c.sale \in Invoice
  BY <1>2 DEF InvoiceCall
<1>4. PICK data \in Written(c) :
          /\ MovesMachine(c, data) => LockFree(data)
          /\ invoice' = [invoice EXCEPT ![c.sale] =
                            [data |-> data, revision |-> invoice[c.sale].revision + 1]]
          /\ lock' = IF MovesMachine(c, data) THEN LockedBy(c, data) ELSE lock
          /\ disordered' = (disordered \/ (Fresh(c) /\ \E e \in Events : DateOf(c, data) < e.day))
  BY DEF CommitInvoice
<1>5. DataSound(data)
  <2>1. CASE c.op = "sell"
    <3>1. PICK day \in Day : data = SaleOf(c, day)
      BY <1>4, <2>1 DEF Written
    <3> QED BY <1>1, <1>2, <2>1, <3>1, SaleOfSound DEF ReadKnown
  <2>2. CASE c.op = "return"
    <3>1. PICK day \in Day : day >= c.read.sold /\ data = ReturnOf(c, day)
      BY <1>4, <2>2 DEF Written
    <3> QED BY <1>2, <1>3, <2>2, <3>1, ReturnOfSound DEF ReadKnown
  <2>3. CASE c.op = "patch"
    BY <1>2, <1>4, <2>3 DEF Written, ReadKnown
  <2> QED BY <1>1, <2>1, <2>2, <2>3 DEF InvoiceOps
<1>6. Replaces(w, data)
  BY <1>4, <1>5 DEF Replaces
<1> QED BY <1>2, <1>3, <1>6

(* The documents afterwards.                                                 *)
LEMMA ReplacesInvoice ==
  ASSUME IInv, NEW w \in Worker, call[w].sale \in Invoice, NEW data, Replaces(w, data)
  PROVE  /\ invoice' \in [Invoice -> [data : Metadata, revision : Nat]]
         /\ invoice'[call[w].sale].data = data
         /\ invoice'[call[w].sale].revision = invoice[call[w].sale].revision + 1
         /\ \A i \in Invoice \ {call[w].sale} : invoice'[i] = invoice[i]
<1>1. PICK s \in Invoice : s = call[w].sale
  OBVIOUS
<1>2. PICK n \in Nat : n = invoice[s].revision
  BY DEF IInv, Typed
<1>3. invoice' = [invoice EXCEPT ![s] = [data |-> data, revision |-> n + 1]]
  BY <1>1, <1>2 DEF Replaces
<1>4. invoice \in [Invoice -> [data : Metadata, revision : Nat]]
  BY DEF IInv, Typed
<1>5. [data |-> data, revision |-> n + 1] \in [data : Metadata, revision : Nat]
  BY DEF Replaces, DataSound
<1>6. invoice' \in [Invoice -> [data : Metadata, revision : Nat]]
  BY <1>3, <1>4, <1>5
<1>7. invoice'[s] = [data |-> data, revision |-> n + 1]
  BY <1>3, <1>4
<1>8. \A i \in Invoice \ {s} : invoice'[i] = invoice[i]
  BY <1>3, <1>4
<1> QED BY <1>1, <1>2, <1>6, <1>7, <1>8

LEMMA NextSteps ==
  ASSUME IInv, [Next]_vars
  PROVE  \/ \E w \in Worker : CommitInvoice(w)
         \/ \E d \in Day : Acquire(d)
         \/ Quiet /\ call' = call
         \/ Quiet /\ \E w \in Worker : \E k : BecomesCall(w, k)
<1>1. CASE UNCHANGED vars
  BY <1>1 DEF vars, documents, ghosts, Quiet
<1>2. ASSUME NEW i \in Invoice, ReplaceReceipt(i)
      PROVE  Quiet /\ call' = call
  BY <1>2 DEF ReplaceReceipt, Quiet
<1>3. ASSUME NEW w \in Worker, Step(w), ~CommitInvoice(w)
      PROVE  Quiet /\ \E k : BecomesCall(w, k)
  BY <1>3, CallSteps
<1> QED BY <1>1, <1>2, <1>3 DEF Next

LEMMA DocumentsKept ==
  ASSUME IInv, [Next]_vars
  PROVE  /\ Typed' /\ (\A i \in Invoice : DataSound(invoice[i].data))'
         /\ (\A w \in Worker : CallKnown(call[w]))'
<1>1. Typed /\ (\A i \in Invoice : DataSound(invoice[i].data))
        /\ (\A w \in Worker : CallKnown(call[w]))
  BY DEF IInv
<1>2. ASSUME NEW w \in Worker, CommitInvoice(w)
      PROVE  /\ Typed' /\ (\A i \in Invoice : DataSound(invoice[i].data))'
             /\ (\A v \in Worker : CallKnown(call[v]))'
  <2>1. call[w] \in InvoiceCall /\ call[w].sale \in Invoice
    BY <1>2, CommitReplaces
  <2>2. PICK data : Replaces(w, data)
    BY <1>2, CommitReplaces
  <2>3. /\ invoice' \in [Invoice -> [data : Metadata, revision : Nat]]
        /\ invoice'[call[w].sale].data = data
        /\ invoice'[call[w].sale].revision = invoice[call[w].sale].revision + 1
        /\ \A i \in Invoice \ {call[w].sale} : invoice'[i] = invoice[i]
    BY <2>1, <2>2, ReplacesInvoice
  <2>4. \A i \in Invoice : DataSound(invoice'[i].data)
    BY <1>1, <2>2, <2>3 DEF Replaces
  <2>5. lock' \in LockItem \cup {None}
    <3>1. CASE MovesMachine(call[w], data)
      <4>1. data.mutation \in Mutation
        BY <2>2, <3>1 DEF MovesMachine, Replaces, DataSound, Metadata
      <4>2. lock' = [sale |-> call[w].sale, state |-> data.mutation.state]
        BY <2>2, <3>1 DEF Replaces, LockedBy
      <4> QED BY <2>1, <4>1, <4>2 DEF Mutation, LockItem
    <3>2. CASE ~MovesMachine(call[w], data)
      BY <1>1, <2>2, <3>2 DEF Replaces, Typed
    <3> QED BY <3>1, <3>2
  <2>6. call' = [call EXCEPT ![w] = Idle] /\ acquired' = acquired
    BY <1>2 DEF CommitInvoice
  <2>7. disordered' \in BOOLEAN /\ overwrote' \in BOOLEAN /\ unseen' \in BOOLEAN
    BY <1>2 DEF CommitInvoice
  <2>8. Typed'
    BY <1>1, <2>3, <2>5, <2>6, <2>7 DEF Typed
  <2>9. ASSUME NEW v \in Worker
        PROVE  CallKnown(call[v])'
    <3>1. CASE v = w
      <4>1. call'[v].op = "idle"
        BY <1>1, <2>6, <3>1 DEF Typed, Idle
      <4> QED BY <4>1 DEF CallKnown, InvoiceOps
    <3>2. CASE v # w
      <4>1. PICK k : k = call[v]
        OBVIOUS
      <4>2. call'[v] = k
        BY <1>1, <2>6, <3>2, <4>1 DEF Typed
      <4>3. CallKnown(k)
        BY <1>1, <4>1
      <4>4. SUFFICES ASSUME k.op \in InvoiceOps
                     PROVE  k \in InvoiceCall /\ (k.read # None => ReadKnown(k)')
        BY <4>2 DEF CallKnown
      <4>5. k \in InvoiceCall /\ k.sale \in Invoice /\ k.revision \in Nat
        BY <4>3, <4>4 DEF CallKnown, InvoiceCall
      <4>6. ASSUME k.read # None
            PROVE  ReadKnown(k)'
        <5>1. ReadKnown(k)
          BY <4>3, <4>4, <4>6 DEF CallKnown
        <5>2. invoice[k.sale].revision \in Nat
          BY <4>5, InvoiceFields
        <5>3. CASE k.sale = call[w].sale
          <6>1. k.revision <= invoice[k.sale].revision
            BY <5>1 DEF ReadKnown
          <6>2. invoice'[k.sale].revision = invoice[k.sale].revision + 1
            BY <2>3, <5>3
          <6>3. k.revision <= invoice'[k.sale].revision /\ k.revision # invoice'[k.sale].revision
            BY <4>5, <5>2, <6>1, <6>2
          <6> QED BY <5>1, <6>3 DEF ReadKnown
        <5>4. CASE k.sale # call[w].sale
          <6>1. invoice'[k.sale] = invoice[k.sale]
            BY <2>3, <4>5, <5>4
          <6> QED BY <5>1, <6>1 DEF ReadKnown
        <5> QED BY <5>3, <5>4
      <4> QED BY <4>5, <4>6
    <3> QED BY <3>1, <3>2
  <2> QED BY <2>4, <2>8, <2>9
<1>3. ASSUME NEW d \in Day, Acquire(d)
      PROVE  /\ Typed' /\ (\A i \in Invoice : DataSound(invoice[i].data))'
             /\ (\A v \in Worker : CallKnown(call[v]))'
  <2>1. /\ acquired' = acquired \cup {d} /\ disordered' \in BOOLEAN
        /\ UNCHANGED <<invoice, lock, call, overwrote, unseen>>
    BY <1>3 DEF Acquire
  <2>2. Typed'
    BY <1>1, <2>1 DEF Typed
  <2>3. (\A i \in Invoice : DataSound(invoice[i].data))'
    BY <1>1, <2>1
  <2>4. (\A v \in Worker : CallKnown(call[v]))'
    BY <1>1, <2>1 DEF CallKnown, ReadKnown
  <2> QED BY <2>2, <2>3, <2>4
<1>4. ASSUME Quiet, call' = call
      PROVE  /\ Typed' /\ (\A i \in Invoice : DataSound(invoice[i].data))'
             /\ (\A v \in Worker : CallKnown(call[v]))'
  <2>1. Typed'
    BY <1>1, <1>4 DEF Typed, Quiet
  <2>2. (\A i \in Invoice : DataSound(invoice[i].data))'
    BY <1>1, <1>4 DEF Quiet
  <2>3. (\A v \in Worker : CallKnown(call[v]))'
    BY <1>1, <1>4 DEF CallKnown, ReadKnown, Quiet
  <2> QED BY <2>1, <2>2, <2>3
<1>5. ASSUME Quiet, NEW w \in Worker, NEW k, BecomesCall(w, k)
      PROVE  /\ Typed' /\ (\A i \in Invoice : DataSound(invoice[i].data))'
             /\ (\A v \in Worker : CallKnown(call[v]))'
  <2>1. call' = [call EXCEPT ![w] = k] /\ CallKnown(k)
    BY <1>5 DEF BecomesCall
  <2>2. Typed'
    BY <1>1, <1>5, <2>1 DEF Typed, Quiet
  <2>3. (\A i \in Invoice : DataSound(invoice[i].data))'
    BY <1>1, <1>5 DEF Quiet
  <2>4. ASSUME NEW v \in Worker
        PROVE  CallKnown(call[v])'
    <3>1. PICK j : j = call'[v]
      OBVIOUS
    <3>2. CallKnown(j)
      BY <1>1, <2>1, <3>1 DEF Typed
    <3> QED BY <1>5, <3>1, <3>2 DEF CallKnown, ReadKnown, Quiet
  <2> QED BY <2>2, <2>3, <2>4
<1> QED BY <1>2, <1>3, <1>4, <1>5, NextSteps


----------------------------------------------------------------------------
(* The last event, by day, sequence and priority.                            *)
LEMMA CurrentIsLast ==
  ASSUME NEW e \in Current, NEW f \in Events, e.day \in Int, f.day \in Int
  PROVE  /\ f.day <= e.day
         /\ f.day = e.day => ~(e.sequence < f.sequence)
         /\ f.day = e.day /\ e.sequence = f.sequence => ~(e.priority < f.priority)
  BY DEF Current, Before

LEMMA EventDay ==
  ASSUME IInv, NEW e \in Events
  PROVE  e.day \in Int /\ e.sequence \in Nat
<1>1. \A d \in acquired : d \in Int
  BY BoundsAssumption DEF IInv, Typed, Day
<1>2. CASE \E i \in Invoice : Sold(i) /\ (e = SaleEvent(i) \/ e = ReturnEvent(i))
  BY <1>2, EventFields, InvoiceFields
<1>3. CASE \E d \in acquired : e = AcquisitionEvent(d)
  BY <1>1, <1>3, EventFields
<1> QED BY <1>2, <1>3, EventsAre

(* Every event of a sale was over when the last event happened.              *)
LEMMA AllPast ==
  ASSUME IInv, NEW e \in Current, NEW i \in Invoice, Sold(i)
  PROVE  /\ SoldOn(i) <= e.day
         /\ \/ Sequence(i) <= e.sequence
            \/ Past(SoldOn(i)) /\ (Returned(i) => Past(ReturnedOn(i)))
<1>1. e \in Events /\ e.day \in Int /\ e.sequence \in Nat
  BY EventDay DEF Current
<1>2. SoldOn(i) \in Int /\ ReturnedOn(i) \in Int /\ Sequence(i) \in Nat
  BY InvoiceFields
<1>3. /\ SaleEvent(i) \in Events
      /\ SaleEvent(i).day = SoldOn(i) /\ SaleEvent(i).sequence = Sequence(i)
  BY EventsAre, EventFields
<1>4. SoldOn(i) <= e.day /\ (SoldOn(i) = e.day => Sequence(i) <= e.sequence)
  BY <1>1, <1>2, <1>3, CurrentIsLast
<1>5. SoldOn(i) < e.day => Past(SoldOn(i))
  BY <1>1 DEF Past
<1>6. ASSUME Returned(i)
      PROVE  Sequence(i) <= e.sequence \/ Past(ReturnedOn(i))
  <2>1. /\ ReturnEvent(i) \in Events
        /\ ReturnEvent(i).day = ReturnedOn(i) /\ ReturnEvent(i).sequence = Sequence(i)
    BY <1>6, EventsAre, EventFields
  <2>2. ReturnedOn(i) <= e.day /\ (ReturnedOn(i) = e.day => Sequence(i) <= e.sequence)
    BY <1>1, <1>2, <2>1, CurrentIsLast
  <2>3. ReturnedOn(i) < e.day => Past(ReturnedOn(i))
    BY <1>1 DEF Past
  <2> QED BY <1>1, <1>2, <2>2, <2>3
<1> QED BY <1>1, <1>2, <1>4, <1>5, <1>6

(* The machine's state in the projection is the one in the lock.             *)
LEMMA ProjectionLocked ==
  ASSUME IInv, LockSound, Trailing, NEW e \in Current, NEW i \in Invoice, Sold(i),
         e = SaleEvent(i) \/ (Returned(i) /\ e = ReturnEvent(i))
  PROVE  lock # None /\ lock.sale = i /\ lock.state = e.state
<1>1. lock # None /\ lock \in LockItem
  BY DEF LockSound, IInv, Typed
<1>2. PICK last \in Invoice : last = lock.sale
  BY <1>1 DEF LockItem
<1>3. Sold(last) /\ (lock.state = "owned" <=> Returned(last))
  BY <1>1, <1>2 DEF LockSound
<1>4. e \in Events
  BY DEF Current
<1>5. e.day \in Int /\ e.sequence = Sequence(i) /\ Sequence(i) \in Nat
      /\ (e.day = SoldOn(i) \/ (Returned(i) /\ e.day = ReturnedOn(i)))
  BY <1>4, EventFields, EventDay, InvoiceFields
<1>6. i = last
  <2>1. SUFFICES ASSUME i # last PROVE FALSE
    OBVIOUS
  <2>2. BehindLast(i, e.day)
    BY <1>1, <1>2, <1>5, <2>1 DEF Trailing
  <2>3. e.day < SoldOn(last) \/ (e.day = SoldOn(last) /\ e.sequence < Sequence(last))
    BY <1>2, <1>5, <2>2 DEF BehindLast
  <2>4. /\ SaleEvent(last) \in Events /\ SaleEvent(last).day = SoldOn(last)
        /\ SaleEvent(last).sequence = Sequence(last) /\ SoldOn(last) \in Int
    BY <1>3, EventsAre, EventFields, InvoiceFields
  <2> QED BY <1>5, <2>3, <2>4, CurrentIsLast
<1>7. CASE e = SaleEvent(i)
  <2>1. ~Returned(i)
    <3>1. SUFFICES ASSUME Returned(i) PROVE FALSE
      OBVIOUS
    <3>2. /\ ReturnEvent(i) \in Events /\ ReturnEvent(i).day = ReturnedOn(i)
          /\ ReturnEvent(i).sequence = Sequence(i) /\ ReturnEvent(i).priority = 3
      BY <3>1, EventsAre, EventFields
    <3>3. e.day = SoldOn(i) /\ e.priority = 2
      BY <1>7, EventFields
    <3>4. SoldOn(i) <= ReturnedOn(i) /\ ReturnedOn(i) \in Int /\ SoldOn(i) \in Int
      BY <3>1, InvoiceFields
    <3>5. ReturnedOn(i) <= e.day
      BY <1>5, <3>2, <3>4, CurrentIsLast
    <3>6. ReturnedOn(i) = e.day
      BY <3>3, <3>4, <3>5
    <3> QED BY <1>5, <3>2, <3>3, <3>4, <3>6, CurrentIsLast
  <2>2. lock.state = "sold"
    BY <1>1, <1>3, <1>6, <2>1 DEF LockItem
  <2> QED BY <1>1, <1>2, <1>6, <1>7, <2>2, EventFields
<1>8. CASE Returned(i) /\ e = ReturnEvent(i)
  BY <1>1, <1>2, <1>3, <1>6, <1>8, EventFields
<1> QED BY <1>7, <1>8

(* A view loaded now can be relied on, if it holds.                          *)
LEMMA LoadedSound ==
  ASSUME IInv, Consistent, NEW c, Loaded(c)
  PROVE  ViewSound(c)
<1>1. SUFFICES ASSUME c.op = "sell", c.view # None
               PROVE  /\ c.view.previous = None
                           \/ (c.view.previous \in Invoice /\ Sold(c.view.previous))
                      /\ \A i \in c.returns : Returned(i)
                      /\ ViewHolds(c) => Free(c)
  BY DEF ViewSound
<1>2. PICK e \in Current \cup (IF Events = {} THEN {NoView} ELSE {}), p \in PreviousSale :
          c.view = [state |-> e.state, sale |-> e.sale, sequence |-> e.sequence, previous |-> p]
  BY DEF Loaded
<1>3. c.view.previous = None \/ (c.view.previous \in Invoice /\ Sold(c.view.previous))
  BY <1>2 DEF PreviousSale
<1>4. \A i \in c.returns : Returned(i)
  BY DEF Loaded
<1>5. ASSUME ViewHolds(c)
      PROVE  Free(c)
  <2>1. CASE e \in Current
    <3>1. \A i \in Invoice : Sold(i) =>
              \/ Sequence(i) <= c.view.sequence
              \/ Past(SoldOn(i)) /\ (Returned(i) => Past(ReturnedOn(i)))
      BY <1>2, <2>1, AllPast
    <3>2. e \in Events /\ LockSound /\ Trailing /\ Covered
      BY <2>1 DEF Current, Consistent
    <3>3. CASE \E i \in Invoice : Sold(i) /\ e = SaleEvent(i)
      <4>1. PICK i \in Invoice : Sold(i) /\ e = SaleEvent(i)
        BY <3>3
      <4>2. c.view.state = "sold" /\ c.view.sale = i
        BY <1>2, <4>1, EventFields
      <4> QED BY <1>5, <4>1, <4>2 DEF ViewHolds, MayBeSold
    <3>4. CASE \E i \in Invoice : Sold(i) /\ Returned(i) /\ e = ReturnEvent(i)
      <4>1. PICK i \in Invoice : Sold(i) /\ Returned(i) /\ e = ReturnEvent(i)
        BY <3>4
      <4>2. lock # None /\ lock.sale = i
        BY <2>1, <3>2, <4>1, ProjectionLocked
      <4>3. \A j \in Invoice : Open(j) => AcquiredSince(j)
        BY <3>2, <4>1, <4>2 DEF Covered, Open
      <4> QED BY <3>1, <4>3 DEF Free
    <3>5. CASE \E d \in acquired : e = AcquisitionEvent(d)
      <4>1. PICK d \in acquired : e = AcquisitionEvent(d)
        BY <3>5
      <4>2. \A j \in Invoice : Open(j) => AcquiredSince(j)
        BY <2>1, <4>1, AllPast, EventFields DEF Open, AcquiredSince
      <4> QED BY <3>1, <4>2 DEF Free
    <3> QED BY <3>2, <3>3, <3>4, <3>5, EventsAre
  <2>2. CASE Events = {}
    <3>1. \A i \in Invoice : ~Sold(i)
      BY <2>2, EventsAre
    <3> QED BY <3>1 DEF Free, Open
  <2> QED BY <2>1, <2>2
<1> QED BY <1>3, <1>4, <1>5


----------------------------------------------------------------------------
(* The invariant gives the property.                                         *)
LEMMA InvariantSuffices == IInv => InventoryTrue
<1>1. SUFFICES ASSUME IInv, Orderly
               PROVE  SoldOnce /\ LockAgrees
  BY DEF InventoryTrue, Orderly
<1>2. LockSound /\ Trailing /\ SoldOnce
  BY <1>1 DEF IInv, Consistent
<1>3. ASSUME NEW e \in Current, e.sale # None
      PROVE  lock = [sale |-> e.sale, state |-> e.state]
  <2>1. PICK i \in Invoice : Sold(i) /\ (e = SaleEvent(i) \/ (Returned(i) /\ e = ReturnEvent(i)))
    BY <1>3, EventsAre, EventFields DEF Current
  <2>2. lock # None /\ lock.sale = i /\ lock.state = e.state
    BY <1>1, <1>2, <2>1, ProjectionLocked
  <2>3. lock \in LockItem /\ e.sale = i
    BY <1>1, <2>1, <2>2, EventFields DEF IInv, Typed
  <2>4. lock = [sale |-> lock.sale, state |-> lock.state]
    BY <2>3 DEF LockItem
  <2> QED BY <2>2, <2>3, <2>4
<1> QED BY <1>2, <1>3 DEF LockAgrees, LockSound

----------------------------------------------------------------------------
(* A step that changes no sale, event or lock.                               *)
SameSales ==
    /\ \A i \in Invoice : invoice'[i].data = invoice[i].data
    /\ acquired' = acquired /\ lock' = lock

LEMMA SameEvents ==
  ASSUME SameSales
  PROVE  /\ \A i \in Invoice : /\ Sold(i)' = Sold(i) /\ Returned(i)' = Returned(i)
                               /\ Open(i)' = Open(i)
                               /\ SoldOn(i)' = SoldOn(i) /\ ReturnedOn(i)' = ReturnedOn(i)
                               /\ Sequence(i)' = Sequence(i)
                               /\ AcquiredSince(i)' = AcquiredSince(i)
         /\ \A day : Past(day)' = Past(day)
<1>1. \A i \in Invoice : /\ Sold(i)' = Sold(i) /\ Returned(i)' = Returned(i)
                         /\ Open(i)' = Open(i)
                         /\ SoldOn(i)' = SoldOn(i) /\ ReturnedOn(i)' = ReturnedOn(i)
                         /\ Sequence(i)' = Sequence(i)
                         /\ AcquiredSince(i)' = AcquiredSince(i)
  BY DEF SameSales, Sold, Returned, Open, SoldOn, ReturnedOn, Sequence, AcquiredSince
<1>2. \A i \in Invoice : SaleEvent(i)' = SaleEvent(i) /\ ReturnEvent(i)' = ReturnEvent(i)
  BY DEF SameSales, SaleEvent, ReturnEvent
<1>3. {SaleEvent(i) : i \in {j \in Invoice : Sold(j)}}'
        = {SaleEvent(i) : i \in {j \in Invoice : Sold(j)}}
  BY <1>1, <1>2
<1>4. {ReturnEvent(i) : i \in {j \in Invoice : Sold(j) /\ Returned(j)}}'
        = {ReturnEvent(i) : i \in {j \in Invoice : Sold(j) /\ Returned(j)}}
  BY <1>1, <1>2
<1>5. Events' = Events
  BY <1>3, <1>4 DEF Events, SameSales, AcquisitionEvent
<1> QED BY <1>1, <1>5 DEF Past

LEMMA SameConsistent ==
  ASSUME IInv, Consistent, SameSales
  PROVE  /\ (LockSound /\ Covered /\ Trailing /\ SoldOnce)'
         /\ \A k : k.sale \in Invoice /\ k.returns \subseteq Invoice /\ ViewSound(k)
                    => ViewSound(k)'
<1>1. lock' = lock /\ acquired' = acquired /\ lock \in LockItem \cup {None}
  BY DEF SameSales, IInv, Typed
<1>2. lock # None => lock.sale \in Invoice
  BY <1>1 DEF LockItem
<1>3. LockSound'
  BY <1>1, <1>2, SameEvents DEF Consistent, LockSound
<1>4. Covered'
  BY <1>1, SameEvents DEF Consistent, Covered
<1>5. Trailing'
  BY <1>1, <1>2, SameEvents DEF Consistent, Trailing, BehindLast
<1>6. SoldOnce'
  BY <1>1, SameEvents DEF Consistent, SoldOnce, SoldOn
<1>7. ASSUME NEW k, k.sale \in Invoice, k.returns \subseteq Invoice, ViewSound(k)
      PROVE  ViewSound(k)'
  <2>1. ViewHolds(k)' = ViewHolds(k)
    BY <1>1, <1>7, SameEvents DEF ViewHolds, MayBeSold
  <2>2. (\A i \in Invoice : Open(i) => AcquiredSince(i))
            => (\A i \in Invoice : Open(i) => AcquiredSince(i))'
    BY SameEvents
  <2>3. ASSUME NEW i \in Invoice,
               Sold(i) => \/ Sequence(i) <= k.view.sequence
                          \/ Past(SoldOn(i)) /\ (Returned(i) => Past(ReturnedOn(i)))
        PROVE  (Sold(i) => \/ Sequence(i) <= k.view.sequence
                           \/ Past(SoldOn(i)) /\ (Returned(i) => Past(ReturnedOn(i))))'
    <3>1. /\ Sold(i)' = Sold(i) /\ Returned(i)' = Returned(i) /\ SoldOn(i)' = SoldOn(i)
          /\ ReturnedOn(i)' = ReturnedOn(i) /\ Sequence(i)' = Sequence(i)
      BY SameEvents
    <3>2. Past(SoldOn(i))' = Past(SoldOn(i)) /\ Past(ReturnedOn(i))' = Past(ReturnedOn(i))
      BY <3>1, SameEvents DEF Past
    <3> QED BY <2>3, <3>1, <3>2
  <2>4. Free(k) => Free(k)'
    BY <2>2, <2>3 DEF Free
  <2>5. (\A i \in k.returns : Returned(i)) => (\A i \in k.returns : Returned(i))'
    BY <1>7, SameEvents
  <2>6. k.view.previous \in Invoice => Sold(k.view.previous)' = Sold(k.view.previous)
    BY SameEvents
  <2> QED BY <1>7, <2>1, <2>4, <2>5, <2>6 DEF ViewSound
<1> QED BY <1>3, <1>4, <1>5, <1>6, <1>7


----------------------------------------------------------------------------
(* An acquisition adds an event and takes none away.                         *)
LEMMA AcquireConsistent ==
  ASSUME IInv, Consistent, NEW d \in Day, Acquire(d)
  PROVE  Consistent'
<1>1. /\ acquired' = acquired \cup {d}
      /\ invoice' = invoice /\ lock' = lock /\ call' = call
  BY DEF Acquire
<1>2. \A i : /\ Sold(i)' = Sold(i) /\ Returned(i)' = Returned(i) /\ Open(i)' = Open(i)
             /\ SoldOn(i)' = SoldOn(i) /\ ReturnedOn(i)' = ReturnedOn(i)
             /\ Sequence(i)' = Sequence(i)
             /\ SaleEvent(i)' = SaleEvent(i) /\ ReturnEvent(i)' = ReturnEvent(i)
  BY <1>1 DEF Sold, Returned, Open, SoldOn, ReturnedOn, Sequence, SaleEvent, ReturnEvent
<1>3. \A i : AcquiredSince(i) => AcquiredSince(i)'
  BY <1>1, <1>2 DEF AcquiredSince
<1>4. Events \subseteq Events'
  BY <1>1, <1>2 DEF Events, AcquisitionEvent
<1>5. \A day : Past(day) => Past(day)'
  BY <1>4 DEF Past
<1>6. LockSound'
  BY <1>1, <1>2 DEF Consistent, LockSound
<1>7. Covered'
  BY <1>1, <1>2, <1>3 DEF Consistent, Covered
<1>8. Trailing'
  BY <1>1, <1>2 DEF Consistent, Trailing, BehindLast
<1>9. SoldOnce'
  BY <1>1, <1>2 DEF Consistent, SoldOnce
<1>10. ASSUME NEW k, ViewSound(k)
       PROVE  ViewSound(k)'
  <2>1. ViewHolds(k)' = ViewHolds(k)
    BY <1>1, <1>2 DEF ViewHolds, MayBeSold
  <2>2. (\A i \in Invoice : Open(i) => AcquiredSince(i))
            => (\A i \in Invoice : Open(i) => AcquiredSince(i))'
    BY <1>2, <1>3
  <2>3. ASSUME NEW i \in Invoice,
               Sold(i) => \/ Sequence(i) <= k.view.sequence
                          \/ Past(SoldOn(i)) /\ (Returned(i) => Past(ReturnedOn(i)))
        PROVE  (Sold(i) => \/ Sequence(i) <= k.view.sequence
                           \/ Past(SoldOn(i)) /\ (Returned(i) => Past(ReturnedOn(i))))'
    <3>1. Past(SoldOn(i)) => Past(SoldOn(i))'
      BY <1>2, <1>5 DEF Past
    <3>2. Past(ReturnedOn(i)) => Past(ReturnedOn(i))'
      BY <1>2, <1>5 DEF Past
    <3> QED BY <1>2, <2>3, <3>1, <3>2
  <2>4. Free(k) => Free(k)'
    BY <2>2, <2>3 DEF Free
  <2> QED BY <1>2, <1>10, <2>1, <2>4 DEF ViewSound
<1>11. (\A w \in Worker : ViewSound(call[w]))'
  BY <1>1, <1>10 DEF Consistent
<1> QED BY <1>6, <1>7, <1>8, <1>9, <1>11 DEF Consistent

----------------------------------------------------------------------------
(* A sale is committed over a view that still holds, or not at all.          *)
LEMMA SaleConsistent ==
  ASSUME IInv, Consistent, NEW w \in Worker, CommitInvoice(w), call[w].op = "sell",
         Orderly'
  PROVE  Consistent'
<1> DEFINE c == call[w]
<1>1. c \in InvoiceCall /\ c.view # None /\ c.view \in View /\ ReadKnown(c) /\ MayBeSold(c)
  BY CommitReplaces DEF CommitInvoice, InvoiceCall
<1>2. PICK s \in Invoice : s = c.sale
  BY CommitReplaces
<1>3. PICK n \in Nat : n = c.view.sequence
  BY <1>1 DEF View
<1>4. PICK data : Replaces(w, data)
  BY CommitReplaces
<1>5. invoice[s].revision = c.revision /\ \A i \in Invoice : Returned(i) => i \in c.returns
  BY <1>2 DEF CommitInvoice, Orderly
<1>6. c.read = invoice[s].data /\ invoice[s].data.sold = 0
  BY <1>1, <1>2, <1>5 DEF ReadKnown
<1>7. SoldOn(s) = 0 /\ ~Sold(s) /\ ~Returned(s) /\ DataSound(c.read)
  BY <1>1, <1>6, InvoiceFields DEF SoldOn, ReadKnown
<1>8. PICK day \in Day : data = SaleOf(c, day)
  BY <1>4 DEF Replaces, Written
<1>9. /\ data.sold = day /\ data.returned = 0 /\ data.mutation.sequence = n + 1
      /\ data.mutation.previous = c.view.previous /\ data.mutation.state = "sold"
      /\ data.mutation # None
  BY <1>1, <1>3, <1>6, <1>7, <1>8, SaleOfSound
<1>10. MovesMachine(c, data) /\ Fresh(c)
  BY <1>9 DEF MovesMachine, Fresh
<1>11. lock' = [sale |-> s, state |-> "sold"]
  BY <1>2, <1>4, <1>9, <1>10 DEF Replaces, LockedBy
<1>12. lock = None \/ lock.sale = c.view.previous
  BY <1>4, <1>9, <1>10 DEF Replaces, LockFree
<1>13. Free(c)
  <2>1. ViewHolds(c)
    BY <1>1, <1>2, <1>5, <1>7, <1>12 DEF ViewHolds
  <2> QED BY <1>1, <2>1 DEF Consistent, ViewSound
<1>14. day \in Int /\ day > 0
  BY BoundsAssumption DEF Day
<1>15. \A e \in Events : ~(day < e.day)
  <2>1. DateOf(c, data) = day
    BY <1>9 DEF DateOf
  <2> QED BY <1>4, <1>10, <2>1 DEF Replaces, Orderly
<1>16. /\ invoice'[s].data = data /\ acquired' = acquired
       /\ \A i \in Invoice \ {s} : invoice'[i] = invoice[i]
  BY <1>2, <1>4, ReplacesInvoice DEF CommitInvoice
<1>17. \A i \in Invoice \ {s} :
          /\ Sold(i)' = Sold(i) /\ Returned(i)' = Returned(i) /\ Open(i)' = Open(i)
          /\ SoldOn(i)' = SoldOn(i) /\ ReturnedOn(i)' = ReturnedOn(i)
          /\ Sequence(i)' = Sequence(i) /\ AcquiredSince(i)' = AcquiredSince(i)
  BY <1>16 DEF Sold, Returned, Open, SoldOn, ReturnedOn, Sequence, AcquiredSince
<1>18. Sold(s)' /\ ~Returned(s)' /\ SoldOn(s)' = day /\ Sequence(s)' = n + 1
  BY <1>9, <1>14, <1>16 DEF Sold, Returned, SoldOn, Sequence
<1>19. \A i \in Invoice : (Returned(i) => Returned(i)') /\ (Sold(i) => Sold(i)')
  BY <1>7, <1>16 DEF Sold, Returned
<1>20. lock'.sale = s /\ lock'.state = "sold" /\ lock' # None
  <2>1. lock' \in LockItem
    BY <1>11 DEF LockItem
  <2> QED BY <1>11, <2>1, NoneAssumption
<1>21. LockSound'
  BY <1>18, <1>20 DEF LockSound
<1>22. Covered'
  BY <1>13, <1>17, <1>20 DEF Covered, Free
<1>23. ASSUME NEW i \in Invoice, Sold(i)
       PROVE  /\ SoldOn(i) < day \/ (SoldOn(i) = day /\ Sequence(i) <= n)
              /\ Returned(i) =>
                    ReturnedOn(i) < day \/ (ReturnedOn(i) = day /\ Sequence(i) <= n)
  <2>1. SoldOn(i) \in Int /\ ReturnedOn(i) \in Int /\ Sequence(i) \in Nat
    BY <1>23, InvoiceFields
  <2>2. SoldOn(i) <= day /\ (Returned(i) => ReturnedOn(i) <= day)
    BY <1>14, <1>15, <1>23, <2>1, EventsAre, EventFields
  <2>3. \/ Sequence(i) <= n
        \/ Past(SoldOn(i)) /\ (Returned(i) => Past(ReturnedOn(i)))
    BY <1>3, <1>13, <1>23 DEF Free
  <2>4. \A t \in Int : Past(t) /\ t <= day => t < day
    BY <1>14, <1>15, EventDay DEF Past
  <2> QED BY <1>14, <2>1, <2>2, <2>3, <2>4
<1>24. Trailing'
  <2>1. ASSUME NEW i \in Invoice \ {s}, Sold(i)
        PROVE  (BehindLast(i, SoldOn(i)) /\ (Returned(i) => BehindLast(i, ReturnedOn(i))))'
    <3>1. SoldOn(i) \in Int /\ ReturnedOn(i) \in Int /\ Sequence(i) \in Nat
      BY <2>1, InvoiceFields
    <3>2. SoldOn(lock.sale)' = day /\ Sequence(lock.sale)' = n + 1
      BY <1>18, <1>20 DEF SoldOn, Sequence
    <3>3. Sequence(i) <= n => Sequence(i) < n + 1
      BY <3>1
    <3>4. SoldOn(i)' = SoldOn(i) /\ ReturnedOn(i)' = ReturnedOn(i)
          /\ Sequence(i)' = Sequence(i) /\ Returned(i)' = Returned(i)
      BY <1>17, <2>1
    <3>5. BehindLast(i, SoldOn(i))'
      BY <1>23, <2>1, <3>2, <3>3, <3>4 DEF BehindLast
    <3>6. Returned(i)' => BehindLast(i, ReturnedOn(i))'
      BY <1>23, <2>1, <3>2, <3>3, <3>4 DEF BehindLast
    <3> QED BY <3>5, <3>6
  <2> QED BY <1>17, <1>20, <2>1 DEF Trailing
<1>25. SoldOnce'
  <2>1. \A d \in acquired : d \in Int /\ d <= day
    <3>1. \A d \in acquired : d \in Int
      BY BoundsAssumption DEF IInv, Typed, Day
    <3> QED BY <1>14, <1>15, <3>1, EventsAre, EventFields
  <2>2. SUFFICES ASSUME NEW i \in Invoice, NEW j \in Invoice, i # j, Open(i)', Open(j)',
                        SoldOn(i)' <= SoldOn(j)'
                 PROVE  \E d \in acquired : SoldOn(i)' <= d /\ d <= SoldOn(j)'
    BY <1>16 DEF SoldOnce, SoldOn
  <2>3. CASE i # s /\ j # s
    BY <1>17, <2>2, <2>3 DEF Consistent, SoldOnce, SoldOn
  <2>4. CASE j = s
    <3>1. AcquiredSince(i) /\ SoldOn(i)' = SoldOn(i)
      BY <1>13, <1>17, <2>2, <2>4 DEF Free
    <3> QED BY <1>18, <2>1, <2>4, <3>1 DEF AcquiredSince
  <2>5. CASE i = s
    <3>1. AcquiredSince(j) /\ SoldOn(j)' = SoldOn(j) /\ SoldOn(j) \in Int /\ Sold(j)
      BY <1>13, <1>17, <2>2, <2>5, InvoiceFields DEF Free, Open
    <3>2. SoldOn(j) = day
      BY <1>14, <1>18, <1>23, <2>2, <2>5, <3>1
    <3> QED BY <1>18, <2>1, <2>5, <3>1, <3>2 DEF AcquiredSince
  <2> QED BY <2>3, <2>4, <2>5
<1>26. ASSUME NEW v \in Worker
       PROVE  ViewSound(call[v])'
  <2>1. call' = [call EXCEPT ![w] = Idle]
    BY DEF CommitInvoice
  <2>2. CASE v = w
    <3>1. call'[v].op = "idle"
      BY <2>1, <2>2 DEF IInv, Typed, Idle
    <3> QED BY <3>1 DEF ViewSound
  <2>3. CASE v # w
    <3>1. PICK k : k = call[v]
      OBVIOUS
    <3>2. call'[v] = k
      BY <2>1, <2>3, <3>1 DEF IInv, Typed
    <3>3. ViewSound(k)
      BY <3>1 DEF Consistent
    <3>4. SUFFICES ASSUME k.op = "sell", k.view # None
                   PROVE  /\ k.view.previous = None
                               \/ (k.view.previous \in Invoice /\ Sold(k.view.previous)')
                          /\ \A i \in k.returns : Returned(i)'
                          /\ ~ViewHolds(k)'
      BY <3>2 DEF ViewSound
    <3>5. /\ k.view.previous = None
               \/ (k.view.previous \in Invoice /\ Sold(k.view.previous))
          /\ \A i \in k.returns : Returned(i)
      BY <3>3, <3>4 DEF ViewSound
    <3>6. k.returns \subseteq Invoice
      BY <3>1, <3>4 DEF IInv, CallKnown, InvoiceOps, InvoiceCall
    <3>7. k.view.previous # s
      BY <1>7, <3>5, InvoicesAssumption
    <3>8. ~ViewHolds(k)'
      BY <1>20, <3>7 DEF ViewHolds
    <3> QED BY <1>19, <3>5, <3>6, <3>8
  <2> QED BY <2>2, <2>3
<1> QED BY <1>21, <1>22, <1>24, <1>25, <1>26 DEF Consistent


----------------------------------------------------------------------------
(* A return belongs to the last sale, and is what later views must have seen. *)
LEMMA ReturnConsistent ==
  ASSUME IInv, Consistent, NEW w \in Worker, CommitInvoice(w), call[w].op = "return",
         Orderly'
  PROVE  Consistent'
<1> DEFINE c == call[w]
<1>1. c \in InvoiceCall /\ ReadKnown(c) /\ DataSound(c.read) /\ c.read # None
  BY CommitReplaces DEF CommitInvoice, ReadKnown
<1>2. PICK s \in Invoice : s = c.sale
  BY CommitReplaces
<1>3. PICK data : Replaces(w, data)
  BY CommitReplaces
<1>4. invoice[s].revision = c.revision
  BY <1>2 DEF CommitInvoice, Orderly, RevisionHolds
<1>5. c.read = invoice[s].data /\ c.read.sold > 0 /\ c.read.returned = 0
  BY <1>1, <1>2, <1>4 DEF ReadKnown
<1>6. Sold(s) /\ ~Returned(s)
  BY <1>5 DEF Sold, Returned
<1>7. PICK day \in Day : day >= c.read.sold /\ data = ReturnOf(c, day)
  BY <1>3 DEF Replaces, Written
<1>8. /\ data.sold = c.read.sold /\ data.returned = day
      /\ data.mutation.sequence = c.read.mutation.sequence + 1
      /\ data.mutation.previous = s /\ data.mutation.state = "owned"
      /\ data.mutation # None
  BY <1>1, <1>2, <1>5, <1>7, ReturnOfSound
<1>9. MovesMachine(c, data)
  BY <1>8 DEF MovesMachine, Fresh
<1>10. lock' = [sale |-> s, state |-> "owned"]
  BY <1>2, <1>3, <1>8, <1>9 DEF Replaces, LockedBy
<1>11. lock # None /\ lock.sale = s
  BY <1>3, <1>6, <1>8, <1>9 DEF Replaces, LockFree, Consistent, LockSound
<1>12. lock'.sale = s /\ lock'.state = "owned" /\ lock' # None
  <2>1. lock' \in LockItem
    BY <1>10 DEF LockItem
  <2> QED BY <1>10, <2>1, NoneAssumption
<1>13. /\ invoice'[s].data = data /\ acquired' = acquired
       /\ \A i \in Invoice \ {s} : invoice'[i] = invoice[i]
  BY <1>2, <1>3, ReplacesInvoice DEF CommitInvoice
<1>14. \A i \in Invoice \ {s} :
          /\ Sold(i)' = Sold(i) /\ Returned(i)' = Returned(i) /\ Open(i)' = Open(i)
          /\ SoldOn(i)' = SoldOn(i) /\ ReturnedOn(i)' = ReturnedOn(i)
          /\ Sequence(i)' = Sequence(i) /\ AcquiredSince(i)' = AcquiredSince(i)
  BY <1>13 DEF Sold, Returned, Open, SoldOn, ReturnedOn, Sequence, AcquiredSince
<1>15. day > 0
  BY BoundsAssumption DEF Day
<1>16. /\ Sold(s)' /\ Returned(s)' /\ ~Open(s)' /\ SoldOn(s)' = SoldOn(s)
       /\ Sequence(s)' = Sequence(s) + 1 /\ Sequence(s) \in Nat
  BY <1>5, <1>6, <1>8, <1>13, <1>15, InvoiceFields
     DEF Sold, Returned, Open, SoldOn, Sequence
<1>17. \A i \in Invoice : (Returned(i) => Returned(i)') /\ (Sold(i) => Sold(i)')
  BY <1>6, <1>8, <1>13, <1>15, <1>5 DEF Sold, Returned
<1>18. LockSound'
  BY <1>12, <1>16 DEF LockSound
<1>19. Covered'
  BY <1>11, <1>12, <1>14 DEF Covered, Consistent
<1>20. Trailing'
  <2>1. ASSUME NEW i \in Invoice \ {s}, Sold(i)
        PROVE  (BehindLast(i, SoldOn(i)) /\ (Returned(i) => BehindLast(i, ReturnedOn(i))))'
    <3>1. BehindLast(i, SoldOn(i)) /\ (Returned(i) => BehindLast(i, ReturnedOn(i)))
      BY <1>11, <2>1 DEF Consistent, Trailing
    <3>2. SoldOn(lock.sale)' = SoldOn(s) /\ Sequence(lock.sale)' = Sequence(s) + 1
      BY <1>12, <1>16 DEF SoldOn, Sequence
    <3>3. Sequence(i) \in Nat
      BY <2>1, InvoiceFields
    <3>4. Sequence(i) < Sequence(s) => Sequence(i) < Sequence(s) + 1
      BY <1>16, <3>3
    <3>5. SoldOn(i)' = SoldOn(i) /\ ReturnedOn(i)' = ReturnedOn(i)
          /\ Sequence(i)' = Sequence(i) /\ Returned(i)' = Returned(i)
      BY <1>14, <2>1
    <3>6. BehindLast(i, SoldOn(i))'
      BY <1>11, <3>1, <3>2, <3>4, <3>5 DEF BehindLast
    <3>7. Returned(i)' => BehindLast(i, ReturnedOn(i))'
      BY <1>11, <3>1, <3>2, <3>4, <3>5 DEF BehindLast
    <3> QED BY <3>6, <3>7
  <2> QED BY <1>12, <1>14, <2>1 DEF Trailing
<1>21. SoldOnce'
  BY <1>13, <1>14, <1>16 DEF Consistent, SoldOnce, SoldOn
<1>22. ASSUME NEW v \in Worker
       PROVE  ViewSound(call[v])'
  <2>1. call' = [call EXCEPT ![w] = Idle]
    BY DEF CommitInvoice
  <2>2. CASE v = w
    <3>1. call'[v].op = "idle"
      BY <2>1, <2>2 DEF IInv, Typed, Idle
    <3> QED BY <3>1 DEF ViewSound
  <2>3. CASE v # w
    <3>1. PICK k : k = call[v]
      OBVIOUS
    <3>2. call'[v] = k
      BY <2>1, <2>3, <3>1 DEF IInv, Typed
    <3>3. ViewSound(k)
      BY <3>1 DEF Consistent
    <3>4. SUFFICES ASSUME k.op = "sell", k.view # None
                   PROVE  /\ k.view.previous = None
                               \/ (k.view.previous \in Invoice /\ Sold(k.view.previous)')
                          /\ \A i \in k.returns : Returned(i)'
                          /\ ~ViewHolds(k)'
      BY <3>2 DEF ViewSound
    <3>5. /\ k.view.previous = None
               \/ (k.view.previous \in Invoice /\ Sold(k.view.previous))
          /\ \A i \in k.returns : Returned(i)
      BY <3>3, <3>4 DEF ViewSound
    <3>6. k.returns \subseteq Invoice
      BY <3>1, <3>4 DEF IInv, CallKnown, InvoiceOps, InvoiceCall
    <3>7. s \notin k.returns
      BY <1>6, <3>5
    <3>8. ~ViewHolds(k)'
      BY <1>16, <3>7 DEF ViewHolds
    <3> QED BY <1>17, <3>5, <3>6, <3>8
  <2> QED BY <2>2, <2>3
<1> QED BY <1>18, <1>19, <1>20, <1>21, <1>22 DEF Consistent

----------------------------------------------------------------------------
(* Requests that change no sale: a patch that is not outdated, and the rest. *)
LEMMA CallsConsistent ==
  ASSUME IInv, Consistent, SameSales, NEW w \in Worker, NEW k,
         call' = [call EXCEPT ![w] = k], CallKnown(k),
         k.op = "sell" /\ k.view # None => SameView(call[w], k) \/ Loaded(k)
  PROVE  Consistent'
<1>1. /\ (LockSound /\ Covered /\ Trailing /\ SoldOnce)'
      /\ \A j : j.sale \in Invoice /\ j.returns \subseteq Invoice /\ ViewSound(j)
                  => ViewSound(j)'
  BY SameConsistent
<1>2. ViewSound(k)
  <2>1. SUFFICES ASSUME k.op = "sell", k.view # None
                 PROVE  ViewSound(k)
    BY DEF ViewSound
  <2>2. CASE SameView(call[w], k)
    <3>1. ViewSound(call[w])
      BY DEF Consistent
    <3>2. ViewHolds(k) <=> ViewHolds(call[w])
      BY <2>2 DEF SameView, ViewHolds, MayBeSold
    <3>3. Free(k) <=> Free(call[w])
      BY <2>2 DEF SameView, Free
    <3> QED BY <2>1, <2>2, <3>1, <3>2, <3>3 DEF SameView, ViewSound
  <2>3. CASE Loaded(k)
    BY <2>3, LoadedSound
  <2> QED BY <2>1, <2>2, <2>3
<1>3. ASSUME NEW v \in Worker
      PROVE  ViewSound(call[v])'
  <2>1. PICK j : j = call'[v]
    OBVIOUS
  <2>2. ViewSound(j) /\ CallKnown(j)
    BY <1>2, <2>1 DEF IInv, Typed, Consistent
  <2>3. CASE j.op = "sell"
    <3>1. j.sale \in Invoice /\ j.returns \subseteq Invoice
      BY <2>2, <2>3 DEF CallKnown, InvoiceOps, InvoiceCall
    <3>2. ViewSound(j)'
      BY <1>1, <2>2, <3>1
    <3> QED BY <2>1, <3>2 DEF ViewSound
  <2>4. CASE j.op # "sell"
    BY <2>1, <2>4 DEF ViewSound
  <2> QED BY <2>3, <2>4
<1> QED BY <1>1, <1>3 DEF Consistent

LEMMA PatchConsistent ==
  ASSUME IInv, Consistent, NEW w \in Worker, CommitInvoice(w), call[w].op = "patch",
         Orderly'
  PROVE  Consistent'
<1> DEFINE c == call[w]
<1>1. ReadKnown(c)
  BY CommitReplaces
<1>2. PICK s \in Invoice : s = c.sale
  BY CommitReplaces
<1>3. PICK data : Replaces(w, data)
  BY CommitReplaces
<1>4. invoice[s].revision = c.revision
  BY <1>2 DEF CommitInvoice, Orderly
<1>5. data = c.read /\ data = invoice[s].data
  BY <1>1, <1>2, <1>3, <1>4 DEF Replaces, Written, ReadKnown
<1>6. ~MovesMachine(c, data)
  BY <1>2, <1>5 DEF MovesMachine, Fresh
<1>7. lock' = lock /\ acquired' = acquired /\ call' = [call EXCEPT ![w] = Idle]
  BY <1>3, <1>6 DEF Replaces, CommitInvoice
<1>8. SameSales
  BY <1>2, <1>3, <1>5, <1>7, ReplacesInvoice DEF SameSales
<1>9. Idle.op = "idle"
  BY DEF Idle
<1>10. CallKnown(Idle)
  BY <1>9 DEF CallKnown, InvoiceOps
<1> QED BY <1>7, <1>8, <1>9, <1>10, CallsConsistent

----------------------------------------------------------------------------
LEMMA StepConsistent ==
  ASSUME IInv, [Next]_vars, Orderly'
  PROVE  Consistent'
<1>1. ASSUME NEW w \in Worker, CommitInvoice(w)
      PROVE  Consistent'
  <2>1. Orderly
    BY <1>1 DEF Orderly, CommitInvoice
  <2>2. Consistent /\ call[w].op \in InvoiceOps
    BY <1>1, <2>1 DEF IInv, CommitInvoice, InvoiceOps
  <2> QED
    BY <1>1, <2>2, SaleConsistent, ReturnConsistent, PatchConsistent DEF InvoiceOps
<1>2. ASSUME NEW d \in Day, Acquire(d)
      PROVE  Consistent'
  <2>1. Orderly
    BY <1>2 DEF Orderly, Acquire
  <2> QED BY <1>2, <2>1, AcquireConsistent DEF IInv
<1>3. ASSUME Quiet
      PROVE  Consistent /\ SameSales
  BY <1>3 DEF IInv, Orderly, Quiet, SameSales
<1>4. ASSUME Quiet, call' = call
      PROVE  Consistent'
  <2>1. /\ (LockSound /\ Covered /\ Trailing /\ SoldOnce)'
        /\ \A j : j.sale \in Invoice /\ j.returns \subseteq Invoice /\ ViewSound(j)
                    => ViewSound(j)'
    BY <1>3, <1>4, SameConsistent
  <2>2. ASSUME NEW v \in Worker
        PROVE  ViewSound(call[v])'
    <3>1. PICK j : j = call[v]
      OBVIOUS
    <3>2. ViewSound(j) /\ CallKnown(j)
      BY <1>3, <1>4, <3>1 DEF IInv, Consistent
    <3>3. CASE j.op = "sell"
      <4>1. j.sale \in Invoice /\ j.returns \subseteq Invoice
        BY <3>2, <3>3 DEF CallKnown, InvoiceOps, InvoiceCall
      <4>2. ViewSound(j)'
        BY <2>1, <3>2, <4>1
      <4> QED BY <1>4, <3>1, <4>2 DEF ViewSound
    <3>4. CASE j.op # "sell"
      BY <1>4, <3>1, <3>4 DEF ViewSound
    <3> QED BY <3>3, <3>4
  <2> QED BY <2>1, <2>2 DEF Consistent
<1>5. ASSUME Quiet, NEW w \in Worker, NEW k, BecomesCall(w, k)
      PROVE  Consistent'
  BY <1>3, <1>5, CallsConsistent DEF BecomesCall
<1> QED BY <1>1, <1>2, <1>4, <1>5, NextSteps

LEMMA InitInvariant == Init => IInv
<1>1. SUFFICES ASSUME Init PROVE IInv
  OBVIOUS
<1>2. DataSound(Unsold) /\ Unsold \in Metadata /\ Unsold.sold = 0
  BY UnsoldSound DEF DataSound, Unsold
<1>3. \A i \in Invoice : invoice[i].data = Unsold /\ ~Sold(i)
  BY <1>1, <1>2 DEF Init, Sold
<1>4. /\ \A w \in Worker : call[w] = Idle
      /\ Idle.op = "idle"
  BY <1>1 DEF Init, Idle
<1>5. Typed
  BY <1>1, <1>2 DEF Init, Typed
<1>6. LockSound /\ Covered /\ Trailing /\ SoldOnce
  BY <1>1, <1>3 DEF Init, LockSound, Covered, Trailing, SoldOnce, Open
<1>7. \A w \in Worker : CallKnown(call[w]) /\ ViewSound(call[w])
  BY <1>4 DEF CallKnown, ViewSound, InvoiceOps
<1> QED BY <1>2, <1>3, <1>5, <1>6, <1>7 DEF IInv, Consistent

LEMMA StepInvariant ==
  ASSUME IInv, [Next]_vars
  PROVE  IInv'
<1>1. (Orderly => Consistent)'
  BY StepConsistent
<1> QED BY <1>1, DocumentsKept DEF IInv

LEMMA InvariantHolds == Spec => []IInv
<1>1. Init => IInv
  BY InitInvariant
<1>2. IInv /\ [Next]_vars => IInv'
  BY StepInvariant
<1> QED BY <1>1, <1>2, PTL DEF Spec

(* Sales, returns and acquisitions in any interleaving, of any number of     *)
(* requests, leave the machine sold at most once and lock and projection in  *)
(* agreement, unless users date events out of order, a write without a       *)
(* revision replaces a newer one, or a sale overlooks a return.              *)
THEOREM InventoryStaysTrue == Spec => []InventoryTrue
<1>1. IInv => InventoryTrue
  BY InvariantSuffices
<1> QED BY <1>1, InvariantHolds, PTL


----------------------------------------------------------------------------
(* Money.  A second invariant, on top of IInv: the counters say what the     *)
(* documents say, and a request in flight was priced on totals that have not *)
(* gone down since.  So a commit that finds room in its counters has room in *)
(* the documents, whatever was committed in between.                         *)
MoneyTyped ==
    /\ credit \in [CreditId -> CreditDoc \cup {None}]
    /\ refund \in [RefundId -> RefundDoc \cup {None}]
    /\ received \in [Invoice -> 0..Total]
    /\ spent \in [Counter -> Nat \cup {None}]
    /\ calls \in 0..MaxCalls
    /\ clawedBack \subseteq Invoice

RefundsFound == \A r \in RefundId : refund[r] # None => credit[refund[r].credit] # None

(* A counter that does not exist yet has nothing to count.                   *)
Counted(counter, n) == (spent[counter] = None /\ n = 0) \/ spent[counter] = n

SaleMoney(i) ==
    /\ Credited(i) <= Total
    /\ Counted(<<"credit", i>>, Credited(i))
    /\ Counted(<<"cash-refund", i>>, CashRefunded(i))
    /\ i \notin clawedBack => CashRefunded(i) <= received[i]
    /\ \A c \in CreditsOf(i) : credit[c].kind = "return" => Credited(i) = Total
CreditMoney(c) ==
    /\ Counted(<<"refund", c>>, Refunded(c))
    /\ credit[c] # None => Refunded(c) <= credit[c].amount

(* A return may only be read, or written, of a sale credited in full.        *)
ReturnsCredited == \A i \in Invoice : Returned(i) => Credited(i) = Total

InvoicePriced(c) ==
    /\ c.op = "return" => Credited(c.sale) = Total
    /\ c.read # None /\ c.read.returned > 0 => Credited(c.sale) = Total
AdjustPriced(c) ==
    /\ c \in AdjustCall
    /\ c.baseline <= Credited(c.document.sale)
    /\ c.document.kind = "return" => c.baseline + c.document.amount = Total
RefundPriced(c) ==
    /\ c \in RefundCall
    /\ credit[c.document.credit] # None /\ credit[c.document.credit].sale = c.sale
    /\ c.baseline <= Refunded(c.document.credit)
    /\ c.returned <= CashRefunded(c.sale)
    /\ c.sale \notin clawedBack => c.received <= received[c.sale]
CallPriced(c) ==
    \/ c = Idle
    \/ c.op \in InvoiceOps /\ InvoicePriced(c)
    \/ AdjustPriced(c)
    \/ RefundPriced(c)

Money ==
    /\ MoneyTyped /\ RefundsFound /\ ReturnsCredited
    /\ \A i \in Invoice : SaleMoney(i)
    /\ \A c \in CreditId : CreditMoney(c)
    /\ \A w \in Worker : CallPriced(call[w])

CashRefundsOf(i) == {r \in RefundId : refund[r] # None /\ refund[r].credit \in CreditsOf(i)}

----------------------------------------------------------------------------
(* The totals.                                                               *)
LEMMA DocumentFields ==
  ASSUME MoneyTyped
  PROVE  /\ \A c \in CreditId : credit[c] # None =>
               /\ credit[c] \in CreditDoc /\ credit[c].sale \in Invoice
               /\ credit[c].amount \in Nat
         /\ \A r \in RefundId : refund[r] # None =>
               /\ refund[r] \in RefundDoc /\ refund[r].credit \in CreditId
               /\ refund[r].amount \in Nat
<1>1. Cents \subseteq Nat
  BY BoundsAssumption DEF Cents
<1> QED BY <1>1 DEF MoneyTyped, CreditDoc, RefundDoc

LEMMA CentsTyped ==
  ASSUME MoneyTyped
  PROVE  /\ \A c \in CreditId : CreditCents[c] \in Nat
         /\ \A r \in RefundId : RefundCents[r] \in Nat
         /\ \A i : IsFiniteSet(CreditsOf(i)) /\ CreditsOf(i) \subseteq CreditId
         /\ \A i : IsFiniteSet(CashRefundsOf(i)) /\ CashRefundsOf(i) \subseteq RefundId
         /\ \A c : IsFiniteSet(RefundsOf(c)) /\ RefundsOf(c) \subseteq RefundId
<1>1. \A S \in SUBSET CreditId : IsFiniteSet(S)
  BY InvoicesAssumption, FS_Subset
<1>2. \A S \in SUBSET RefundId : IsFiniteSet(S)
  BY InvoicesAssumption, FS_Subset
<1>3. \A c \in CreditId : CreditCents[c] \in Nat
  BY DocumentFields DEF CreditCents
<1>4. \A r \in RefundId : RefundCents[r] \in Nat
  BY DocumentFields DEF RefundCents
<1> QED BY <1>1, <1>2, <1>3, <1>4 DEF CreditsOf, CashRefundsOf, RefundsOf

LEMMA TotalsTyped ==
    MoneyTyped => /\ \A i : Credited(i) \in Nat
                  /\ \A i : CashRefunded(i) \in Nat
                  /\ \A c : Refunded(c) \in Nat
<1> SUFFICES ASSUME MoneyTyped
             PROVE  /\ \A i : Credited(i) \in Nat
                    /\ \A i : CashRefunded(i) \in Nat
                    /\ \A c : Refunded(c) \in Nat
  OBVIOUS
<1>1. ASSUME NEW i PROVE Credited(i) \in Nat
  <2>1. SumCents(CreditCents, CreditsOf(i)) \in Nat
    BY CentsTyped, SumTyped
  <2> QED BY <2>1 DEF Credited, Trade
<1>2. ASSUME NEW i PROVE CashRefunded(i) \in Nat
  <2>1. SumCents(RefundCents, CashRefundsOf(i)) \in Nat
    BY CentsTyped, SumTyped
  <2> QED BY <2>1 DEF CashRefunded, CashRefundsOf
<1>3. ASSUME NEW c PROVE Refunded(c) \in Nat
  <2>1. SumCents(RefundCents, RefundsOf(c)) \in Nat
    BY CentsTyped, SumTyped
  <2> QED BY <2>1 DEF Refunded
<1> QED BY <1>1, <1>2, <1>3

LEMMA TotalsKept ==
  ASSUME UNCHANGED <<credit, refund>>
  PROVE  /\ \A i : Credited(i)' = Credited(i) /\ CreditsOf(i)' = CreditsOf(i)
         /\ \A i : CashRefunded(i)' = CashRefunded(i)
         /\ \A c : Refunded(c)' = Refunded(c)
<1>1. CreditCents' = CreditCents /\ RefundCents' = RefundCents
  BY DEF CreditCents, RefundCents
<1>2. \A i : CreditsOf(i)' = CreditsOf(i)
  BY DEF CreditsOf
<1>3. \A c : RefundsOf(c)' = RefundsOf(c)
  BY DEF RefundsOf
<1>4. \A i : CashRefunded(i)' = CashRefunded(i)
  BY <1>1, <1>2 DEF CashRefunded
<1> QED BY <1>1, <1>2, <1>3, <1>4 DEF Credited, Refunded, Trade


----------------------------------------------------------------------------
(* What a committed credit, and a committed refund, add to the totals.       *)
LEMMA CreditAdds ==
  ASSUME MoneyTyped, RefundsFound, NEW id \in CreditId, NEW d \in CreditDoc,
         credit[id] = None, credit' = [credit EXCEPT ![id] = d], refund' = refund
  PROVE  /\ CreditsOf(d.sale)' = CreditsOf(d.sale) \cup {id}
         /\ Credited(d.sale)' = Credited(d.sale) + d.amount
         /\ \A i : i # d.sale => Credited(i)' = Credited(i) /\ CreditsOf(i)' = CreditsOf(i)
         /\ \A i : CashRefunded(i)' = CashRefunded(i)
         /\ \A c : Refunded(c)' = Refunded(c)
         /\ Refunded(id) = 0
<1>1. d # None /\ d.amount \in Nat
  BY NoneAssumption, BoundsAssumption DEF CreditDoc, Cents
<1>2. credit'[id] = d /\ \A c \in CreditId \ {id} : credit'[c] = credit[c]
  BY DEF MoneyTyped
<1>3. PICK s : s = d.sale
  OBVIOUS
<1>4. CreditsOf(s)' = CreditsOf(s) \cup {id} /\ id \notin CreditsOf(s)
  BY <1>1, <1>2, <1>3 DEF CreditsOf
<1>5. \A i : i # s => CreditsOf(i)' = CreditsOf(i) /\ id \notin CreditsOf(i)
  BY <1>1, <1>2, <1>3 DEF CreditsOf
<1>6. PICK f : f = CreditCents
  OBVIOUS
<1>7. PICK g : g = CreditCents'
  OBVIOUS
<1>8. g[id] = d.amount /\ \A c \in CreditId \ {id} : g[c] = f[c]
  BY <1>1, <1>2, <1>6, <1>7 DEF CreditCents
<1>9. /\ \A c \in CreditId : f[c] \in Nat
      /\ \A i : IsFiniteSet(CreditsOf(i)) /\ CreditsOf(i) \subseteq CreditId
  BY <1>6, CentsTyped
<1>10. Credited(s)' = Credited(s) + d.amount
  <2>1. PICK S : S = CreditsOf(s)
    OBVIOUS
  <2>2. IsFiniteSet(S) /\ S \subseteq CreditId /\ id \notin S
    BY <1>4, <1>9, <2>1
  <2>3. \A c \in S : g[c] = f[c] /\ g[c] \in Nat /\ f[c] \in Nat
    BY <1>8, <1>9, <2>2
  <2>4. SumCents(g, S \cup {id}) = SumCents(g, S) + d.amount
    BY <1>1, <1>8, <2>2, <2>3, SumWith
  <2>5. SumCents(g, S) = SumCents(f, S)
    BY <2>3, SumAgrees
  <2>6. SumCents(f, S) \in Nat
    BY <2>2, <2>3, SumTyped
  <2>7. Credited(s) = Trade(s) + SumCents(f, S)
    BY <1>6, <2>1 DEF Credited
  <2>8. Credited(s)' = Trade(s) + SumCents(g, S \cup {id})
    BY <1>4, <1>7, <2>1 DEF Credited, Trade
  <2>9. Trade(s) \in Nat
    BY DEF Trade
  <2> QED BY <1>1, <2>4, <2>5, <2>6, <2>7, <2>8, <2>9
<1>11. ASSUME NEW i, i # s
       PROVE  Credited(i)' = Credited(i)
  <2>1. PICK S : S = CreditsOf(i)
    OBVIOUS
  <2>2. \A c \in S : g[c] = f[c]
    BY <1>5, <1>8, <1>9, <1>11, <2>1
  <2>3. SumCents(g, S) = SumCents(f, S)
    BY <2>2, SumAgrees
  <2>4. Credited(i) = Trade(i) + SumCents(f, S)
    BY <1>6, <2>1 DEF Credited
  <2>5. Credited(i)' = Trade(i) + SumCents(g, S)
    BY <1>5, <1>7, <1>11, <2>1 DEF Credited, Trade
  <2> QED BY <2>3, <2>4, <2>5
<1>12. \A r \in RefundId : refund[r] # None => refund[r].credit # id
  BY DEF RefundsFound
<1>13. ASSUME NEW i
       PROVE  CashRefunded(i)' = CashRefunded(i)
  <2>1. CashRefundsOf(i)' = CashRefundsOf(i)
    BY <1>4, <1>5, <1>12 DEF CashRefundsOf
  <2>2. RefundCents' = RefundCents
    BY DEF RefundCents
  <2> QED BY <2>1, <2>2 DEF CashRefunded, CashRefundsOf
<1>14. \A c : Refunded(c)' = Refunded(c)
  BY DEF Refunded, RefundsOf, RefundCents
<1>15. Refunded(id) = 0
  <2>1. RefundsOf(id) = {}
    BY <1>12 DEF RefundsOf
  <2> QED BY <2>1, SumNothing DEF Refunded
<1> QED BY <1>3, <1>4, <1>5, <1>10, <1>11, <1>13, <1>14, <1>15

LEMMA RefundAdds ==
  ASSUME MoneyTyped, NEW id \in RefundId, NEW d \in RefundDoc, NEW s \in Invoice,
         d.credit \in CreditId, credit[d.credit] # None, credit[d.credit].sale = s,
         refund[id] = None, refund' = [refund EXCEPT ![id] = d], credit' = credit
  PROVE  /\ Refunded(d.credit)' = Refunded(d.credit) + d.amount
         /\ CashRefunded(s)' = CashRefunded(s) + d.amount
         /\ \A c : c # d.credit => Refunded(c)' = Refunded(c)
         /\ \A i : i # s => CashRefunded(i)' = CashRefunded(i)
         /\ \A i : Credited(i)' = Credited(i) /\ CreditsOf(i)' = CreditsOf(i)
<1>1. d # None /\ d.amount \in Nat
  BY NoneAssumption, BoundsAssumption DEF RefundDoc, Cents
<1>2. refund'[id] = d /\ \A r \in RefundId \ {id} : refund'[r] = refund[r]
  BY DEF MoneyTyped
<1>3. PICK k : k = d.credit
  OBVIOUS
<1>4. PICK f : f = RefundCents
  OBVIOUS
<1>5. PICK g : g = RefundCents'
  OBVIOUS
<1>6. g[id] = d.amount /\ \A r \in RefundId \ {id} : g[r] = f[r]
  BY <1>1, <1>2, <1>4, <1>5 DEF RefundCents
<1>7. /\ \A r \in RefundId : f[r] \in Nat
      /\ \A i : IsFiniteSet(CashRefundsOf(i)) /\ CashRefundsOf(i) \subseteq RefundId
      /\ \A c : IsFiniteSet(RefundsOf(c)) /\ RefundsOf(c) \subseteq RefundId
  BY <1>4, CentsTyped
<1>8. ASSUME NEW S \in SUBSET RefundId, IsFiniteSet(S), id \notin S
      PROVE  /\ SumCents(g, S) = SumCents(f, S)
             /\ SumCents(g, S \cup {id}) = SumCents(f, S) + d.amount
  <2>1. \A r \in S : g[r] = f[r] /\ g[r] \in Nat
    BY <1>6, <1>7, <1>8
  <2>2. SumCents(g, S) = SumCents(f, S)
    BY <2>1, SumAgrees
  <2>3. SumCents(g, S \cup {id}) = SumCents(g, S) + d.amount
    BY <1>1, <1>6, <1>8, <2>1, SumWith
  <2> QED BY <2>2, <2>3
<1>9. Refunded(k)' = Refunded(k) + d.amount
  <2>1. PICK S : S = RefundsOf(k)
    OBVIOUS
  <2>2. RefundsOf(k)' = S \cup {id} /\ id \notin S
    BY <1>1, <1>2, <1>3, <2>1 DEF RefundsOf
  <2>3. S \in SUBSET RefundId /\ IsFiniteSet(S)
    BY <1>7, <2>1
  <2>4. Refunded(k) = SumCents(f, S) /\ Refunded(k)' = SumCents(g, S \cup {id})
    BY <1>4, <1>5, <2>1, <2>2 DEF Refunded
  <2> QED BY <1>8, <2>2, <2>3, <2>4
<1>10. ASSUME NEW c, c # k
       PROVE  Refunded(c)' = Refunded(c)
  <2>1. PICK S : S = RefundsOf(c)
    OBVIOUS
  <2>2. RefundsOf(c)' = S /\ id \notin S
    BY <1>1, <1>2, <1>3, <1>10, <2>1 DEF RefundsOf
  <2>3. S \in SUBSET RefundId /\ IsFiniteSet(S)
    BY <1>7, <2>1
  <2>4. Refunded(c) = SumCents(f, S) /\ Refunded(c)' = SumCents(g, S)
    BY <1>4, <1>5, <2>1, <2>2 DEF Refunded
  <2> QED BY <1>8, <2>2, <2>3, <2>4
<1>11. \A i : CreditsOf(i)' = CreditsOf(i) /\ Credited(i)' = Credited(i)
  BY DEF CreditsOf, Credited, CreditCents, Trade
<1>12. k \in CreditsOf(s) /\ \A i : i # s => k \notin CreditsOf(i)
  BY <1>3 DEF CreditsOf
<1>13. CashRefunded(s)' = CashRefunded(s) + d.amount
  <2>1. PICK S : S = CashRefundsOf(s)
    OBVIOUS
  <2>2. CashRefundsOf(s)' = S \cup {id} /\ id \notin S
    BY <1>1, <1>2, <1>3, <1>11, <1>12, <2>1 DEF CashRefundsOf
  <2>3. S \in SUBSET RefundId /\ IsFiniteSet(S)
    BY <1>7, <2>1
  <2>4. CashRefunded(s) = SumCents(f, S) /\ CashRefunded(s)' = SumCents(g, S \cup {id})
    BY <1>4, <1>5, <2>1, <2>2 DEF CashRefunded, CashRefundsOf
  <2> QED BY <1>8, <2>2, <2>3, <2>4
<1>14. ASSUME NEW i, i # s
       PROVE  CashRefunded(i)' = CashRefunded(i)
  <2>1. PICK S : S = CashRefundsOf(i)
    OBVIOUS
  <2>2. CashRefundsOf(i)' = S /\ id \notin S
    BY <1>1, <1>2, <1>3, <1>11, <1>12, <1>14, <2>1 DEF CashRefundsOf
  <2>3. S \in SUBSET RefundId /\ IsFiniteSet(S)
    BY <1>7, <2>1
  <2>4. CashRefunded(i) = SumCents(f, S) /\ CashRefunded(i)' = SumCents(g, S)
    BY <1>4, <1>5, <2>1, <2>2 DEF CashRefunded, CashRefundsOf
  <2> QED BY <1>8, <2>2, <2>3, <2>4
<1> QED BY <1>3, <1>9, <1>10, <1>11, <1>13, <1>14


----------------------------------------------------------------------------
(* Requests.  A price stays good while totals only grow.                     *)
LEMMA PriceStaysGood ==
  ASSUME MoneyTyped, MoneyTyped',
         \A i \in Invoice : /\ Credited(i) <= Credited(i)' /\ Credited(i)' <= Total
                            /\ CashRefunded(i) <= CashRefunded(i)',
         \A c \in CreditId : /\ Refunded(c) <= Refunded(c)'
                             /\ credit[c] # None => credit'[c] = credit[c],
         NEW k, CallPriced(k), k.op \in InvoiceOps => k.sale \in Invoice,
         RefundPriced(k) /\ k.sale \notin clawedBack' => k.received <= received'[k.sale]
  PROVE  CallPriced(k)'
<1>1. /\ \A i : Credited(i) \in Nat /\ CashRefunded(i) \in Nat
      /\ \A c : Refunded(c) \in Nat
  BY TotalsTyped
<1>2. /\ \A i : Credited(i)' \in Nat /\ CashRefunded(i)' \in Nat
      /\ \A c : Refunded(c)' \in Nat
  <2>1. (/\ \A i : Credited(i) \in Nat
         /\ \A i : CashRefunded(i) \in Nat
         /\ \A c : Refunded(c) \in Nat)'
    BY TotalsTyped, PTL
  <2> QED BY <2>1
<1>3. \A i \in Invoice : Credited(i) = Total => Credited(i)' = Total
  BY <1>1, <1>2, BoundsAssumption
<1>4. CASE k = Idle
  BY <1>4 DEF CallPriced
<1>5. CASE k.op \in InvoiceOps /\ InvoicePriced(k)
  <2>1. InvoicePriced(k)'
    BY <1>3, <1>5 DEF InvoicePriced
  <2> QED BY <1>5, <2>1 DEF CallPriced
<1>6. CASE AdjustPriced(k)
  <2>1. k \in AdjustCall /\ k.baseline \in Nat /\ k.document.sale \in Invoice
    BY <1>6 DEF AdjustPriced, AdjustCall, CreditDoc
  <2>2. PICK i \in Invoice : i = k.document.sale
    BY <2>1
  <2>3. k.baseline <= Credited(i)
    BY <1>6, <2>2 DEF AdjustPriced
  <2>4. k.baseline <= Credited(i)'
    BY <1>1, <1>2, <2>1, <2>3
  <2>5. AdjustPriced(k)'
    BY <1>6, <2>2, <2>4 DEF AdjustPriced
  <2> QED BY <2>5 DEF CallPriced
<1>7. CASE RefundPriced(k)
  <2>1. /\ k \in RefundCall /\ k.baseline \in Nat /\ k.returned \in Nat
        /\ k.document.credit \in CreditId /\ k.sale \in Invoice
    BY <1>7 DEF RefundPriced, RefundCall, RefundDoc
  <2>2. PICK i \in Invoice : i = k.sale
    BY <2>1
  <2>3. PICK c \in CreditId : c = k.document.credit
    BY <2>1
  <2>4. k.baseline <= Refunded(c) /\ k.returned <= CashRefunded(i)
        /\ credit[c] # None /\ credit[c].sale = k.sale
    BY <1>7, <2>2, <2>3 DEF RefundPriced
  <2>5. k.baseline <= Refunded(c)' /\ k.returned <= CashRefunded(i)'
    BY <1>1, <1>2, <2>1, <2>4
  <2>6. credit'[c] = credit[c]
    BY <2>4
  <2>7. k.sale \notin clawedBack' => k.received <= received'[k.sale]
    BY <1>7
  <2>8. RefundPriced(k)'
    BY <2>1, <2>2, <2>3, <2>4, <2>5, <2>6, <2>7 DEF RefundPriced
  <2> QED BY <2>8 DEF CallPriced
<1> QED BY <1>4, <1>5, <1>6, <1>7 DEF CallPriced

LEMMA BecomesPriced ==
  ASSUME IInv, Money, NEW w \in Worker, NEW k, call' = [call EXCEPT ![w] = k], CallPriced(k)
  PROVE  \A v \in Worker : CallPriced(call'[v])
<1>1. call = [v \in Worker |-> call[v]]
  BY DEF IInv, Typed
<1>2. ASSUME NEW v \in Worker
      PROVE  CallPriced(call'[v])
  <2>1. CASE v = w
    <3>1. call'[v] = k
      BY <1>1, <2>1
    <3> QED BY <3>1
  <2>2. CASE v # w
    <3>1. call'[v] = call[v]
      BY <1>1, <2>2
    <3>2. CallPriced(call[v])
      BY DEF Money
    <3> QED BY <3>1, <3>2
  <2> QED BY <2>1, <2>2
<1> QED BY <1>2

(* Steps that add no credit, refund or receipt.                              *)
LEMMA QuietMoney ==
  ASSUME IInv', Money, UNCHANGED <<credit, refund, received, spent, clawedBack>>,
         calls' \in 0..MaxCalls, ReturnsCredited',
         \A v \in Worker : CallPriced(call'[v])
  PROVE  Money'
<1>1. /\ \A i : Credited(i)' = Credited(i) /\ CreditsOf(i)' = CreditsOf(i)
      /\ \A i : CashRefunded(i)' = CashRefunded(i)
      /\ \A c : Refunded(c)' = Refunded(c)
  BY TotalsKept
<1>2. MoneyTyped' /\ RefundsFound' /\ MoneyTyped
  BY DEF Money, MoneyTyped, RefundsFound
<1>3. \A i \in Invoice : SaleMoney(i)'
  BY <1>1 DEF Money, SaleMoney, Counted
<1>4. \A c \in CreditId : CreditMoney(c)'
  BY <1>1 DEF Money, CreditMoney, Counted
<1>5. ASSUME NEW v \in Worker
      PROVE  CallPriced(call[v])'
  <2>1. PICK k : k = call'[v]
    OBVIOUS
  <2>2. CallPriced(k)
    BY <2>1
  <2>3. k.op \in InvoiceOps => k.sale \in Invoice
    BY <2>1 DEF IInv, CallKnown, InvoiceCall
  <2>4. RefundPriced(k) /\ k.sale \notin clawedBack' => k.received <= received'[k.sale]
    BY DEF RefundPriced
  <2>5. /\ \A i \in Invoice : /\ Credited(i) \in Nat /\ Credited(i) <= Total
                              /\ CashRefunded(i) \in Nat
        /\ \A c \in CreditId : Refunded(c) \in Nat
    BY <1>2, TotalsTyped DEF Money, SaleMoney
  <2>6. /\ \A i \in Invoice : /\ Credited(i) <= Credited(i)' /\ Credited(i)' <= Total
                              /\ CashRefunded(i) <= CashRefunded(i)'
        /\ \A c \in CreditId : /\ Refunded(c) <= Refunded(c)'
                               /\ credit[c] # None => credit'[c] = credit[c]
    BY <1>1, <2>5
  <2>7. CallPriced(k)'
    BY <1>2, <2>2, <2>3, <2>4, <2>6, PriceStaysGood
  <2> QED BY <2>1, <2>7 DEF CallPriced, InvoicePriced, AdjustPriced, RefundPriced
<1> QED BY <1>2, <1>3, <1>4, <1>5 DEF Money


LEMMA RequestKeepsMoney ==
  ASSUME IInv, IInv', Money, NEW w \in Worker, NEW k, Begin(w, k) \/ Proceed(w, k),
         CallPriced(k)
  PROVE  Money'
<1>1. /\ UNCHANGED <<invoice, credit, refund, received, spent, clawedBack>>
      /\ call' = [call EXCEPT ![w] = k]
      /\ calls' = calls \/ (calls < MaxCalls /\ calls' = calls + 1)
  BY DEF Begin, Proceed, documents, ghosts
<1>2. calls' \in 0..MaxCalls
  BY <1>1, BoundsAssumption DEF Money, MoneyTyped
<1>3. \A i : Credited(i)' = Credited(i)
  BY <1>1, TotalsKept
<1>4. ReturnsCredited'
  BY <1>1, <1>3 DEF Money, ReturnsCredited, Returned
<1> QED BY <1>1, <1>2, <1>4, BecomesPriced, QuietMoney

LEMMA InvoiceRequests ==
  ASSUME IInv, IInv', Money, NEW w \in Worker,
         \/ \E i \in Invoice : BeginSale(w, i) \/ BeginPatch(w, i) \/ BeginReturn(w, i)
         \/ ReadForSale(w) \/ LoadInventory(w) \/ GiveUp(w)
  PROVE  Money'
<1> USE DEF InvoiceOps
<1>1. \A i \in Invoice : invoice[i].data.returned > 0 => Credited(i) = Total
  BY DEF Money, ReturnsCredited, Returned
<1>2. ASSUME NEW i \in Invoice, BeginSale(w, i)
      PROVE  Money'
  <2> DEFINE k == [op |-> "sell", sale |-> i, read |-> None, revision |-> 0,
                   view |-> None, returns |-> {}]
  <2>1. CallPriced(k)
    BY DEF CallPriced, InvoicePriced
  <2> QED BY <1>2, <2>1, RequestKeepsMoney DEF BeginSale
<1>3. ASSUME NEW i \in Invoice, BeginPatch(w, i)
      PROVE  Money'
  <2> DEFINE k == [op |-> "patch", sale |-> i, read |-> invoice[i].data,
                   revision |-> invoice[i].revision, view |-> None, returns |-> {}]
  <2>1. CallPriced(k)
    BY <1>1 DEF CallPriced, InvoicePriced
  <2> QED BY <1>3, <2>1, RequestKeepsMoney DEF BeginPatch
<1>4. ASSUME NEW i \in Invoice, BeginReturn(w, i)
      PROVE  Money'
  <2> DEFINE k == [op |-> "return", sale |-> i, read |-> invoice[i].data,
                   revision |-> invoice[i].revision, view |-> None, returns |-> {}]
  <2>1. Credited(i) = Total
    BY <1>4 DEF BeginReturn, Money, SaleMoney
  <2>2. CallPriced(k)
    BY <2>1 DEF CallPriced, InvoicePriced
  <2> QED BY <1>4, <2>2, RequestKeepsMoney DEF BeginReturn
<1>5. ASSUME call[w].op = "sell"
      PROVE  call[w] \in InvoiceCall /\ call[w].sale \in Invoice /\ InvoicePriced(call[w])
  <2>1. call[w] \in InvoiceCall /\ call[w].sale \in Invoice
    BY <1>5 DEF IInv, CallKnown, InvoiceCall
  <2>2. CallPriced(call[w])
    BY DEF Money
  <2> QED BY <1>5, <2>1, <2>2 DEF CallPriced, Idle, AdjustPriced, AdjustCall, RefundPriced, RefundCall
<1>6. ASSUME ReadForSale(w)
      PROVE  Money'
  <2>1. PICK c : c = call[w]
    OBVIOUS
  <2>2. c.op = "sell" /\ c \in InvoiceCall /\ c.sale \in Invoice
    BY <1>5, <1>6, <2>1 DEF ReadForSale
  <2>3. PICK k : k = [c EXCEPT !.read = invoice[c.sale].data,
                               !.revision = invoice[c.sale].revision]
    OBVIOUS
  <2>4. k.op = "sell" /\ k.sale = c.sale /\ k.read = invoice[c.sale].data
    BY <2>2, <2>3 DEF InvoiceCall
  <2>5. CallPriced(k)
    BY <1>1, <2>2, <2>4 DEF CallPriced, InvoicePriced
  <2>6. Proceed(w, k)
    BY <1>6, <2>1, <2>3 DEF ReadForSale
  <2> QED BY <2>5, <2>6, RequestKeepsMoney
<1>7. ASSUME LoadInventory(w)
      PROVE  Money'
  <2>1. PICK c : c = call[w]
    OBVIOUS
  <2>2. c.op = "sell" /\ c \in InvoiceCall /\ InvoicePriced(c)
    BY <1>5, <1>7, <2>1 DEF LoadInventory
  <2>3. PICK e, p : Proceed(w, [c EXCEPT !.view = [state |-> e.state, sale |-> e.sale,
                                                   sequence |-> e.sequence, previous |-> p],
                                         !.returns = {i \in Invoice : Returned(i)}])
    BY <1>7, <2>1 DEF LoadInventory
  <2>4. PICK k : k = [c EXCEPT !.view = [state |-> e.state, sale |-> e.sale,
                                         sequence |-> e.sequence, previous |-> p],
                               !.returns = {i \in Invoice : Returned(i)}]
    OBVIOUS
  <2>5. k.op = "sell" /\ k.sale = c.sale /\ k.read = c.read
    BY <2>2, <2>4 DEF InvoiceCall
  <2>6. CallPriced(k)
    BY <2>2, <2>5 DEF CallPriced, InvoicePriced
  <2> QED BY <2>3, <2>4, <2>6, RequestKeepsMoney
<1>8. ASSUME GiveUp(w)
      PROVE  Money'
  <2>1. CallPriced(Idle)
    BY DEF CallPriced
  <2> QED BY <1>8, <2>1, RequestKeepsMoney DEF GiveUp
<1> QED BY <1>2, <1>3, <1>4, <1>6, <1>7, <1>8

LEMMA BeginAdjustMoney ==
  ASSUME IInv, IInv', Money, NEW w \in Worker, NEW id \in CreditId, NEW i \in Invoice,
         BeginAdjust(w, id, i)
  PROVE  Money'
<1>1. PICK n \in Cents, kind \in {"price-adjustment", "return"} :
          /\ kind = "return" => n + Credited(i) = Total
          /\ Begin(w, [op |-> "adjust", id |-> id, baseline |-> Credited(i),
                       document |-> [sale |-> i, amount |-> n, kind |-> kind]])
  BY DEF BeginAdjust
<1>2. PICK b \in Nat : b = Credited(i)
  BY TotalsTyped DEF Money
<1>3. PICK d \in CreditDoc : d = [sale |-> i, amount |-> n, kind |-> kind]
  BY DEF CreditDoc
<1>4. PICK k \in AdjustCall : k = [op |-> "adjust", id |-> id, baseline |-> b, document |-> d]
  BY DEF AdjustCall
<1>5. d.sale = i /\ d.amount = n /\ d.kind = kind /\ k.baseline = b /\ k.document = d
  BY <1>3, <1>4
<1>6. n \in Nat
  BY BoundsAssumption DEF Cents
<1>7. AdjustPriced(k)
  BY <1>1, <1>2, <1>5, <1>6 DEF AdjustPriced
<1>8. Begin(w, k)
  BY <1>1, <1>2, <1>3, <1>4
<1> QED BY <1>7, <1>8, RequestKeepsMoney DEF CallPriced

LEMMA BeginRefundMoney ==
  ASSUME IInv, IInv', Money, NEW w \in Worker, NEW id \in RefundId, NEW cr \in CreditId,
         BeginRefund(w, id, cr)
  PROVE  Money'
<1>1. credit[cr] # None /\ credit[cr].sale \in Invoice
  BY DocumentFields DEF BeginRefund, Money
<1>2. PICK i \in Invoice : i = credit[cr].sale
  BY <1>1
<1>3. PICK n \in Cents :
          Begin(w, [op |-> "refund", id |-> id, sale |-> i,
                    document |-> [credit |-> cr, amount |-> n],
                    baseline |-> Refunded(cr), returned |-> CashRefunded(i),
                    received |-> received[i]])
  BY <1>2 DEF BeginRefund
<1>4. PICK b \in Nat : b = Refunded(cr)
  BY TotalsTyped DEF Money
<1>5. PICK r \in Nat : r = CashRefunded(i)
  BY TotalsTyped DEF Money
<1>6. PICK m \in Nat : m = received[i]
  BY BoundsAssumption DEF Money, MoneyTyped
<1>7. PICK d \in RefundDoc : d = [credit |-> cr, amount |-> n]
  BY DEF RefundDoc
<1>8. PICK k \in RefundCall : k = [op |-> "refund", id |-> id, sale |-> i, document |-> d,
                                  baseline |-> b, returned |-> r, received |-> m]
  BY DEF RefundCall
<1>9. d.credit = cr /\ k.document = d /\ k.sale = i /\ k.baseline = b /\ k.returned = r
      /\ k.received = m
  BY <1>7, <1>8
<1>10. RefundPriced(k)
  BY <1>1, <1>2, <1>4, <1>5, <1>6, <1>9 DEF RefundPriced
<1>11. Begin(w, k)
  BY <1>3, <1>4, <1>5, <1>6, <1>7, <1>8
<1> QED BY <1>10, <1>11, RequestKeepsMoney DEF CallPriced

(* An invoice that is written as returned was credited in full.              *)
LEMMA CommitInvoiceMoney ==
  ASSUME IInv, IInv', Money, NEW w \in Worker, CommitInvoice(w)
  PROVE  Money'
<1>1. /\ UNCHANGED <<credit, refund, received, spent, clawedBack, calls>>
      /\ call' = [call EXCEPT ![w] = Idle]
  BY DEF CommitInvoice
<1>2. PICK c : c = call[w]
  OBVIOUS
<1>3. /\ c \in InvoiceCall /\ c.sale \in Invoice /\ ReadKnown(c)
      /\ c.op \in InvoiceOps /\ c.read # None
  BY <1>2, CommitReplaces DEF CommitInvoice, InvoiceOps
<1>4. PICK s \in Invoice : s = c.sale
  BY <1>3
<1>5. PICK data : Replaces(w, data)
  BY CommitReplaces
<1>6. InvoicePriced(c)
  <2>1. CallPriced(c)
    BY <1>2 DEF Money
  <2> QED BY <1>3, <2>1
          DEF CallPriced, InvoiceOps, Idle, AdjustPriced, AdjustCall, RefundPriced, RefundCall
<1>7. data.returned > 0 => Credited(s) = Total
  <2>1. CASE c.op = "sell"
    <3>1. PICK day \in Day : data = SaleOf(c, day)
      BY <1>2, <1>5, <2>1 DEF Replaces, Written
    <3>2. c.read \in Metadata
      BY <1>3 DEF ReadKnown, DataSound
    <3>3. data.returned = c.read.returned
      BY <3>1, <3>2 DEF SaleOf, Metadata
    <3> QED BY <1>3, <1>4, <1>6, <3>3 DEF InvoicePriced
  <2>2. CASE c.op = "return"
    BY <1>4, <1>6, <2>2 DEF InvoicePriced
  <2>3. CASE c.op = "patch"
    <3>1. data = c.read
      BY <1>2, <1>5, <2>3 DEF Replaces, Written
    <3> QED BY <1>3, <1>4, <1>6, <3>1 DEF InvoicePriced
  <2> QED BY <1>3, <2>1, <2>2, <2>3 DEF InvoiceOps
<1>8. invoice'[s].data = data /\ \A i \in Invoice \ {s} : invoice'[i] = invoice[i]
  BY <1>2, <1>4, <1>5, ReplacesInvoice
<1>9. \A i : Credited(i)' = Credited(i)
  BY <1>1, TotalsKept
<1>10. ReturnsCredited'
  BY <1>7, <1>8, <1>9 DEF Money, ReturnsCredited, Returned
<1>11. calls' \in 0..MaxCalls /\ CallPriced(Idle)
  BY <1>1 DEF Money, MoneyTyped, CallPriced
<1> QED BY <1>1, <1>10, <1>11, BecomesPriced, QuietMoney


----------------------------------------------------------------------------
(* The documents of money.  A receipt may be lowered only under a refund     *)
(* that the sale is then counted as clawed back for.                         *)
LEMMA ReceiptMoney ==
  ASSUME IInv, IInv', Money, NEW i \in Invoice, ReplaceReceipt(i)
  PROVE  Money'
<1>1. PICK n \in 0..(Total - Trade(i)) :
          /\ received' = [received EXCEPT ![i] = n]
          /\ clawedBack' = IF n < received[i] /\ RefundBegun(i) THEN clawedBack \cup {i}
                           ELSE clawedBack
          /\ UNCHANGED <<invoice, acquired, credit, refund, spent, lock, call>>
  BY DEF ReplaceReceipt
<1>2. n \in 0..Total /\ n \in Nat
  BY <1>1, BoundsAssumption DEF Trade
<1>3. calls' \in 0..MaxCalls
  BY BoundsAssumption DEF ReplaceReceipt, Money, MoneyTyped
<1>4. /\ \A j : Credited(j)' = Credited(j) /\ CreditsOf(j)' = CreditsOf(j)
      /\ \A j : CashRefunded(j)' = CashRefunded(j)
      /\ \A c : Refunded(c)' = Refunded(c)
  BY <1>1, TotalsKept
<1>5. /\ received \in [Invoice -> 0..Total] /\ received'[i] = n
      /\ \A j \in Invoice \ {i} : received'[j] = received[j]
  BY <1>1 DEF Money, MoneyTyped
<1>6. clawedBack \subseteq clawedBack' /\ clawedBack' \subseteq Invoice
  BY <1>1 DEF Money, MoneyTyped
<1>7. MoneyTyped' /\ RefundsFound' /\ MoneyTyped
  BY <1>1, <1>2, <1>3, <1>5, <1>6 DEF Money, MoneyTyped, RefundsFound
<1>8. ReturnsCredited'
  BY <1>1, <1>4 DEF Money, ReturnsCredited, Returned
<1>9. i \notin clawedBack' => received[i] <= n \/ ~RefundBegun(i)
  BY <1>1, <1>2, <1>5, BoundsAssumption
<1>10. ASSUME NEW j \in Invoice
       PROVE  SaleMoney(j)'
  <2>1. SaleMoney(j)
    BY DEF Money
  <2>2. CashRefunded(j) \in Nat /\ received[j] \in Nat
    BY <1>5, <1>7, TotalsTyped, BoundsAssumption
  <2>3. j \notin clawedBack' => CashRefunded(j) <= received'[j]
    <3>1. CASE j # i
      BY <1>5, <1>6, <2>1, <3>1 DEF SaleMoney
    <3>2. CASE j = i /\ received[i] <= n
      BY <1>2, <1>5, <1>6, <2>1, <2>2, <3>2 DEF SaleMoney
    <3>3. CASE j = i /\ ~RefundBegun(i)
      <4>1. CashRefunded(i) = 0
        BY <2>2, <3>3 DEF RefundBegun
      <4> QED BY <1>2, <1>5, <3>3, <4>1
    <3> QED BY <1>9, <3>1, <3>2, <3>3
  <2> QED BY <1>1, <1>4, <2>1, <2>3 DEF SaleMoney, Counted
<1>11. \A c \in CreditId : CreditMoney(c)'
  BY <1>1, <1>4 DEF Money, CreditMoney, Counted
<1>12. ASSUME NEW v \in Worker
       PROVE  CallPriced(call[v])'
  <2>1. PICK k : k = call[v]
    OBVIOUS
  <2>2. CallPriced(k)
    BY <2>1 DEF Money
  <2>3. k.op \in InvoiceOps => k.sale \in Invoice
    BY <2>1 DEF IInv, CallKnown, InvoiceCall
  <2>4. ASSUME RefundPriced(k), k.sale \notin clawedBack'
        PROVE  k.received <= received'[k.sale]
    <3>1. k \in RefundCall /\ k.op = "refund" /\ k.sale \in Invoice /\ k.received \in Nat
      BY <2>4 DEF RefundPriced, RefundCall
    <3>2. k.received <= received[k.sale]
      BY <1>6, <2>4 DEF RefundPriced
    <3>3. CASE k.sale # i
      BY <1>5, <3>1, <3>2, <3>3
    <3>4. CASE k.sale = i
      <4>1. RefundBegun(i)
        BY <2>1, <3>1, <3>4 DEF RefundBegun
      <4>2. received[i] <= n /\ received[i] \in Nat
        BY <1>5, <1>9, <2>4, <3>4, <4>1, BoundsAssumption
      <4> QED BY <1>2, <1>5, <3>1, <3>2, <3>4, <4>2
    <3> QED BY <3>3, <3>4
  <2>5. /\ \A j \in Invoice : /\ Credited(j) \in Nat /\ Credited(j) <= Total
                              /\ CashRefunded(j) \in Nat
        /\ \A c \in CreditId : Refunded(c) \in Nat
    BY <1>7, TotalsTyped DEF Money, SaleMoney
  <2>6. /\ \A j \in Invoice : /\ Credited(j) <= Credited(j)' /\ Credited(j)' <= Total
                              /\ CashRefunded(j) <= CashRefunded(j)'
        /\ \A c \in CreditId : /\ Refunded(c) <= Refunded(c)'
                               /\ credit[c] # None => credit'[c] = credit[c]
    BY <1>1, <1>4, <2>5
  <2>7. CallPriced(k)'
    BY <1>7, <2>2, <2>3, <2>4, <2>6, PriceStaysGood
  <2> QED BY <1>1, <2>1, <2>7 DEF CallPriced, InvoicePriced, AdjustPriced, RefundPriced
<1> QED BY <1>7, <1>8, <1>10, <1>11, <1>12 DEF Money

(* The condition on a counter holds for the documents it counts.             *)
LEMMA RoomIsRoom ==
  ASSUME NEW counter, NEW n \in Nat, NEW baseline \in Nat, NEW total \in Nat, NEW limit \in Nat,
         Counted(counter, total), baseline <= total
  PROVE  /\ HasRoom(counter, baseline, limit, n) => total + n <= limit
         /\ After(counter, baseline, n) = total + n
<1>1. CASE spent[counter] = None /\ total = 0
  <2>1. baseline = 0
    BY <1>1
  <2> QED BY <1>1, <2>1 DEF HasRoom, After
<1>2. CASE spent[counter] = total
  <2>1. spent[counter] # None
    BY <1>2, InvoicesAssumption
  <2> QED BY <1>2, <2>1 DEF HasRoom, After
<1> QED BY <1>1, <1>2 DEF Counted

(* The requests that are left when one has committed.                        *)
LEMMA OthersPriced ==
  ASSUME IInv, Money, MoneyTyped', NEW w \in Worker, call' = [call EXCEPT ![w] = Idle],
         UNCHANGED <<received, clawedBack>>,
         \A i \in Invoice : /\ Credited(i) <= Credited(i)' /\ Credited(i)' <= Total
                            /\ CashRefunded(i) <= CashRefunded(i)',
         \A c \in CreditId : /\ Refunded(c) <= Refunded(c)'
                             /\ credit[c] # None => credit'[c] = credit[c],
         NEW v \in Worker
  PROVE  CallPriced(call[v])'
<1>1. call = [u \in Worker |-> call[u]]
  BY DEF IInv, Typed
<1>2. CASE v = w
  <2>1. call'[v] = Idle
    BY <1>1, <1>2
  <2> QED BY <2>1 DEF CallPriced
<1>3. CASE v # w
  <2>1. PICK k : k = call[v]
    OBVIOUS
  <2>2. call'[v] = k
    BY <1>1, <1>3, <2>1
  <2>3. CallPriced(k) /\ MoneyTyped
    BY <2>1 DEF Money
  <2>4. k.op \in InvoiceOps => k.sale \in Invoice
    BY <2>1 DEF IInv, CallKnown, InvoiceCall
  <2>5. RefundPriced(k) /\ k.sale \notin clawedBack' => k.received <= received'[k.sale]
    BY DEF RefundPriced
  <2>6. CallPriced(k)'
    BY <2>3, <2>4, <2>5, PriceStaysGood
  <2> QED BY <2>2, <2>6 DEF CallPriced, InvoicePriced, AdjustPriced, RefundPriced
<1> QED BY <1>2, <1>3


(* A credit that is committed fits under what the invoice was credited.      *)
LEMMA CommitAdjustMoney ==
  ASSUME IInv, Money, NEW w \in Worker, CommitAdjust(w)
  PROVE  Money'
<1>1. PICK c : c = call[w]
  OBVIOUS
<1>2. c.op = "adjust" /\ CallPriced(c)
  BY <1>1 DEF CommitAdjust, Money
<1>3. AdjustPriced(c)
  BY <1>2 DEF CallPriced, Idle, InvoiceOps, RefundPriced, RefundCall
<1>4. c \in AdjustCall /\ c.id \in CreditId /\ c.document \in CreditDoc /\ c.baseline \in Nat
  BY <1>3 DEF AdjustPriced, AdjustCall
<1>5. PICK id \in CreditId : id = c.id
  BY <1>4
<1>6. PICK d \in CreditDoc : d = c.document
  BY <1>4
<1>7. PICK b \in Nat : b = c.baseline
  BY <1>4
<1>8. PICK s \in Invoice : s = d.sale
  BY DEF CreditDoc
<1>9. PICK n \in Nat : n = d.amount /\ n > 0
  BY BoundsAssumption DEF CreditDoc, Cents
<1>10. /\ credit[id] = None /\ HasRoom(<<"credit", s>>, b, Total, n)
       /\ spent' = [spent EXCEPT ![<<"credit", s>>] = After(<<"credit", s>>, b, n)]
       /\ credit' = [credit EXCEPT ![id] = d]
       /\ call' = [call EXCEPT ![w] = Idle]
       /\ UNCHANGED <<invoice, refund, received, calls, clawedBack>>
  BY <1>1, <1>5, <1>6, <1>7, <1>8, <1>9 DEF CommitAdjust, ghosts
<1>11. MoneyTyped /\ RefundsFound /\ ReturnsCredited
       /\ (\A i \in Invoice : SaleMoney(i)) /\ (\A k \in CreditId : CreditMoney(k))
  BY DEF Money
<1>12. PICK t \in Nat : t = Credited(s)
  BY <1>11, TotalsTyped
<1>13. b <= t /\ (d.kind = "return" => b + n = Total)
  BY <1>3, <1>6, <1>7, <1>8, <1>9, <1>12 DEF AdjustPriced
<1>14. t + n <= Total /\ After(<<"credit", s>>, b, n) = t + n
  BY <1>10, <1>11, <1>12, <1>13, RoomIsRoom, BoundsAssumption DEF SaleMoney
<1>15. /\ CreditsOf(s)' = CreditsOf(s) \cup {id} /\ Credited(s)' = t + n
       /\ \A i : i # s => Credited(i)' = Credited(i) /\ CreditsOf(i)' = CreditsOf(i)
       /\ \A i : CashRefunded(i)' = CashRefunded(i)
       /\ \A k : Refunded(k)' = Refunded(k)
       /\ Refunded(id) = 0
  BY <1>8, <1>9, <1>10, <1>11, <1>12, CreditAdds
<1>16. credit'[id] = d /\ (\A k \in CreditId \ {id} : credit'[k] = credit[k]) /\ d # None
  BY <1>10, <1>11, NoneAssumption DEF MoneyTyped
<1>17. /\ spent'[<<"credit", s>>] = t + n
       /\ \A k \in Counter : k # <<"credit", s>> => spent'[k] = spent[k]
       /\ spent' \in [Counter -> Nat \cup {None}]
  BY <1>10, <1>11, <1>14 DEF MoneyTyped, Counter
<1>18. MoneyTyped'
  BY <1>10, <1>11, <1>16, <1>17 DEF MoneyTyped
<1>19. RefundsFound'
  BY <1>10, <1>11, <1>16 DEF RefundsFound, MoneyTyped, RefundDoc
<1>20. t # Total
  BY <1>9, <1>14, BoundsAssumption
<1>21. ReturnsCredited'
  BY <1>10, <1>11, <1>12, <1>15, <1>20 DEF ReturnsCredited, Returned
<1>22. /\ \A i \in Invoice : /\ Credited(i) \in Nat /\ CashRefunded(i) \in Nat
                             /\ Credited(i) <= Total
       /\ \A k : Refunded(k) \in Nat
  BY <1>11, TotalsTyped DEF SaleMoney
<1>23. ASSUME NEW i \in Invoice
       PROVE  SaleMoney(i)'
  <2>1. <<"cash-refund", i>> \in Counter /\ <<"credit", i>> \in Counter
    BY DEF Counter
  <2>2. spent'[<<"cash-refund", i>>] = spent[<<"cash-refund", i>>]
    BY <1>17, <2>1
  <2>3. SaleMoney(i)
    BY <1>11
  <2>4. CASE i # s
    <3>1. spent'[<<"credit", i>>] = spent[<<"credit", i>>]
      BY <1>17, <2>1, <2>4
    <3>2. \A k \in CreditsOf(i) : credit'[k] = credit[k]
      BY <1>10, <1>16 DEF CreditsOf
    <3> QED BY <1>10, <1>15, <2>2, <2>3, <2>4, <3>1, <3>2 DEF SaleMoney, Counted
  <2>5. CASE i = s
    <3>1. \A k \in CreditsOf(s) : k # id /\ credit[k].kind # "return"
      BY <1>10, <1>12, <1>20, <2>3, <2>5 DEF CreditsOf, SaleMoney
    <3>2. \A k \in CreditsOf(s) : credit'[k].kind # "return"
      BY <1>16, <3>1 DEF CreditsOf
    <3>3. d.kind = "return" => t + n = Total
      BY <1>13, <1>14, BoundsAssumption
    <3>4. \A k \in CreditsOf(s)' : credit'[k].kind = "return" => Credited(s)' = Total
      BY <1>15, <1>16, <3>2, <3>3
    <3>5. Counted(<<"credit", s>>, Credited(s))'
      BY <1>15, <1>17 DEF Counted
    <3> QED BY <1>10, <1>14, <1>15, <2>2, <2>3, <2>5, <3>4, <3>5 DEF SaleMoney, Counted
  <2> QED BY <2>4, <2>5
<1>24. ASSUME NEW k \in CreditId
       PROVE  CreditMoney(k)'
  <2>1. <<"refund", k>> \in Counter /\ <<"refund", k>> # <<"credit", s>>
    BY DEF Counter
  <2>2. spent'[<<"refund", k>>] = spent[<<"refund", k>>]
    BY <1>17, <2>1
  <2>3. CreditMoney(k)
    BY <1>11
  <2>4. CASE k = id
    BY <1>9, <1>15, <1>16, <2>2, <2>3, <2>4 DEF CreditMoney, Counted
  <2>5. CASE k # id
    BY <1>15, <1>16, <2>2, <2>3, <2>5 DEF CreditMoney, Counted
  <2> QED BY <2>4, <2>5
<1>25. /\ \A i \in Invoice : /\ Credited(i) <= Credited(i)' /\ Credited(i)' <= Total
                             /\ CashRefunded(i) <= CashRefunded(i)'
       /\ \A k \in CreditId : /\ Refunded(k) <= Refunded(k)'
                              /\ credit[k] # None => credit'[k] = credit[k]
  BY <1>10, <1>12, <1>14, <1>15, <1>16, <1>22, BoundsAssumption
<1>26. \A v \in Worker : CallPriced(call[v])'
  BY <1>10, <1>18, <1>25, OthersPriced
<1> QED BY <1>18, <1>19, <1>21, <1>23, <1>24, <1>26 DEF Money


(* A refund that is committed fits under its credit and the money received.  *)
LEMMA CommitRefundMoney ==
  ASSUME IInv, Money, NEW w \in Worker, CommitRefund(w)
  PROVE  Money'
<1>1. PICK c : c = call[w]
  OBVIOUS
<1>2. c.op = "refund" /\ CallPriced(c)
  BY <1>1 DEF CommitRefund, Money
<1>3. RefundPriced(c)
  BY <1>2 DEF CallPriced, Idle, InvoiceOps, AdjustPriced, AdjustCall
<1>4. /\ c \in RefundCall /\ c.id \in RefundId /\ c.document \in RefundDoc
      /\ c.baseline \in Nat /\ c.returned \in Nat /\ c.received \in Nat /\ c.sale \in Invoice
  BY <1>3 DEF RefundPriced, RefundCall
<1>5. PICK id \in RefundId : id = c.id
  BY <1>4
<1>6. PICK d \in RefundDoc : d = c.document
  BY <1>4
<1>7. PICK b \in Nat : b = c.baseline
  BY <1>4
<1>8. PICK r \in Nat : r = c.returned
  BY <1>4
<1>9. PICK m \in Nat : m = c.received
  BY <1>4
<1>10. PICK s \in Invoice : s = c.sale
  BY <1>4
<1>11. PICK cr \in CreditId : cr = d.credit
  BY DEF RefundDoc
<1>12. PICK n \in Nat : n = d.amount /\ n > 0
  BY BoundsAssumption DEF RefundDoc, Cents
<1>13. MoneyTyped /\ RefundsFound /\ ReturnsCredited
       /\ (\A i \in Invoice : SaleMoney(i)) /\ (\A k \in CreditId : CreditMoney(k))
  BY DEF Money
<1>14. credit[cr] # None /\ credit[cr].sale = s
  BY <1>3, <1>6, <1>10, <1>11 DEF RefundPriced
<1>15. PICK a \in Nat : a = credit[cr].amount
  BY <1>13, <1>14, DocumentFields
<1>16. /\ refund[id] = None
       /\ HasRoom(<<"refund", cr>>, b, a, n) /\ HasRoom(<<"cash-refund", s>>, r, m, n)
       /\ spent' = [spent EXCEPT ![<<"refund", cr>>] = After(<<"refund", cr>>, b, n),
                                 ![<<"cash-refund", s>>] = After(<<"cash-refund", s>>, r, n)]
       /\ refund' = [refund EXCEPT ![id] = d]
       /\ call' = [call EXCEPT ![w] = Idle]
       /\ UNCHANGED <<invoice, credit, received, calls, clawedBack>>
  BY <1>1, <1>5, <1>6, <1>7, <1>8, <1>9, <1>10, <1>11, <1>12, <1>15
     DEF CommitRefund, ghosts
<1>17. PICK t \in Nat : t = Refunded(cr)
  BY <1>13, TotalsTyped
<1>18. PICK u \in Nat : u = CashRefunded(s)
  BY <1>13, TotalsTyped
<1>19. b <= t /\ r <= u /\ (s \notin clawedBack => m <= received[s])
  BY <1>3, <1>6, <1>7, <1>8, <1>9, <1>10, <1>11, <1>17, <1>18 DEF RefundPriced
<1>20. t + n <= a /\ After(<<"refund", cr>>, b, n) = t + n
  BY <1>13, <1>16, <1>12, <1>17, <1>19, RoomIsRoom DEF CreditMoney
<1>21. u + n <= m /\ After(<<"cash-refund", s>>, r, n) = u + n
  BY <1>13, <1>16, <1>12, <1>18, <1>19, RoomIsRoom DEF SaleMoney
<1>22. /\ Refunded(cr)' = t + n /\ CashRefunded(s)' = u + n
       /\ \A k : k # cr => Refunded(k)' = Refunded(k)
       /\ \A i : i # s => CashRefunded(i)' = CashRefunded(i)
       /\ \A i : Credited(i)' = Credited(i) /\ CreditsOf(i)' = CreditsOf(i)
  BY <1>11, <1>12, <1>13, <1>14, <1>16, <1>17, <1>18, RefundAdds
<1>23. refund'[id] = d /\ (\A k \in RefundId \ {id} : refund'[k] = refund[k])
  BY <1>13, <1>16 DEF MoneyTyped
<1>24. /\ spent'[<<"refund", cr>>] = t + n /\ spent'[<<"cash-refund", s>>] = u + n
       /\ \A k \in Counter : k # <<"refund", cr>> /\ k # <<"cash-refund", s>>
                                => spent'[k] = spent[k]
       /\ spent' \in [Counter -> Nat \cup {None}]
  <2>1. <<"refund", cr>> \in Counter /\ <<"cash-refund", s>> \in Counter
    BY DEF Counter
  <2>2. <<"refund", cr>> # <<"cash-refund", s>>
    OBVIOUS
  <2> QED BY <1>13, <1>16, <1>20, <1>21, <2>1, <2>2 DEF MoneyTyped
<1>25. MoneyTyped'
  BY <1>13, <1>16, <1>23, <1>24 DEF MoneyTyped
<1>26. RefundsFound'
  BY <1>11, <1>13, <1>14, <1>16, <1>23 DEF RefundsFound
<1>27. ReturnsCredited'
  BY <1>13, <1>16, <1>22 DEF ReturnsCredited, Returned
<1>28. /\ \A i \in Invoice : /\ Credited(i) \in Nat /\ CashRefunded(i) \in Nat
                             /\ Credited(i) <= Total
       /\ \A k : Refunded(k) \in Nat
  BY <1>13, TotalsTyped DEF SaleMoney
<1>29. received[s] \in Nat
  BY <1>13, BoundsAssumption DEF MoneyTyped
<1>30. ASSUME NEW i \in Invoice
       PROVE  SaleMoney(i)'
  <2>1. <<"cash-refund", i>> \in Counter /\ <<"credit", i>> \in Counter
    BY DEF Counter
  <2>2. spent'[<<"credit", i>>] = spent[<<"credit", i>>]
    BY <1>24, <2>1
  <2>3. SaleMoney(i)
    BY <1>13
  <2>4. CASE i # s
    <3>1. spent'[<<"cash-refund", i>>] = spent[<<"cash-refund", i>>]
      BY <1>24, <2>1, <2>4
    <3> QED BY <1>16, <1>22, <2>2, <2>3, <2>4, <3>1 DEF SaleMoney, Counted
  <2>5. CASE i = s
    <3>1. s \notin clawedBack => u + n <= received[s]
      BY <1>19, <1>21, <1>29
    <3>2. Counted(<<"cash-refund", s>>, CashRefunded(s))'
      BY <1>22, <1>24 DEF Counted
    <3> QED BY <1>16, <1>22, <2>2, <2>3, <2>5, <3>1, <3>2 DEF SaleMoney, Counted
  <2> QED BY <2>4, <2>5
<1>31. ASSUME NEW k \in CreditId
       PROVE  CreditMoney(k)'
  <2>1. <<"refund", k>> \in Counter
    BY DEF Counter
  <2>2. CreditMoney(k)
    BY <1>13
  <2>3. CASE k = cr
    BY <1>15, <1>16, <1>20, <1>22, <1>24, <2>3 DEF CreditMoney, Counted
  <2>4. CASE k # cr
    <3>1. spent'[<<"refund", k>>] = spent[<<"refund", k>>]
      BY <1>24, <2>1, <2>4
    <3> QED BY <1>16, <1>22, <2>2, <2>4, <3>1 DEF CreditMoney, Counted
  <2> QED BY <2>3, <2>4
<1>32. /\ \A i \in Invoice : /\ Credited(i) <= Credited(i)' /\ Credited(i)' <= Total
                             /\ CashRefunded(i) <= CashRefunded(i)'
       /\ \A k \in CreditId : /\ Refunded(k) <= Refunded(k)'
                              /\ credit[k] # None => credit'[k] = credit[k]
  BY <1>16, <1>17, <1>18, <1>22, <1>28
<1>33. \A v \in Worker : CallPriced(call[v])'
  BY <1>16, <1>25, <1>32, OthersPriced
<1> QED BY <1>25, <1>26, <1>27, <1>30, <1>31, <1>33 DEF Money

LEMMA InitMoney == Init => Money
<1>1. SUFFICES ASSUME Init PROVE Money
  OBVIOUS
<1>2. /\ \A i : CreditsOf(i) = {} /\ CashRefundsOf(i) = {}
      /\ \A c : RefundsOf(c) = {}
  BY <1>1 DEF Init, CreditsOf, CashRefundsOf, RefundsOf
<1>3. \A i : Credited(i) = Trade(i)
  BY <1>2, SumNothing DEF Credited, Trade
<1>4. \A i : CashRefunded(i) = 0
  BY <1>2, SumNothing DEF CashRefunded, CashRefundsOf
<1>5. \A c : Refunded(c) = 0
  BY <1>2, SumNothing DEF Refunded
<1>6. \A i : Trade(i) \in 0..Total /\ Total - Trade(i) \in 0..Total
             /\ Total - Trade(i) >= 0
  BY BoundsAssumption DEF Trade
<1>7. MoneyTyped
  <2>1. received \in [Invoice -> 0..Total]
    BY <1>1, <1>6 DEF Init
  <2>2. spent \in [Counter -> Nat \cup {None}]
    BY <1>1 DEF Init
  <2> QED BY <1>1, <2>1, <2>2, BoundsAssumption DEF Init, MoneyTyped
<1>8. RefundsFound /\ ReturnsCredited
  BY <1>1 DEF Init, RefundsFound, ReturnsCredited, Returned, Unsold
<1>9. ASSUME NEW i \in Invoice
      PROVE  SaleMoney(i)
  <2>1. <<"credit", i>> \in Counter /\ <<"cash-refund", i>> \in Counter
    BY DEF Counter
  <2>2. /\ spent[<<"credit", i>>] = IF i \in Traded THEN 1 ELSE None
        /\ spent[<<"cash-refund", i>>] = None
    BY <1>1, <2>1 DEF Init
  <2>3. Counted(<<"credit", i>>, Credited(i)) /\ Counted(<<"cash-refund", i>>, CashRefunded(i))
    BY <1>3, <1>4, <2>2 DEF Counted, Trade
  <2>4. received[i] = Total - Trade(i)
    BY <1>1 DEF Init
  <2> QED BY <1>2, <1>3, <1>4, <1>6, <2>3, <2>4 DEF SaleMoney
<1>10. ASSUME NEW c \in CreditId
       PROVE  CreditMoney(c)
  <2>1. <<"refund", c>> \in Counter /\ credit[c] = None
    BY <1>1 DEF Init, Counter
  <2>2. spent[<<"refund", c>>] = None
    BY <1>1, <2>1 DEF Init
  <2> QED BY <1>5, <2>1, <2>2 DEF CreditMoney, Counted
<1>11. \A w \in Worker : CallPriced(call[w])
  BY <1>1 DEF Init, CallPriced
<1> QED BY <1>7, <1>8, <1>9, <1>10, <1>11 DEF Money

LEMMA StepMoney ==
  ASSUME IInv, IInv', Money, [Next]_vars
  PROVE  Money'
<1>1. ASSUME NEW w \in Worker, Step(w)
      PROVE  Money'
  <2>1. ASSUME NEW id \in CreditId, NEW i \in Invoice, BeginAdjust(w, id, i)
        PROVE  Money'
    BY <2>1, BeginAdjustMoney
  <2>2. ASSUME NEW id \in RefundId, NEW cr \in CreditId, BeginRefund(w, id, cr)
        PROVE  Money'
    BY <2>2, BeginRefundMoney
  <2>3. CASE CommitInvoice(w) \/ CommitAdjust(w) \/ CommitRefund(w)
    BY <2>3, CommitInvoiceMoney, CommitAdjustMoney, CommitRefundMoney
  <2>4. CASE \/ \E i \in Invoice : BeginSale(w, i) \/ BeginPatch(w, i) \/ BeginReturn(w, i)
             \/ ReadForSale(w) \/ LoadInventory(w) \/ GiveUp(w)
    BY <2>4, InvoiceRequests
  <2> QED BY <1>1, <2>1, <2>2, <2>3, <2>4 DEF Step
<1>2. ASSUME NEW i \in Invoice, ReplaceReceipt(i)
      PROVE  Money'
  BY <1>2, ReceiptMoney
<1>3. ASSUME UNCHANGED <<invoice, credit, refund, received, spent, clawedBack, call>>,
             calls' \in 0..MaxCalls
      PROVE  Money'
  <2>1. \A i : Credited(i)' = Credited(i)
    BY <1>3, TotalsKept
  <2>2. ReturnsCredited'
    BY <1>3, <2>1 DEF Money, ReturnsCredited, Returned
  <2>3. \A v \in Worker : CallPriced(call'[v])
    BY <1>3 DEF Money
  <2> QED BY <1>3, <2>2, <2>3, QuietMoney
<1>4. ASSUME NEW d \in Day, Acquire(d)
      PROVE  Money'
  <2>1. calls' \in 0..MaxCalls
    BY <1>4, BoundsAssumption DEF Acquire, Money, MoneyTyped
  <2> QED BY <1>3, <1>4, <2>1 DEF Acquire
<1>5. CASE UNCHANGED vars
  BY <1>3, <1>5 DEF vars, documents, ghosts, Money, MoneyTyped
<1> QED BY <1>1, <1>2, <1>4, <1>5 DEF Next

LEMMA MoneyHolds == Spec => [](IInv /\ Money)
<1>1. Init => IInv /\ Money
  BY InitInvariant, InitMoney
<1>2. IInv /\ Money /\ [Next]_vars => (IInv /\ Money)'
  <2>1. SUFFICES ASSUME IInv, Money, [Next]_vars PROVE IInv' /\ Money'
    OBVIOUS
  <2>2. IInv'
    BY <2>1, StepInvariant
  <2> QED BY <2>1, <2>2, StepMoney
<1> QED BY <1>1, <1>2, PTL DEF Spec

(* Whatever is in flight and whatever was committed in between, credits stay *)
(* within the invoice, refunds within their credit and - until a receipt is  *)
(* lowered under a refund - within the money received, and the SALE-BALANCE  *)
(* counters say what the documents say.                                      *)
THEOREM SaleMoneyKept == Spec => []MoneyWithinSale
<1>1. Money => MoneyWithinSale
  <2>1. SUFFICES ASSUME Money PROVE MoneyWithinSale
    OBVIOUS
  <2>2. ASSUME NEW i \in Invoice
        PROVE  /\ Credited(i) <= Total
               /\ Returned(i) => Credited(i) = Total
               /\ i \notin clawedBack => CashRefunded(i) <= received[i]
               /\ spent[<<"credit", i>>] \in {None, Credited(i)}
               /\ spent[<<"cash-refund", i>>] \in {None, CashRefunded(i)}
    BY <2>1 DEF Money, ReturnsCredited, SaleMoney, Counted
  <2>3. ASSUME NEW c \in CreditId, credit[c] # None
        PROVE  /\ Refunded(c) <= credit[c].amount
               /\ spent[<<"refund", c>>] \in {None, Refunded(c)}
    BY <2>1, <2>3 DEF Money, CreditMoney, Counted
  <2> QED BY <2>2, <2>3 DEF MoneyWithinSale
<1> QED BY <1>1, MoneyHolds, PTL

(* Every document, counter, lock and request in flight is well formed: what  *)
(* a request kept of the invoice and inventory it read is a metadata, a      *)
(* revision and a view they could have had.                                  *)
THEOREM SaleTypesHold == Spec => []TypeOK
<1>1. IInv /\ Money => TypeOK
  <2>1. SUFFICES ASSUME IInv, Money PROVE TypeOK
    OBVIOUS
  <2>2. ASSUME NEW w \in Worker
        PROVE  call[w] \in {Idle} \cup InvoiceCall \cup AdjustCall \cup RefundCall
    <3>1. CallPriced(call[w]) /\ (call[w].op \in InvoiceOps => call[w] \in InvoiceCall)
      BY <2>1 DEF IInv, CallKnown, Money
    <3> QED BY <3>1 DEF CallPriced, AdjustPriced, RefundPriced
  <2>3. call \in [Worker -> {Idle} \cup InvoiceCall \cup AdjustCall \cup RefundCall]
    <3>1. call = [w \in Worker |-> call[w]]
      BY <2>1 DEF IInv, Typed
    <3> QED BY <2>2, <3>1
  <2> QED BY <2>1, <2>3 DEF IInv, Typed, Money, MoneyTyped, TypeOK
<1> QED BY <1>1, MoneyHolds, PTL

=============================================================================
