--------------------------- MODULE PayableBalance ---------------------------
(***************************************************************************)
(* Settlement of payables: payments and credits against a Bill, or against *)
(* an Expense that is still owed.  Concurrent requests (several users,     *)
(* several API processes) read the table item by item and then commit one  *)
(* DynamoDB transaction that writes the document together with the Bill's  *)
(* balance item, the "guard" (IXIFinancialPayableBalanceControl.js), the   *)
(* revision checks and the idempotency item (IXIFinancialDynamoStore.js).  *)
(*                                                                          *)
(* One document is a Bill, a payment or anything else by its fields, and a *)
(* PATCH or PUT may change them: what the guard counts and what the        *)
(* documents say can then drift apart.  The auxiliary variable "loose"     *)
(* names the documents it has happened to; no action reads it.             *)
(*                                                                          *)
(* Amounts are in cents.  Documents older than the guard exist without one: *)
(* the first write on their Bill adopts the sums of the canonical records.  *)
(***************************************************************************)
EXTENDS Integers, CentSums

CONSTANTS Doc,           \* financial documents of one Entity, in one currency
          None,          \* "no sourceFinancialDocumentId"
          Worker,        \* requests that may be in flight together
          Key,           \* idempotency keys
          NoKey,         \* "no idempotency key"
          Shapes,        \* bound: what users make of each document
          Direct,        \* bound: documents also written past the command's checks
          MaxCents,      \* bound: largest amount of a document
          MaxRevision    \* bound: revisions of a document

(* bill: bills and supplier invoices; outflow, inflow: payments by their      *)
(* direction; other: documents that neither are payable nor settle.           *)
Kind == {"bill", "expense", "outflow", "inflow", "credit", "other"}
Settling == {"outflow", "credit"}
Method == {"none", "unpaid", "my-money", "company"}  \* company: cash or card
Owed == {"unpaid", "my-money"}

Link == Doc \cup {None}
Shape == [kind : Kind, link : Link, method : Method]

ASSUME DocumentsAssumption ==
    /\ IsFiniteSet(Doc) /\ None \notin Doc /\ NoKey \notin Key
    /\ Shapes \in [Doc -> SUBSET Shape] /\ Direct \subseteq Doc
ASSUME BoundsAssumption == MaxCents \in Nat /\ MaxRevision \in Nat \ {0}

VARIABLES document,      \* current documents (revision 0: none)
          guard,         \* PAYABLE_BALANCE item of each document (version 0: none)
          result,        \* idempotency items: key -> the write it stands for
          request,       \* what each in-flight request has read so far
          loose          \* auxiliary: documents whose settlements changed what they
                         \* settle, or were saved before there was anything to settle

vars == <<document, guard, result, request, loose>>

-----------------------------------------------------------------------------
Amount == 0..MaxCents

(* key: the idempotency key, if any, of the write that made this revision.   *)
Document == [revision : 0..MaxRevision, active : BOOLEAN, amount : Amount,
             kind : Kind, link : Link, method : Method, key : Key \cup {NoKey}]
Guard == [version : Nat, bill : Int, paid : Int, credit : Int]

NoDocument == [revision |-> 0, active |-> FALSE, amount |-> 0,
               kind |-> "other", link |-> None, method |-> "none", key |-> NoKey]
NoGuard == [version |-> 0, bill |-> 0, paid |-> 0, credit |-> 0]

(* at: the next read of the request, or the transaction.                     *)
Idle == [at |-> "idle"]
Request == [at : {"prior", "guard", "source", "list", "sums", "unguarded"},
            doc : Doc, new : BOOLEAN, prior : Document, next : Document,
            src : Document, guard : Guard,
            unread : SUBSET Doc, paid : Int, credit : Int]

-----------------------------------------------------------------------------
(* Void, reversed and cancelled documents count for nothing.                 *)
Cents(v) == IF v.active THEN v.amount ELSE 0

(* isPayableSource: every bill; an expense while it is owed.                 *)
PayableSource(v) ==
    v.revision > 0 /\ (v.kind = "bill" \/ (v.kind = "expense" /\ v.method \in Owed))

Settles(v, s) == v.kind \in Settling /\ v.link = s

IsBill(r) == PayableSource(r.next) \/ PayableSource(r.prior)
BillOf(r) == IF IsBill(r) THEN r.doc ELSE r.next.link

(* The counter is adopted from canonical records on the first write on an    *)
(* existing source without a guard.                                          *)
Adopts(r) == r.guard.version = 0 /\ ~(IsBill(r) /\ r.prior.revision = 0)

(* Line 40 asks for a payment of whichever direction.                        *)
Pays(v) == v.kind \in {"outflow", "inflow"}

Delta(r) == Cents(r.next) - Cents(r.prior)
NewPaid(r) == r.guard.paid + r.paid + (IF Pays(r.next) THEN Delta(r) ELSE 0)
NewCredit(r) == r.guard.credit + r.credit + (IF r.next.kind = "credit" THEN Delta(r) ELSE 0)
BillCents(r) == IF IsBill(r) THEN Cents(r.next) ELSE Cents(r.src)

(* The errors payableBalanceTransactionItems throws.                         *)
LinkMoved(r) == r.prior.link # None /\ r.prior.link # r.next.link

(* Mutant of MethodFrozen: the method may always change.                     *)
MethodNeverFrozen(r) == FALSE
MethodFrozen(r) ==
    r.next.kind = "expense" /\ IsBill(r) /\ NewPaid(r) > 0 /\ r.prior.method # r.next.method

(* Mutant of BalanceAllows: credits are compared only when one is written.   *)
BalanceChecksWrittenKind(r) ==
    /\ ~LinkMoved(r) /\ ~MethodFrozen(r)
    /\ NewPaid(r) >= 0 /\ NewCredit(r) >= 0
    /\ r.next.kind = "credit" => NewCredit(r) <= BillCents(r)
    /\ Pays(r.next) /\ Delta(r) > 0 => NewPaid(r) + NewCredit(r) <= BillCents(r)
BalanceAllows(r) ==
    /\ ~LinkMoved(r) /\ ~MethodFrozen(r)
    /\ NewPaid(r) >= 0 /\ NewCredit(r) >= 0
    /\ NewCredit(r) <= BillCents(r)
    /\ Pays(r.next) /\ Delta(r) > 0 => NewPaid(r) + NewCredit(r) <= BillCents(r)

-----------------------------------------------------------------------------
(* What the current documents add up to: the cents of kind k settling s.     *)
Counts(v, s, k) == IF v.kind = k /\ v.link = s THEN Cents(v) ELSE 0
Counted(s, k) == [d \in Doc |-> Counts(document[d], s, k)]

(* assertPayablesSettlementAvailable, before any of the reads the            *)
(* transaction is built from.  Payments of a settlement and credits of an    *)
(* invoice, both "other" here, are outside it.                               *)
Others(d, s, k) == SumCents(Counted(s, k), Doc \ {d})
Available(d, v) ==
    v.kind \in Settling /\ v.link # None =>
        LET source == document[v.link] IN
        /\ source.revision > 0
        /\ \/ source.kind = "other"
           \/ /\ PayableSource(source) /\ source.active
              /\ v.amount + Others(d, v.link, "credit")
                    + (IF v.kind = "outflow" THEN Others(d, v.link, "outflow") ELSE 0)
                    <= source.amount

(* What PATCH asks of the document as the route has read it: a credit keeps  *)
(* its link, a payment its kind and link, and only an outgoing payment of a  *)
(* payable source is patched at all.                                         *)
PatchAllowed(d, v) ==
    LET p == document[d] IN
    /\ v.kind = "credit" => v.link = p.link /\ Available(d, v)
    /\ Pays(p) =>
          /\ p.kind = "outflow" /\ p.link # None
          /\ v.kind = p.kind /\ v.link = p.link
          /\ PayableSource(document[p.link])
          /\ v.active => Available(d, v)

-----------------------------------------------------------------------------
(* Requests begin.                                                           *)

(* A key that already has a result is answered from it and does not begin.   *)
UsableKey == {NoKey} \cup (Key \ DOMAIN result)

(* The document a request asks for; its revision is set when the current one *)
(* has been read.                                                            *)
Wanted(shape, n, a, k) ==
    [revision |-> 1, active |-> a, amount |-> n,
     kind |-> shape.kind, link |-> shape.link, method |-> shape.method, key |-> k]

Begin(w, d, new, v) ==
    /\ request[w] = Idle
    /\ document[d].revision < MaxRevision /\ (new <=> document[d].revision = 0)
    /\ request' = [request EXCEPT ![w] =
                      [at |-> "prior", doc |-> d, new |-> new,
                       prior |-> NoDocument, next |-> v,
                       src |-> NoDocument, guard |-> NoGuard,
                       unread |-> {}, paid |-> 0, credit |-> 0]]
    /\ UNCHANGED <<document, guard, result, loose>>

(* A document saved by a command.                                            *)
Command(w, d) ==
    \E shape \in Shapes[d], n \in 1..MaxCents, k \in UsableKey :
       LET v == Wanted(shape, n, TRUE, k) IN
       Available(d, v) /\ Begin(w, d, TRUE, v)

(* POST: any document, without the command's check.  One that is saved void   *)
(* counts for nothing, like one that a PUT makes void.                        *)
Post(w, d) ==
    /\ d \in Direct
    /\ \E shape \in Shapes[d], n \in 1..MaxCents, k \in UsableKey :
          Begin(w, d, TRUE, Wanted(shape, n, TRUE, k))

(* A correction or void: another amount, state, way of payment or -- as far  *)
(* as PATCH lets it -- kind and link.  What a PATCH leaves out is taken from *)
(* another read of the service: a document that a PUT may have changed in    *)
(* between is in Direct, and Put asks for the same.                          *)
Patch(w, d) ==
    \E shape \in Shapes[d], n \in 1..MaxCents, a \in BOOLEAN, k \in UsableKey :
       LET v == Wanted(shape, n, a, k) IN
       /\ ~a => n = document[d].amount
       /\ PatchAllowed(d, v)
       /\ Begin(w, d, FALSE, v)

(* PUT: any document in its place, without any of PATCH's checks.            *)
Put(w, d) ==
    /\ d \in Direct
    /\ \E shape \in Shapes[d], n \in 1..MaxCents, a \in BOOLEAN, k \in UsableKey :
          /\ ~a => n = document[d].amount
          /\ Begin(w, d, FALSE, Wanted(shape, n, a, k))

-----------------------------------------------------------------------------
(* The reads, each a strongly consistent request to DynamoDB.                *)

Proceed(w, r) ==
    /\ request' = [request EXCEPT ![w] = r]
    /\ UNCHANGED <<document, guard, result, loose>>

(* The adapter reads the document, after the checks of command and route: a  *)
(* new one must not exist, another is replaced by its next revision.  Only a *)
(* payable source, and a credit or outgoing payment that is linked, have a   *)
(* balance to look at.                                                       *)
ReadPrior(w) ==
    /\ request[w].at = "prior"
    /\ LET q == request[w]
           p == document[q.doc]
           r == [q EXCEPT !.prior = p, !.next = [q.next EXCEPT !.revision = p.revision + 1]] IN
       /\ q.new <=> p.revision = 0
       /\ p.revision < MaxRevision
       /\ q.next.key \notin DOMAIN result
       /\ Proceed(w,
             [r EXCEPT !.at = IF IsBill(r) \/ (r.next.kind \in Settling /\ r.next.link # None)
                              THEN "guard" ELSE "unguarded"])

(* With a guard, or for a new source, there is nothing to add up.            *)
AfterReads(r) == [r EXCEPT !.at = IF Adopts(r) THEN "list" ELSE "sums"]

ReadGuard(w) ==
    /\ request[w].at = "guard"
    /\ LET r == [request[w] EXCEPT !.guard = guard[BillOf(request[w])]] IN
       Proceed(w, IF IsBill(r) THEN AfterReads(r) ELSE [r EXCEPT !.at = "source"])

(* What a settlement is linked to.  If that is not a payable source (any     *)
(* more, or yet) the transaction gets no balance items.                      *)
ReadSource(w) ==
    /\ request[w].at = "source"
    /\ LET r == [request[w] EXCEPT !.src = document[request[w].next.link]] IN
       Proceed(w, IF PayableSource(r.src) THEN AfterReads(r)
                  ELSE [r EXCEPT !.at = "unguarded"])

(* Adoption: the Entity's documents are listed, then their canonical records *)
(* are read one by one, in any order.                                        *)
ListDocuments(w) ==
    /\ request[w].at = "list"
    /\ Proceed(w, [request[w] EXCEPT !.at = "sums",
                                     !.unread = {d \in Doc : document[d].revision > 0}])

ReadDocument(w, d) ==
    /\ request[w].at = "sums" /\ d \in request[w].unread
    /\ LET s == BillOf(request[w]) IN
       Proceed(w, [request[w] EXCEPT
                     !.unread = @ \ {d},
                     !.paid = @ + Counts(document[d], s, "outflow"),
                     !.credit = @ + Counts(document[d], s, "credit")])

-----------------------------------------------------------------------------
(* The transaction.                                                          *)

(* Mutant of DocumentCondition: no attribute_not_exists on the key's item.   *)
DocumentConditionIgnoresKey(r) == document[r.doc].revision = r.prior.revision

(* The document itself: created only if absent, replaced only at the         *)
(* revision it was read at; its idempotency item must not exist.             *)
DocumentCondition(r) ==
    /\ document[r.doc].revision = r.prior.revision
    /\ r.next.key \notin DOMAIN result

(* Mutant of WriteResult: an empty key is recorded like any other.           *)
WriteResultOfEmptyKey(r) ==
    result' = [k \in DOMAIN result \cup {r.next.key} |->
                  IF k = r.next.key THEN [doc |-> r.doc, revision |-> r.next.revision]
                  ELSE result[k]]

WriteResult(r) ==
    IF r.next.key = NoKey THEN UNCHANGED result
    ELSE result' = [k \in DOMAIN result \cup {r.next.key} |->
                       IF k = r.next.key THEN [doc |-> r.doc, revision |-> r.next.revision]
                       ELSE result[k]]

(* The documents whose settlements the write leaves out of step with a guard:*)
(* a settlement changes its kind or link, or what is settled its kind (PUT,  *)
(* and PATCH of what was no payment); a settlement of nothing is saved.      *)
Relabelled(r) ==
    {s \in Doc :
       /\ r.prior.revision > 0
       /\ \/ s = r.doc /\ r.prior.kind # r.next.kind
          \/ /\ Settles(r.prior, s) \/ Settles(r.next, s)
             /\ <<r.prior.kind, r.prior.link>> # <<r.next.kind, r.next.link>>}
Premature(r) == {s \in Doc : Settles(r.next, s) /\ r.src.revision = 0}

WriteDocument(r) ==
    /\ document' = [document EXCEPT ![r.doc] = r.next]
    /\ loose' = loose \cup Relabelled(r) \cup Premature(r)
    /\ WriteResult(r)

(* Mutants of GuardCondition: none; none when the guard is adopted.          *)
GuardUnconditional(r) == TRUE
GuardConditionUnlessAdopting(r) ==
    r.guard.version > 0 => guard[BillOf(r)].version = r.guard.version

(* The guard unchanged since it was read, and for a settlement its Bill too. *)
GuardCondition(r) == guard[BillOf(r)].version = r.guard.version
SourceCondition(r) == ~IsBill(r) => document[BillOf(r)].revision = r.src.revision

WriteGuard(r) ==
    guard' = [guard EXCEPT ![BillOf(r)] =
                 [version |-> r.guard.version + 1, bill |-> BillCents(r),
                  paid |-> NewPaid(r), credit |-> NewCredit(r)]]

CommitGuarded(w) ==
    LET r == request[w] IN
    /\ r.at = "sums" /\ r.unread = {}
    /\ BalanceAllows(r)
    /\ GuardCondition(r) /\ SourceCondition(r) /\ DocumentCondition(r)
    /\ WriteGuard(r) /\ WriteDocument(r)
    /\ request' = [request EXCEPT ![w] = Idle]

CommitUnguarded(w) ==
    LET r == request[w] IN
    /\ r.at = "unguarded"
    /\ DocumentCondition(r)
    /\ WriteDocument(r)
    /\ request' = [request EXCEPT ![w] = Idle]
    /\ UNCHANGED guard

(* The balance refuses the write, a condition of the transaction fails, a    *)
(* read fails or the process dies: the request ends and nothing is written.  *)
Abandon(w) ==
    /\ request[w] # Idle
    /\ Proceed(w, Idle)

-----------------------------------------------------------------------------
(* Documents that predate the guard may exist, none settling what does not.  *)
Legacy(shape) == {Wanted(shape, n, TRUE, NoKey) : n \in 1..MaxCents}
OldShapes(d) == {shape \in Shapes[d] : shape.method \in {"none", "unpaid"}}
LegacyDocument == UNION {Legacy(shape) : shape \in UNION {OldShapes(d) : d \in Doc}}

Init ==
    /\ document \in [Doc -> {NoDocument} \cup LegacyDocument]
    /\ \A d \in Doc :
          document[d] # NoDocument => \E shape \in OldShapes(d) : document[d] \in Legacy(shape)
    /\ \A d, s \in Doc : Settles(document[d], s) => document[s].revision > 0
    /\ guard = [s \in Doc |-> NoGuard]
    /\ result = [k \in {} |-> NoKey]
    /\ request = [w \in Worker |-> Idle]
    /\ loose = {}

Step(w) ==
    \/ \E d \in Doc : Command(w, d) \/ Post(w, d) \/ Patch(w, d) \/ Put(w, d)
    \/ ReadPrior(w) \/ ReadGuard(w) \/ ReadSource(w) \/ ListDocuments(w)
    \/ \E d \in Doc : ReadDocument(w, d)
    \/ CommitGuarded(w) \/ CommitUnguarded(w) \/ Abandon(w)

Next == \E w \in Worker : Step(w)

Spec == Init /\ [][Next]_vars

-----------------------------------------------------------------------------
(* Documents, guards, idempotency items and requests are well formed.        *)
TypeOK ==
    /\ document \in [Doc -> Document]
    /\ guard \in [Doc -> Guard]
    /\ DOMAIN result \subseteq Key
    /\ result \in [DOMAIN result -> [doc : Doc, revision : 1..MaxRevision]]
    /\ request \in [Worker -> {Idle} \cup Request]
    /\ loose \subseteq Doc

Settled(s, k) == SumCents(Counted(s, k), Doc)

(* Once a Bill has a guard, the guard says exactly what the canonical        *)
(* documents say -- also after an adoption that read them one by one while   *)
(* other requests were committing.  Not for a Bill that a document was       *)
(* relabelled from or to, or that was settled before it existed.             *)
GuardExact ==
    \A s \in Doc \ loose : document[s].kind = "bill" /\ guard[s].version > 0 =>
        /\ guard[s].bill = Cents(document[s])
        /\ guard[s].paid = Settled(s, "outflow")
        /\ guard[s].credit = Settled(s, "credit")

(* Credits never exceed the Bill they correct, whatever is amended or voided *)
(* around them, while the settlements of the Bill keep what they settle.     *)
CreditsWithinBill ==
    \A s \in Doc \ loose : document[s].kind = "bill" /\ guard[s].version > 0 =>
        Settled(s, "credit") <= Cents(document[s])

(* Two users cannot both spend the same remaining balance: a step that raises *)
(* what was paid on a Bill leaves it no more than fully settled, as long as   *)
(* its settlements keep what they settle.                                     *)
NoOverpayment ==
    [][\A s \in Doc \ loose' :
         document'[s].kind = "bill" /\ Settled(s, "outflow")' > Settled(s, "outflow") =>
            Settled(s, "outflow")' + Settled(s, "credit")' <= Cents(document'[s])]_vars

(* A retried command has no second effect: a revision written under a key is *)
(* the one write the key's idempotency item stands for, so no two documents  *)
(* and no two revisions come of one key.                                     *)
OneWritePerKey ==
    \A d \in Doc : document[d].key # NoKey =>
        /\ document[d].key \in DOMAIN result
        /\ result[document[d].key] = [doc |-> d, revision |-> document[d].revision]

(* An Expense whose guard shows saved payments keeps the way it was paid: it  *)
(* does not go from one owed way to another, nor become or cease to be owed.  *)
MethodKeptOncePaid ==
    [][\A s \in Doc :
         /\ guard[s].version > 0 /\ guard[s].paid > 0
         /\ document[s].kind = "expense" /\ document'[s].kind = "expense"
         /\ document[s].method \in Owed \/ document'[s].method \in Owed
         => document'[s].method = document[s].method]_vars

(* "paid Expense cannot change payment-at-entry method and generate duplicate *)
(* cash" (financial/IXIFinancialExpensePayments.test.js): an Expense that     *)
(* company money paid at entry carries no payment document as well.           *)
NoDuplicateCash ==
    \A s \in Doc :
        /\ document[s].kind = "expense" /\ document[s].revision > 0
        /\ document[s].active /\ document[s].method = "company"
        => Settled(s, "outflow") = 0
=============================================================================
