----------------------- MODULE PayableBalance_proofs -----------------------
(***************************************************************************)
(* Proofs about PayableBalance, for any documents and whatever users make   *)
(* of them, any keys, amounts and number of concurrent requests.  The       *)
(* inductive invariant says of every request in flight what it knows: the   *)
(* document, the guard and the source it read are the present ones if their *)
(* revision or version is.  On it rests a second one, the books: what       *)
(* guards, documents and the totals a request has added up say of each      *)
(* other where no document is loose.                                        *)
(***************************************************************************)
EXTENDS PayableBalance, CentSums_proofs, TLAPS

----------------------------------------------------------------------------
(* What is known of a request from where it stands.                          *)
PriorKnown(r) ==
    /\ r.prior.revision <= document[r.doc].revision
    /\ r.prior.revision = document[r.doc].revision => r.prior = document[r.doc]
    /\ r.prior.revision = 0 => r.prior = NoDocument
    /\ r.next.revision = r.prior.revision + 1

GuardKnown(r) ==
    /\ r.guard.version <= guard[BillOf(r)].version
    /\ r.guard.version = guard[BillOf(r)].version => r.guard = guard[BillOf(r)]

SourceKnown(r) ==
    /\ PayableSource(r.src)
    /\ r.src.revision <= document[r.next.link].revision
    /\ r.src.revision = document[r.next.link].revision => r.src = document[r.next.link]

IsLinked(v) == v.kind \in Settling /\ v.link # None

(* A settlement that found nothing payable: nothing is there, or what is     *)
(* there was no Bill -- and if it is one now, it changed its kind.           *)
SettlesNoBill(r) ==
    IsLinked(r.next) =>
       /\ ~PayableSource(r.src)
       /\ r.src.revision <= document[r.next.link].revision
       /\ r.src.revision > 0 => r.next.link \in loose \/ document[r.next.link].kind # "bill"

NothingAdded(r) == r.unread = {} /\ r.paid = 0 /\ r.credit = 0

Sound(r) ==
    /\ r.next.revision > 0
    /\ r.at # "prior" => PriorKnown(r)
    /\ r.at \in {"guard", "source", "list", "sums"} => IsBill(r) \/ IsLinked(r.next)
    /\ r.at \in {"source", "list", "sums"} => GuardKnown(r)
    /\ r.at = "source" => ~IsBill(r)
    /\ r.at \in {"list", "sums"} /\ ~IsBill(r) => SourceKnown(r)
    /\ r.at \in {"prior", "guard", "source", "list"} => NothingAdded(r)
    /\ r.at = "list" => Adopts(r)
    /\ r.at = "sums" /\ ~Adopts(r) => NothingAdded(r)
    /\ r.at = "unguarded" => ~IsBill(r) /\ SettlesNoBill(r)

DocumentsSound == \A d \in Doc : document[d].revision = 0 => document[d] = NoDocument

GuardsSound ==
    \A s \in Doc : /\ guard[s].version = 0 => guard[s] = NoGuard
                   /\ guard[s].version > 0 => document[s].revision > 0
                   /\ guard[s].credit <= guard[s].bill

IInv == /\ TypeOK /\ OneWritePerKey /\ DocumentsSound /\ GuardsSound
        /\ \A w \in Worker : request[w] # Idle => Sound(request[w])

----------------------------------------------------------------------------
LEMMA RequestNotIdle == \A r \in Request : r # Idle /\ r.at # "idle"
<1> SUFFICES ASSUME NEW r \in Request PROVE r # Idle /\ r.at # "idle"
  OBVIOUS
<1>1. r.at \in {"prior", "guard", "source", "list", "sums", "unguarded"}
  BY DEF Request
<1>2. Idle.at = "idle"
  BY DEF Idle
<1> QED BY <1>1, <1>2

LEMMA Blank == NoDocument \in Document /\ NoGuard \in Guard /\ NoDocument.revision = 0
  BY BoundsAssumption DEF NoDocument, NoGuard, Document, Guard, Amount, Kind, Link, Method

LEMMA DocumentTyped ==
  ASSUME NEW v \in Document
  PROVE  /\ v.revision \in Nat /\ v.revision <= MaxRevision /\ v.active \in BOOLEAN
         /\ v.amount \in Nat /\ v.amount <= MaxCents
         /\ v.kind \in Kind /\ v.link \in Doc \cup {None} /\ v.method \in Method
         /\ v.key \in Key \cup {NoKey} /\ Cents(v) \in Nat
<1>1. /\ v.revision \in 0..MaxRevision /\ v.active \in BOOLEAN /\ v.amount \in 0..MaxCents
      /\ v.kind \in Kind /\ v.link \in Link /\ v.method \in Method
      /\ v.key \in Key \cup {NoKey}
  BY DEF Document, Amount
<1> QED BY <1>1, BoundsAssumption DEF Cents, Link

LEMMA RequestTyped ==
  ASSUME NEW r \in Request
  PROVE  /\ r.at \in {"prior", "guard", "source", "list", "sums", "unguarded"}
         /\ r.doc \in Doc /\ r.prior \in Document /\ r.next \in Document
         /\ r.src \in Document /\ r.guard \in Guard
         /\ r.unread \in SUBSET Doc /\ r.paid \in Int /\ r.credit \in Int
         /\ r.prior.revision \in Nat /\ r.next.revision \in Nat /\ r.src.revision \in Nat
         /\ r.guard.version \in Nat
         /\ IsBill(r) \/ IsLinked(r.next) => BillOf(r) \in Doc
<1>1. /\ r.at \in {"prior", "guard", "source", "list", "sums", "unguarded"}
      /\ r.doc \in Doc /\ r.prior \in Document /\ r.next \in Document
      /\ r.src \in Document /\ r.guard \in Guard
      /\ r.unread \in SUBSET Doc /\ r.paid \in Int /\ r.credit \in Int
  BY DEF Request
<1>2. /\ r.prior.revision \in Nat /\ r.next.revision \in Nat /\ r.src.revision \in Nat
      /\ r.next.link \in Doc \cup {None}
  BY <1>1, DocumentTyped
<1>3. r.guard.version \in Nat
  BY <1>1 DEF Guard
<1>4. IsBill(r) \/ IsLinked(r.next) => BillOf(r) \in Doc
  BY <1>1, <1>2 DEF BillOf, IsLinked
<1> QED BY <1>1, <1>2, <1>3, <1>4

LEMMA InFlight ==
  ASSUME IInv, NEW w \in Worker, NEW p, p = request[w], p # Idle
  PROVE  p \in Request /\ Sound(p)
  BY DEF IInv, TypeOK

----------------------------------------------------------------------------
(* What every step leaves: revisions and versions grow, and what changes its *)
(* kind is loose.                                                            *)
DocumentsGrow ==
    \A d \in Doc : document'[d] = document[d] \/ document'[d].revision > document[d].revision
GuardsGrow == \A s \in Doc : guard'[s] = guard[s] \/ guard'[s].version > guard[s].version
KindsNoted ==
    /\ loose \subseteq loose'
    /\ \A s \in Doc : document[s].revision > 0 /\ document'[s].kind # document[s].kind
                         => s \in loose'

(* Then what a request knows stays so.                                       *)
LEMMA SoundKept ==
  ASSUME TypeOK, document' \in [Doc -> Document], guard' \in [Doc -> Guard],
         DocumentsGrow, GuardsGrow, KindsNoted,
         NEW r \in Request, Sound(r)
  PROVE  Sound(r)'
<1>0. /\ r.doc \in Doc /\ r.prior.revision \in Nat /\ r.src.revision \in Nat
      /\ r.next.link \in Doc \cup {None} /\ r.guard.version \in Nat
      /\ IsBill(r) \/ IsLinked(r.next) => BillOf(r) \in Doc
  BY RequestTyped, DocumentTyped
<1>1. \A d \in Doc : document[d].revision \in Nat /\ document'[d].revision \in Nat
  BY DocumentTyped DEF TypeOK
<1>2. \A s \in Doc : guard[s].version \in Nat /\ guard'[s].version \in Nat
  BY DEF TypeOK, Guard
<1>3. /\ IsBill(r)' = IsBill(r) /\ IsLinked(r.next)' = IsLinked(r.next)
      /\ BillOf(r)' = BillOf(r) /\ Adopts(r)' = Adopts(r)
      /\ PayableSource(r.src)' = PayableSource(r.src) /\ NothingAdded(r)' = NothingAdded(r)
  BY DEF IsBill, IsLinked, BillOf, Adopts, PayableSource, NothingAdded
<1>4. PriorKnown(r) => PriorKnown(r)'
  BY <1>0, <1>1 DEF PriorKnown, DocumentsGrow, NoDocument
<1>5. (IsBill(r) \/ IsLinked(r.next)) /\ GuardKnown(r) => GuardKnown(r)'
  BY <1>0, <1>2, <1>3 DEF GuardKnown, GuardsGrow
<1>6. IsLinked(r.next) /\ SourceKnown(r) => SourceKnown(r)'
  BY <1>0, <1>1, <1>3 DEF SourceKnown, DocumentsGrow, IsLinked
<1>7. SettlesNoBill(r) => SettlesNoBill(r)'
  <2> SUFFICES ASSUME SettlesNoBill(r), IsLinked(r.next) PROVE SettlesNoBill(r)'
    BY <1>3 DEF SettlesNoBill
  <2>1. PICK l \in Doc : l = r.next.link
    BY <1>0 DEF IsLinked
  <2>2. /\ ~PayableSource(r.src) /\ r.src.revision <= document[l].revision
        /\ r.src.revision > 0 => l \in loose \/ document[l].kind # "bill"
    BY <2>1 DEF SettlesNoBill
  <2>3. r.src.revision <= document'[l].revision
    BY <1>0, <1>1, <2>1, <2>2 DEF DocumentsGrow
  <2>4. r.src.revision > 0 => l \in loose' \/ document'[l].kind # "bill"
    BY <1>0, <1>1, <2>1, <2>2 DEF KindsNoted
  <2> QED BY <1>3, <2>1, <2>2, <2>3, <2>4 DEF SettlesNoBill
<1> QED BY <1>3, <1>4, <1>5, <1>6, <1>7 DEF Sound

----------------------------------------------------------------------------
(* A request moves on, or ends, and nothing is written.                      *)
LEMMA ProceedKeeps ==
  ASSUME IInv, NEW w \in Worker, NEW q, q \in Request \/ q = Idle,
         q \in Request => Sound(q), Proceed(w, q)
  PROVE  IInv'
<1>1. /\ request' = [request EXCEPT ![w] = q]
      /\ UNCHANGED <<document, guard, result, loose>>
  BY DEF Proceed
<1>2. TypeOK'
  BY <1>1 DEF IInv, TypeOK
<1>3. OneWritePerKey' /\ DocumentsSound' /\ GuardsSound'
  BY <1>1 DEF IInv, OneWritePerKey, DocumentsSound, GuardsSound
<1>4. DocumentsGrow /\ GuardsGrow /\ KindsNoted
  BY <1>1 DEF DocumentsGrow, GuardsGrow, KindsNoted
<1>5. ASSUME NEW v \in Worker, request'[v] # Idle PROVE Sound(request[v])'
  <2>1. PICK p : p = request'[v]
    OBVIOUS
  <2>2. request'[v] = IF v = w THEN q ELSE request[v]
    BY <1>1 DEF IInv, TypeOK
  <2>3. p \in Request /\ Sound(p)
    BY <1>5, <2>1, <2>2 DEF IInv, TypeOK
  <2>4. TypeOK /\ document' \in [Doc -> Document] /\ guard' \in [Doc -> Guard]
    BY <1>2 DEF IInv, TypeOK
  <2>5. Sound(p)'
    BY <1>4, <2>3, <2>4, SoundKept
  <2> QED BY <2>1, <2>5
<1>6. \A v \in Worker : (request[v] # Idle)' => Sound(request[v])'
  BY <1>5 DEF Idle
<1> QED BY <1>2, <1>3, <1>6 DEF IInv, Idle

LEMMA AbandonKeeps ==
  ASSUME IInv, NEW w \in Worker, Abandon(w)
  PROVE  IInv'
  BY ProceedKeeps, RequestNotIdle DEF Abandon

LEMMA BeginKeeps ==
  ASSUME IInv, NEW w \in Worker, NEW d \in Doc, NEW new \in BOOLEAN, NEW v \in Document,
         v.revision > 0, Begin(w, d, new, v)
  PROVE  IInv'
<1> DEFINE q == [at |-> "prior", doc |-> d, new |-> new,
                 prior |-> NoDocument, next |-> v,
                 src |-> NoDocument, guard |-> NoGuard,
                 unread |-> {}, paid |-> 0, credit |-> 0]
<1>1. Proceed(w, q)
  BY DEF Begin, Proceed
<1>2. q \in Request
  BY Blank DEF Request
<1>3. q.at = "prior" /\ q.next = v /\ NothingAdded(q)
  BY DEF NothingAdded
<1> HIDE DEF q
<1>4. Sound(q)
  BY <1>3 DEF Sound
<1> QED BY <1>1, <1>2, <1>4, ProceedKeeps

LEMMA WantedTyped ==
  ASSUME NEW d \in Doc, NEW shape \in Shapes[d], NEW n \in Amount, NEW a \in BOOLEAN,
         NEW k \in Key \cup {NoKey}
  PROVE  Wanted(shape, n, a, k) \in Document /\ Wanted(shape, n, a, k).revision = 1
<1>1. shape \in Shape
  BY DocumentsAssumption
<1> QED BY <1>1, BoundsAssumption DEF Wanted, Document, Shape

LEMMA CommandKeeps ==
  ASSUME IInv, NEW w \in Worker, NEW d \in Doc,
         Command(w, d) \/ Post(w, d) \/ Patch(w, d) \/ Put(w, d)
  PROVE  IInv'
<1>1. PICK shape \in Shapes[d], n \in 1..MaxCents, a \in BOOLEAN, k \in UsableKey,
           new \in BOOLEAN : Begin(w, d, new, Wanted(shape, n, a, k))
  BY DEF Command, Post, Patch, Put
<1>2. n \in Amount /\ k \in Key \cup {NoKey}
  BY BoundsAssumption DEF Amount, UsableKey
<1>3. PICK v : v = Wanted(shape, n, a, k)
  OBVIOUS
<1>4. v \in Document /\ v.revision = 1
  BY <1>2, <1>3, WantedTyped
<1> QED BY <1>1, <1>3, <1>4, BeginKeeps

----------------------------------------------------------------------------
(* The reads.  What each makes of a request, for this and later use.         *)
LEMMA ReadPriorMakes ==
  ASSUME IInv, NEW w \in Worker, ReadPrior(w)
  PROVE  \E q \in Request : /\ Proceed(w, q) /\ Sound(q) /\ q.at \in {"guard", "unguarded"}
<1>1. PICK p : p = request[w]
  OBVIOUS
<1>2. p.at = "prior"
  BY <1>1 DEF ReadPrior
<1>3. p \in Request /\ Sound(p)
  BY <1>1, <1>2, InFlight DEF Idle
<1>4. PICK c : c = document[p.doc]
  OBVIOUS
<1>5. c \in Document /\ p.doc \in Doc /\ p.next \in Document
  BY <1>3, <1>4, RequestTyped DEF IInv, TypeOK
<1>6. c.revision \in Nat /\ c.revision < MaxRevision
  BY <1>1, <1>4, <1>5, DocumentTyped DEF ReadPrior
<1>7. PICK n : n = [p.next EXCEPT !.revision = c.revision + 1]
  OBVIOUS
<1>8. n \in Document /\ n.revision = c.revision + 1
  BY <1>5, <1>6, <1>7, BoundsAssumption DEF Document
<1>9. PICK r : r = [p EXCEPT !.prior = c, !.next = n]
  OBVIOUS
<1>10. /\ r \in Request /\ r.prior = c /\ r.next = n /\ r.doc = p.doc
       /\ r.unread = p.unread /\ r.paid = p.paid /\ r.credit = p.credit /\ r.src = p.src
  BY <1>3, <1>5, <1>8, <1>9 DEF Request
<1>11. PICK at \in {"guard", "unguarded"} :
          at = IF IsBill(r) \/ (r.next.kind \in Settling /\ r.next.link # None)
               THEN "guard" ELSE "unguarded"
  OBVIOUS
<1>12. PICK q : q = [r EXCEPT !.at = at]
  OBVIOUS
<1>13. Proceed(w, q)
  BY <1>1, <1>4, <1>7, <1>9, <1>11, <1>12 DEF ReadPrior
<1>14. /\ q \in Request /\ q.at = at /\ q.prior = c /\ q.next = n /\ q.doc = p.doc
       /\ q.unread = p.unread /\ q.paid = p.paid /\ q.credit = p.credit
  BY <1>10, <1>12 DEF Request
<1>15. IsBill(q) = IsBill(r) /\ IsLinked(q.next) = IsLinked(r.next)
  BY <1>10, <1>14 DEF IsBill
<1>16. at = IF IsBill(q) \/ IsLinked(q.next) THEN "guard" ELSE "unguarded"
  BY <1>11, <1>15 DEF IsLinked
<1>17. PriorKnown(q)
  BY <1>4, <1>5, <1>6, <1>8, <1>14 DEF PriorKnown, IInv, DocumentsSound
<1>18. NothingAdded(q) /\ q.next.revision > 0
  BY <1>2, <1>3, <1>6, <1>8, <1>14 DEF NothingAdded, Sound
<1>19. Sound(q)
  BY <1>14, <1>16, <1>17, <1>18 DEF Sound, SettlesNoBill
<1> QED BY <1>13, <1>14, <1>19

(* A guard has been read and what is known of the source allows to go on.    *)
LEMMA AfterReadsSound ==
  ASSUME NEW r \in Request, PriorKnown(r), GuardKnown(r), NothingAdded(r), r.next.revision > 0,
         IsBill(r) \/ (IsLinked(r.next) /\ SourceKnown(r))
  PROVE  /\ AfterReads(r) \in Request /\ Sound(AfterReads(r))
         /\ AfterReads(r).at = IF Adopts(r) THEN "list" ELSE "sums"
         /\ NothingAdded(AfterReads(r)) /\ Adopts(AfterReads(r)) = Adopts(r)
<1>1. PICK at \in {"list", "sums"} : at = IF Adopts(r) THEN "list" ELSE "sums"
  OBVIOUS
<1>2. PICK q : q = [r EXCEPT !.at = at]
  OBVIOUS
<1>3. q = AfterReads(r)
  BY <1>1, <1>2 DEF AfterReads
<1>4. /\ q \in Request /\ q.at = at /\ q.prior = r.prior /\ q.next = r.next /\ q.doc = r.doc
      /\ q.unread = r.unread /\ q.paid = r.paid /\ q.credit = r.credit
      /\ q.src = r.src /\ q.guard = r.guard
  BY <1>2 DEF Request
<1>5. /\ IsBill(q) = IsBill(r) /\ IsLinked(q.next) = IsLinked(r.next) /\ BillOf(q) = BillOf(r)
      /\ Adopts(q) = Adopts(r) /\ NothingAdded(q) = NothingAdded(r)
      /\ PriorKnown(q) = PriorKnown(r) /\ GuardKnown(q) = GuardKnown(r)
      /\ SourceKnown(q) = SourceKnown(r)
  BY <1>4 DEF IsBill, BillOf, Adopts, NothingAdded, PriorKnown, GuardKnown, SourceKnown
<1>6. Sound(q)
  BY <1>1, <1>4, <1>5 DEF Sound
<1> QED BY <1>1, <1>3, <1>4, <1>5, <1>6

LEMMA ReadGuardMakes ==
  ASSUME IInv, NEW w \in Worker, ReadGuard(w)
  PROVE  \E q \in Request : /\ Proceed(w, q) /\ Sound(q) /\ q.at \in {"source", "list", "sums"}
                            /\ NothingAdded(q) /\ (q.at = "sums" => ~Adopts(q))
<1>1. PICK p : p = request[w]
  OBVIOUS
<1>2. p.at = "guard"
  BY <1>1 DEF ReadGuard
<1>3. p \in Request /\ Sound(p)
  BY <1>1, <1>2, InFlight DEF Idle
<1>4. /\ PriorKnown(p) /\ NothingAdded(p) /\ p.next.revision > 0
      /\ IsBill(p) \/ IsLinked(p.next)
  BY <1>2, <1>3 DEF Sound
<1>5. PICK g : g = guard[BillOf(p)]
  OBVIOUS
<1>6. g \in Guard /\ g.version \in Nat
  BY <1>3, <1>4, <1>5, RequestTyped DEF IInv, TypeOK, Guard
<1>7. PICK r : r = [p EXCEPT !.guard = g]
  OBVIOUS
<1>8. /\ r \in Request /\ r.guard = g /\ r.prior = p.prior /\ r.next = p.next /\ r.doc = p.doc
      /\ r.unread = p.unread /\ r.paid = p.paid /\ r.credit = p.credit
  BY <1>3, <1>6, <1>7 DEF Request
<1>9. /\ IsBill(r) = IsBill(p) /\ BillOf(r) = BillOf(p)
      /\ PriorKnown(r) /\ NothingAdded(r) /\ GuardKnown(r) /\ r.next.revision > 0
      /\ IsBill(r) \/ IsLinked(r.next)
  BY <1>4, <1>5, <1>6, <1>8 DEF IsBill, BillOf, PriorKnown, NothingAdded, GuardKnown
<1>10. Proceed(w, IF IsBill(r) THEN AfterReads(r) ELSE [r EXCEPT !.at = "source"])
  BY <1>1, <1>5, <1>7 DEF ReadGuard
<1>11. CASE IsBill(r)
  <2>1. PICK q : q = AfterReads(r)
    OBVIOUS
  <2>2. /\ q \in Request /\ Sound(q) /\ q.at = IF Adopts(r) THEN "list" ELSE "sums"
        /\ NothingAdded(q) /\ Adopts(q) = Adopts(r)
    BY <1>8, <1>9, <1>11, <2>1, AfterReadsSound
  <2> QED BY <1>10, <1>11, <2>1, <2>2
<1>12. CASE ~IsBill(r)
  <2>1. PICK q : q = [r EXCEPT !.at = "source"]
    OBVIOUS
  <2>2. /\ q \in Request /\ q.at = "source" /\ q.prior = r.prior /\ q.next = r.next
        /\ q.doc = r.doc /\ q.unread = r.unread /\ q.paid = r.paid /\ q.credit = r.credit
        /\ q.guard = r.guard
    BY <1>8, <2>1 DEF Request
  <2>3. /\ IsBill(q) = IsBill(r) /\ BillOf(q) = BillOf(r) /\ IsLinked(q.next) = IsLinked(r.next)
        /\ PriorKnown(q) /\ NothingAdded(q) /\ GuardKnown(q) /\ q.next.revision > 0
    BY <1>9, <2>2 DEF IsBill, BillOf, PriorKnown, NothingAdded, GuardKnown
  <2>4. Sound(q)
    BY <1>9, <1>12, <2>2, <2>3 DEF Sound
  <2> QED BY <1>10, <1>12, <2>1, <2>2, <2>3, <2>4
<1> QED BY <1>11, <1>12

LEMMA ReadSourceMakes ==
  ASSUME IInv, NEW w \in Worker, ReadSource(w)
  PROVE  \E q \in Request : /\ Proceed(w, q) /\ Sound(q)
                            /\ q.at \in {"list", "sums", "unguarded"}
                            /\ NothingAdded(q) /\ (q.at = "sums" => ~Adopts(q))
<1>1. PICK p : p = request[w]
  OBVIOUS
<1>2. p.at = "source"
  BY <1>1 DEF ReadSource
<1>3. p \in Request /\ Sound(p)
  BY <1>1, <1>2, InFlight DEF Idle
<1>4. /\ PriorKnown(p) /\ NothingAdded(p) /\ p.next.revision > 0
      /\ ~IsBill(p) /\ IsLinked(p.next) /\ GuardKnown(p)
  BY <1>2, <1>3 DEF Sound
<1>5. PICK s : s = document[p.next.link]
  OBVIOUS
<1>6. p.next.link \in Doc
  BY <1>3, <1>4, RequestTyped, DocumentTyped DEF IsLinked
<1>7. s \in Document /\ s.revision \in Nat
  BY <1>5, <1>6, DocumentTyped DEF IInv, TypeOK
<1>8. PICK r : r = [p EXCEPT !.src = s]
  OBVIOUS
<1>9. /\ r \in Request /\ r.src = s /\ r.prior = p.prior /\ r.next = p.next /\ r.doc = p.doc
      /\ r.unread = p.unread /\ r.paid = p.paid /\ r.credit = p.credit /\ r.guard = p.guard
  BY <1>3, <1>7, <1>8 DEF Request
<1>10. /\ ~IsBill(r) /\ IsLinked(r.next) /\ BillOf(r) = BillOf(p)
       /\ PriorKnown(r) /\ NothingAdded(r) /\ GuardKnown(r) /\ r.next.revision > 0
  BY <1>4, <1>9 DEF IsBill, IsLinked, BillOf, PriorKnown, NothingAdded, GuardKnown
<1>11. Proceed(w, IF PayableSource(r.src) THEN AfterReads(r) ELSE [r EXCEPT !.at = "unguarded"])
  BY <1>1, <1>5, <1>8 DEF ReadSource
<1>12. CASE PayableSource(r.src)
  <2>1. SourceKnown(r)
    BY <1>5, <1>7, <1>9, <1>12 DEF SourceKnown
  <2>2. PICK q : q = AfterReads(r)
    OBVIOUS
  <2>3. /\ q \in Request /\ Sound(q) /\ q.at = IF Adopts(r) THEN "list" ELSE "sums"
        /\ NothingAdded(q) /\ Adopts(q) = Adopts(r)
    BY <1>9, <1>10, <2>1, <2>2, AfterReadsSound
  <2> QED BY <1>11, <1>12, <2>2, <2>3
<1>13. CASE ~PayableSource(r.src)
  <2>1. PICK q : q = [r EXCEPT !.at = "unguarded"]
    OBVIOUS
  <2>2. /\ q \in Request /\ q.at = "unguarded" /\ q.prior = r.prior /\ q.next = r.next
        /\ q.doc = r.doc /\ q.unread = r.unread /\ q.paid = r.paid /\ q.credit = r.credit
        /\ q.src = r.src
    BY <1>9, <2>1 DEF Request
  <2>3. ~IsBill(q) /\ PriorKnown(q) /\ NothingAdded(q) /\ q.next.revision > 0
    BY <1>10, <2>2 DEF IsBill, PriorKnown, NothingAdded
  <2>4. s.revision > 0 => s.kind # "bill"
    BY <1>9, <1>13 DEF PayableSource
  <2>5. SettlesNoBill(q)
    BY <1>5, <1>7, <1>9, <1>13, <2>2, <2>4 DEF SettlesNoBill
  <2>6. Sound(q)
    BY <2>2, <2>3, <2>5 DEF Sound
  <2> QED BY <1>11, <1>13, <2>1, <2>2, <2>3, <2>6
<1> QED BY <1>12, <1>13

(* The request stays what it is but for what the reads add up.               *)
SameButSums(p, q) ==
    /\ q.doc = p.doc /\ q.prior = p.prior /\ q.next = p.next /\ q.src = p.src
    /\ q.guard = p.guard

LEMMA StillSound ==
  ASSUME NEW p, NEW q, SameButSums(p, q), Sound(p), p.at \in {"list", "sums"}, q.at = "sums",
         Adopts(p)
  PROVE  Sound(q) /\ Adopts(q) /\ BillOf(q) = BillOf(p)
<1>1. /\ IsBill(q) = IsBill(p) /\ BillOf(q) = BillOf(p) /\ IsLinked(q.next) = IsLinked(p.next)
      /\ Adopts(q) = Adopts(p) /\ PriorKnown(q) = PriorKnown(p)
      /\ GuardKnown(q) = GuardKnown(p) /\ SourceKnown(q) = SourceKnown(p)
      /\ q.next = p.next
  BY DEF SameButSums, IsBill, BillOf, IsLinked, Adopts, PriorKnown, GuardKnown, SourceKnown
<1> QED BY <1>1 DEF Sound

LEMMA ListDocumentsMakes ==
  ASSUME IInv, NEW w \in Worker, ListDocuments(w)
  PROVE  \E q \in Request : /\ Proceed(w, q) /\ Sound(q) /\ q.at = "sums" /\ Adopts(q)
                            /\ q.unread = {d \in Doc : document[d].revision > 0}
                            /\ q.paid = 0 /\ q.credit = 0
<1>1. PICK p : p = request[w]
  OBVIOUS
<1>2. p.at = "list"
  BY <1>1 DEF ListDocuments
<1>3. p \in Request /\ Sound(p)
  BY <1>1, <1>2, InFlight DEF Idle
<1>4. PICK U \in SUBSET Doc : U = {d \in Doc : document[d].revision > 0}
  OBVIOUS
<1>5. PICK q : q = [p EXCEPT !.at = "sums", !.unread = U]
  OBVIOUS
<1>6. /\ q \in Request /\ q.at = "sums" /\ q.unread = U /\ q.paid = p.paid /\ q.credit = p.credit
      /\ SameButSums(p, q)
  BY <1>3, <1>5 DEF Request, SameButSums
<1>7. Adopts(p) /\ p.paid = 0 /\ p.credit = 0
  BY <1>2, <1>3 DEF Sound, NothingAdded
<1>8. Sound(q) /\ Adopts(q)
  BY <1>2, <1>3, <1>6, <1>7, StillSound
<1>9. Proceed(w, q)
  BY <1>1, <1>4, <1>5 DEF ListDocuments
<1> QED BY <1>4, <1>6, <1>7, <1>8, <1>9

LEMMA CountsTyped ==
  ASSUME NEW v \in Document, NEW s, NEW k
  PROVE  Counts(v, s, k) \in Nat
  BY DocumentTyped DEF Counts

LEMMA ReadDocumentMakes ==
  ASSUME IInv, NEW w \in Worker, NEW d \in Doc, ReadDocument(w, d)
  PROVE  \E p, q \in Request :
            /\ p = request[w] /\ p # Idle /\ p.at = "sums" /\ d \in p.unread /\ Adopts(p)
            /\ Proceed(w, q) /\ Sound(q) /\ q.at = "sums" /\ Adopts(q) /\ SameButSums(p, q)
            /\ q.unread = p.unread \ {d}
            /\ q.paid = p.paid + Counts(document[d], BillOf(p), "outflow")
            /\ q.credit = p.credit + Counts(document[d], BillOf(p), "credit")
<1>1. PICK p : p = request[w]
  OBVIOUS
<1>2. p.at = "sums" /\ d \in p.unread
  BY <1>1 DEF ReadDocument
<1>3. p \in Request /\ Sound(p) /\ p # Idle
  BY <1>1, <1>2, InFlight DEF Idle
<1>4. Adopts(p)
  BY <1>2, <1>3 DEF Sound, NothingAdded
<1>5. PICK m \in Int : m = p.paid + Counts(document[d], BillOf(p), "outflow")
  BY <1>3, RequestTyped, CountsTyped DEF IInv, TypeOK
<1>6. PICK n \in Int : n = p.credit + Counts(document[d], BillOf(p), "credit")
  BY <1>3, RequestTyped, CountsTyped DEF IInv, TypeOK
<1>7. PICK U \in SUBSET Doc : U = p.unread \ {d}
  BY <1>3, RequestTyped
<1>8. PICK q : q = [p EXCEPT !.unread = U, !.paid = m, !.credit = n]
  OBVIOUS
<1>9. /\ q \in Request /\ q.at = "sums" /\ q.unread = U /\ q.paid = m /\ q.credit = n
      /\ SameButSums(p, q)
  BY <1>2, <1>3, <1>8 DEF Request, SameButSums
<1>10. Sound(q) /\ Adopts(q)
  BY <1>2, <1>3, <1>4, <1>9, StillSound
<1>11. Proceed(w, [p EXCEPT !.unread = @ \ {d},
                            !.paid = @ + Counts(document[d], BillOf(p), "outflow"),
                            !.credit = @ + Counts(document[d], BillOf(p), "credit")])
  BY <1>1 DEF ReadDocument
<1>12. Proceed(w, q)
  BY <1>5, <1>6, <1>7, <1>8, <1>11
<1> QED BY <1>1, <1>2, <1>3, <1>4, <1>5, <1>6, <1>7, <1>9, <1>10, <1>12

LEMMA ReadsKeep ==
  ASSUME IInv, NEW w \in Worker,
         \/ ReadPrior(w) \/ ReadGuard(w) \/ ReadSource(w) \/ ListDocuments(w)
         \/ \E d \in Doc : ReadDocument(w, d)
  PROVE  IInv'
<1>1. ASSUME ReadPrior(w) PROVE IInv'
  BY <1>1, ReadPriorMakes, ProceedKeeps
<1>2. ASSUME ReadGuard(w) PROVE IInv'
  BY <1>2, ReadGuardMakes, ProceedKeeps
<1>3. ASSUME ReadSource(w) PROVE IInv'
  BY <1>3, ReadSourceMakes, ProceedKeeps
<1>4. ASSUME ListDocuments(w) PROVE IInv'
  BY <1>4, ListDocumentsMakes, ProceedKeeps
<1>5. ASSUME NEW d \in Doc, ReadDocument(w, d) PROVE IInv'
  BY <1>5, ReadDocumentMakes, ProceedKeeps
<1> QED BY <1>1, <1>2, <1>3, <1>4, <1>5

----------------------------------------------------------------------------
(* The transaction.                                                          *)
LEMMA NewTotalsTyped ==
  ASSUME NEW r \in Request
  PROVE  /\ NewPaid(r) \in Int /\ NewCredit(r) \in Int /\ BillCents(r) \in Int
         /\ Delta(r) \in Int
<1>1. /\ r.guard.paid \in Int /\ r.guard.credit \in Int /\ r.paid \in Int /\ r.credit \in Int
  BY RequestTyped DEF Guard
<1>2. Cents(r.prior) \in Int /\ Cents(r.next) \in Int /\ Cents(r.src) \in Int
  BY RequestTyped, DocumentTyped
<1> QED BY <1>1, <1>2 DEF NewPaid, NewCredit, BillCents, Delta

(* A document is written with the result of its key.  No other document      *)
(* carries the key, for its item did not exist.                              *)
LEMMA DocumentWritten ==
  ASSUME IInv, NEW r \in Request, r.next.revision > 0,
         DocumentCondition(r), WriteDocument(r)
  PROVE  /\ document' \in [Doc -> Document]
         /\ \A d \in Doc : document'[d] = IF d = r.doc THEN r.next ELSE document[d]
         /\ DOMAIN result' \subseteq Key
         /\ result' \in [DOMAIN result' -> [doc : Doc, revision : 1..MaxRevision]]
         /\ OneWritePerKey'
<1>1. r.doc \in Doc /\ r.next \in Document /\ r.next.key \in Key \cup {NoKey}
  BY RequestTyped, DocumentTyped
<1>2. r.next.key \notin DOMAIN result
  BY DEF DocumentCondition
<1>3. /\ document \in [Doc -> Document] /\ DOMAIN result \subseteq Key
      /\ result \in [DOMAIN result -> [doc : Doc, revision : 1..MaxRevision]]
  BY DEF IInv, TypeOK
<1>4. /\ document' \in [Doc -> Document]
      /\ \A d \in Doc : document'[d] = IF d = r.doc THEN r.next ELSE document[d]
  BY <1>1, <1>3 DEF WriteDocument
<1>5. r.next.revision \in 1..MaxRevision
  BY <1>1, DocumentTyped, BoundsAssumption
<1>6. PICK entry : entry = [doc |-> r.doc, revision |-> r.next.revision]
  OBVIOUS
<1>7. entry \in [doc : Doc, revision : 1..MaxRevision]
  BY <1>1, <1>5, <1>6
<1>8. r.next.key = NoKey => result' = result
  BY DEF WriteDocument, WriteResult
<1>9. r.next.key # NoKey => result' = [k \in DOMAIN result \cup {r.next.key} |->
                                         IF k = r.next.key THEN entry ELSE result[k]]
  BY <1>6 DEF WriteDocument, WriteResult
<1>10. /\ DOMAIN result' \subseteq Key
       /\ result' \in [DOMAIN result' -> [doc : Doc, revision : 1..MaxRevision]]
       /\ \A k \in DOMAIN result : k \in DOMAIN result' /\ result'[k] = result[k]
       /\ r.next.key # NoKey => r.next.key \in DOMAIN result' /\ result'[r.next.key] = entry
  <2>1. CASE r.next.key = NoKey
    BY <1>3, <1>8, <2>1
  <2>2. CASE r.next.key # NoKey
    BY <1>1, <1>2, <1>3, <1>7, <1>9, <2>2
  <2> QED BY <2>1, <2>2
<1>11. OneWritePerKey
  BY DEF IInv
<1>12. ASSUME NEW d \in Doc, document'[d].key # NoKey
       PROVE  /\ document'[d].key \in DOMAIN result'
              /\ result'[document'[d].key] = [doc |-> d, revision |-> document'[d].revision]
  <2>1. CASE d = r.doc
    BY <1>4, <1>6, <1>10, <1>12, <2>1
  <2>2. CASE d # r.doc
    <3>1. document'[d] = document[d]
      BY <1>4, <2>2
    <3>2. /\ document[d].key \in DOMAIN result
          /\ result[document[d].key] = [doc |-> d, revision |-> document[d].revision]
      BY <1>11, <1>12, <3>1 DEF OneWritePerKey
    <3> QED BY <1>10, <3>1, <3>2
  <2> QED BY <2>1, <2>2
<1>13. OneWritePerKey'
  BY <1>12 DEF OneWritePerKey
<1> QED BY <1>4, <1>10, <1>13

(* The document is replaced by its next revision, and if that is of another  *)
(* kind it is noted.                                                         *)
LEMMA WriteGrows ==
  ASSUME IInv, NEW r \in Request, Sound(r), r.at # "prior",
         DocumentCondition(r), WriteDocument(r)
  PROVE  /\ r.prior = document[r.doc] /\ r.next.revision = document[r.doc].revision + 1
         /\ r.next.revision > 0 /\ DocumentsGrow /\ KindsNoted
<1>1. PriorKnown(r) /\ document[r.doc].revision = r.prior.revision /\ r.doc \in Doc
  BY RequestTyped DEF Sound, DocumentCondition
<1>2. r.prior = document[r.doc] /\ r.next.revision = document[r.doc].revision + 1
  BY <1>1 DEF PriorKnown
<1>3. document[r.doc].revision \in Nat
  BY <1>1, DocumentTyped DEF IInv, TypeOK
<1>4. r.next.revision > 0
  BY <1>2, <1>3
<1>5. \A d \in Doc : document'[d] = IF d = r.doc THEN r.next ELSE document[d]
  BY <1>4, DocumentWritten
<1>6. DocumentsGrow
  BY <1>2, <1>3, <1>5 DEF DocumentsGrow
<1>7. loose' = loose \cup Relabelled(r) \cup Premature(r)
  BY DEF WriteDocument
<1>8. ASSUME NEW s \in Doc, document[s].revision > 0, document'[s].kind # document[s].kind
      PROVE  s \in loose'
  <2>1. s = r.doc /\ r.next.kind # r.prior.kind /\ r.prior.revision > 0
    BY <1>2, <1>5, <1>8
  <2>2. s \in Relabelled(r)
    BY <2>1 DEF Relabelled
  <2> QED BY <1>7, <2>2
<1>9. KindsNoted
  BY <1>7, <1>8 DEF KindsNoted
<1> QED BY <1>2, <1>4, <1>6, <1>9

LEMMA WrittenKeeps ==
  ASSUME IInv, NEW w \in Worker, NEW r \in Request, r = request[w], r.at # "prior",
         DocumentCondition(r), WriteDocument(r),
         guard' \in [Doc -> Guard], GuardsGrow, GuardsSound',
         request' = [request EXCEPT ![w] = Idle]
  PROVE  IInv'
<1>1. Sound(r)
  BY RequestNotIdle DEF IInv
<1>2. /\ r.next.revision > 0 /\ DocumentsGrow /\ KindsNoted
      /\ r.next.revision = document[r.doc].revision + 1
  BY <1>1, WriteGrows
<1>3. /\ document' \in [Doc -> Document]
      /\ \A d \in Doc : document'[d] = IF d = r.doc THEN r.next ELSE document[d]
      /\ DOMAIN result' \subseteq Key
      /\ result' \in [DOMAIN result' -> [doc : Doc, revision : 1..MaxRevision]]
      /\ OneWritePerKey'
  BY <1>2, DocumentWritten
<1>4. request' \in [Worker -> {Idle} \cup Request]
  BY DEF IInv, TypeOK
<1>5. loose' \subseteq Doc
  BY DEF IInv, TypeOK, WriteDocument, Relabelled, Premature
<1>6. Request' = Request /\ Document' = Document /\ Guard' = Guard
  BY DEF Request, Document, Guard
<1>7. TypeOK'
  BY <1>3, <1>4, <1>5, <1>6 DEF TypeOK, Idle
<1>8. DocumentsSound'
  BY <1>2, <1>3 DEF IInv, DocumentsSound, NoDocument
<1>9. ASSUME NEW v \in Worker, request'[v] # Idle PROVE Sound(request[v])'
  <2>1. request'[v] = request[v]
    BY <1>9 DEF IInv, TypeOK
  <2>2. PICK p : p = request[v]
    OBVIOUS
  <2>3. p \in Request /\ Sound(p)
    BY <1>9, <2>1, <2>2 DEF IInv, TypeOK
  <2>4. Sound(p)'
    BY <1>2, <1>3, <2>3, SoundKept DEF IInv
  <2>5. p = request'[v]
    BY <2>1, <2>2
  <2> QED BY <2>4, <2>5
<1>10. \A v \in Worker : (request[v] # Idle)' => Sound(request[v])'
  BY <1>9 DEF Idle
<1> QED BY <1>3, <1>7, <1>8, <1>10 DEF IInv

LEMMA CommitUnguardedKeeps ==
  ASSUME IInv, NEW w \in Worker, CommitUnguarded(w)
  PROVE  IInv'
<1>1. PICK r : r = request[w]
  OBVIOUS
<1>2. /\ r.at = "unguarded" /\ DocumentCondition(r) /\ WriteDocument(r)
      /\ request' = [request EXCEPT ![w] = Idle] /\ guard' = guard
  BY <1>1 DEF CommitUnguarded
<1>3. r \in Request /\ Sound(r)
  BY <1>1, <1>2, InFlight DEF Idle
<1>4. guard' \in [Doc -> Guard] /\ GuardsGrow
  BY <1>2 DEF IInv, TypeOK, GuardsGrow
<1>5. DocumentsGrow
  BY <1>2, <1>3, WriteGrows
<1>6. \A d \in Doc : document[d].revision \in Nat /\ document'[d].revision \in Nat
  <2>1. r.next.revision > 0
    BY <1>2, <1>3, WriteGrows
  <2>2. document' \in [Doc -> Document]
    BY <1>2, <1>3, <2>1, DocumentWritten
  <2> QED BY <2>2, DocumentTyped DEF IInv, TypeOK
<1>7. GuardsSound'
  BY <1>2, <1>5, <1>6 DEF IInv, GuardsSound, DocumentsGrow, NoGuard
<1> QED BY <1>1, <1>2, <1>3, <1>4, <1>7, WrittenKeeps

(* What a guarded transaction writes, and on what.                           *)
Guarded(w, r, s) ==
    /\ r = request[w] /\ Sound(r) /\ r.at = "sums" /\ r.unread = {} /\ s = BillOf(r)
    /\ DocumentCondition(r) /\ WriteDocument(r) /\ BalanceAllows(r)
    /\ r.guard = guard[s]
    /\ ~IsBill(r) => r.src = document[s] /\ PayableSource(r.src)
    /\ \A t \in Doc : guard'[t] = IF t = s
                                  THEN [version |-> guard[s].version + 1,
                                        bill |-> BillCents(r),
                                        paid |-> NewPaid(r), credit |-> NewCredit(r)]
                                  ELSE guard[t]
    /\ guard' \in [Doc -> Guard]
    /\ request' = [request EXCEPT ![w] = Idle]

LEMMA CommitGuardedMakes ==
  ASSUME IInv, NEW w \in Worker, CommitGuarded(w)
  PROVE  \E r \in Request, s \in Doc : Guarded(w, r, s)
<1>1. PICK r : r = request[w]
  OBVIOUS
<1>2. /\ r.at = "sums" /\ r.unread = {} /\ DocumentCondition(r) /\ WriteDocument(r)
      /\ GuardCondition(r) /\ SourceCondition(r) /\ WriteGuard(r) /\ BalanceAllows(r)
      /\ request' = [request EXCEPT ![w] = Idle]
  BY <1>1 DEF CommitGuarded
<1>3. r \in Request /\ Sound(r)
  BY <1>1, <1>2, InFlight DEF Idle
<1>4. /\ IsBill(r) \/ IsLinked(r.next)
      /\ GuardKnown(r)
      /\ ~IsBill(r) => SourceKnown(r)
  BY <1>2, <1>3 DEF Sound
<1>5. PICK s \in Doc : s = BillOf(r)
  BY <1>3, <1>4, RequestTyped
<1>6. guard[s] = r.guard
  BY <1>2, <1>4, <1>5 DEF GuardKnown, GuardCondition
<1>7. ~IsBill(r) => r.src = document[s] /\ PayableSource(r.src)
  BY <1>2, <1>4, <1>5 DEF SourceKnown, SourceCondition, BillOf
<1>8. PICK g : g = [version |-> guard[s].version + 1, bill |-> BillCents(r),
                    paid |-> NewPaid(r), credit |-> NewCredit(r)]
  OBVIOUS
<1>9. g \in Guard
  <2>1. guard[s].version \in Nat
    BY <1>3, <1>6, RequestTyped
  <2>2. BillCents(r) \in Int /\ NewPaid(r) \in Int /\ NewCredit(r) \in Int
    BY <1>3, NewTotalsTyped
  <2> QED BY <1>8, <2>1, <2>2 DEF Guard
<1>10. guard' = [guard EXCEPT ![s] = g]
  BY <1>2, <1>5, <1>6, <1>8 DEF WriteGuard
<1>11. /\ guard' \in [Doc -> Guard]
       /\ \A t \in Doc : guard'[t] = IF t = s THEN g ELSE guard[t]
  BY <1>9, <1>10 DEF IInv, TypeOK
<1> QED BY <1>1, <1>2, <1>3, <1>5, <1>6, <1>7, <1>8, <1>11 DEF Guarded

(* A guard is written only with its source in place.                         *)
LEMMA CommitGuardedKeeps ==
  ASSUME IInv, NEW w \in Worker, CommitGuarded(w)
  PROVE  IInv'
<1>0. PICK r \in Request, s \in Doc : Guarded(w, r, s)
  BY CommitGuardedMakes
<1>1. /\ r = request[w] /\ Sound(r) /\ r.at = "sums" /\ r.unread = {} /\ s = BillOf(r)
      /\ DocumentCondition(r) /\ WriteDocument(r) /\ BalanceAllows(r)
      /\ r.guard = guard[s]
      /\ ~IsBill(r) => r.src = document[s] /\ PayableSource(r.src)
      /\ \A t \in Doc : guard'[t] = IF t = s
                                    THEN [version |-> guard[s].version + 1,
                                          bill |-> BillCents(r),
                                          paid |-> NewPaid(r), credit |-> NewCredit(r)]
                                    ELSE guard[t]
      /\ guard' \in [Doc -> Guard]
      /\ request' = [request EXCEPT ![w] = Idle]
  BY <1>0 DEF Guarded
<1>2. PICK g : g = [version |-> guard[s].version + 1, bill |-> BillCents(r),
                    paid |-> NewPaid(r), credit |-> NewCredit(r)]
  OBVIOUS
<1>3. \A t \in Doc : guard'[t] = IF t = s THEN g ELSE guard[t]
  BY <1>1, <1>2
<1>4. guard[s].version \in Nat /\ g.version = guard[s].version + 1 /\ g.credit <= g.bill
  BY <1>1, <1>2, RequestTyped DEF BalanceAllows
<1>5. GuardsGrow
  BY <1>3, <1>4 DEF GuardsGrow
<1>6. /\ r.next.revision > 0 /\ DocumentsGrow /\ document' \in [Doc -> Document]
      /\ \A d \in Doc : document'[d] = IF d = r.doc THEN r.next ELSE document[d]
  BY <1>1, WriteGrows, DocumentWritten
<1>7. \A d \in Doc : document[d].revision \in Nat /\ document'[d].revision \in Nat
  BY <1>6, DocumentTyped DEF IInv, TypeOK
<1>8. document'[s].revision > 0
  <2>1. CASE IsBill(r)
    BY <1>1, <1>6, <2>1 DEF BillOf
  <2>2. CASE ~IsBill(r)
    <3>1. document[s].revision > 0
      BY <1>1, <2>2 DEF PayableSource
    <3> QED BY <1>6, <1>7, <3>1 DEF DocumentsGrow
  <2> QED BY <2>1, <2>2
<1>9. ASSUME NEW t \in Doc
      PROVE  /\ guard'[t].version = 0 => guard'[t] = NoGuard
             /\ guard'[t].version > 0 => document'[t].revision > 0
             /\ guard'[t].credit <= guard'[t].bill
  <2>1. CASE t = s
    BY <1>3, <1>4, <1>8, <2>1
  <2>2. CASE t # s
    BY <1>3, <1>6, <1>7, <2>2 DEF IInv, GuardsSound, DocumentsGrow
  <2> QED BY <2>1, <2>2
<1>10. GuardsSound'
  BY <1>9 DEF GuardsSound, NoGuard
<1> QED BY <1>1, <1>5, <1>10, WrittenKeeps

----------------------------------------------------------------------------
LEMMA Initially == Init => IInv
<1> SUFFICES ASSUME Init PROVE IInv
  OBVIOUS
<1>1. ASSUME NEW d \in Doc
      PROVE  /\ document[d] \in Document /\ document[d].key = NoKey
             /\ document[d].revision = 0 => document[d] = NoDocument
  <2>1. CASE document[d] = NoDocument
    BY <2>1, Blank DEF NoDocument
  <2>2. CASE document[d] # NoDocument
    <3>1. PICK shape \in Shapes[d], n \in 1..MaxCents :
             document[d] = Wanted(shape, n, TRUE, NoKey)
      <4>1. PICK shape \in OldShapes(d) : document[d] \in Legacy(shape)
        BY <2>2 DEF Init
      <4>2. PICK n \in 1..MaxCents : document[d] = Wanted(shape, n, TRUE, NoKey)
        BY <4>1 DEF Legacy
      <4> QED BY <4>1, <4>2 DEF OldShapes
    <3>2. n \in Amount
      BY BoundsAssumption DEF Amount
    <3>3. document[d] \in Document /\ document[d].revision = 1
      BY <3>1, <3>2, WantedTyped
    <3> QED BY <3>1, <3>3 DEF Wanted
  <2> QED BY <2>1, <2>2
<1>2. document \in [Doc -> Document]
  BY <1>1 DEF Init
<1>3. /\ guard \in [Doc -> Guard] /\ \A s \in Doc : guard[s] = NoGuard
  BY Blank DEF Init
<1>4. DOMAIN result = {} /\ result \in [DOMAIN result -> [doc : Doc, revision : 1..MaxRevision]]
  BY DEF Init
<1>5. TypeOK
  BY <1>2, <1>3, <1>4 DEF Init, TypeOK
<1>6. OneWritePerKey /\ DocumentsSound
  BY <1>1 DEF OneWritePerKey, DocumentsSound
<1>7. GuardsSound
  BY <1>3 DEF GuardsSound, NoGuard
<1> QED BY <1>5, <1>6, <1>7 DEF Init, IInv

LEMMA Preserved == IInv /\ [Next]_vars => IInv'
<1> SUFFICES ASSUME IInv, [Next]_vars PROVE IInv'
  OBVIOUS
<1>1. CASE UNCHANGED vars
  <2>1. TypeOK' /\ OneWritePerKey' /\ DocumentsSound' /\ GuardsSound'
    BY <1>1 DEF vars, IInv, TypeOK, OneWritePerKey, DocumentsSound, GuardsSound
  <2>2. DocumentsGrow /\ GuardsGrow /\ KindsNoted
    BY <1>1 DEF vars, DocumentsGrow, GuardsGrow, KindsNoted
  <2>3. ASSUME NEW w \in Worker, request'[w] # Idle PROVE Sound(request[w])'
    <3>1. PICK p : p = request[w]
      OBVIOUS
    <3>2. p = request'[w] /\ p \in Request /\ Sound(p)
      BY <1>1, <2>3, <3>1 DEF vars, IInv, TypeOK
    <3>3. Sound(p)'
      BY <1>1, <2>2, <3>2, SoundKept DEF vars, IInv, TypeOK
    <3> QED BY <3>2, <3>3
  <2>4. \A w \in Worker : (request[w] # Idle)' => Sound(request[w])'
    BY <2>3 DEF Idle
  <2> QED BY <2>1, <2>4 DEF IInv, Idle
<1>2. CASE Next
  <2>1. PICK w \in Worker : Step(w)
    BY <1>2 DEF Next
  <2>2. CASE \E d \in Doc : Command(w, d) \/ Post(w, d) \/ Patch(w, d) \/ Put(w, d)
    BY <2>2, CommandKeeps
  <2>3. CASE \/ ReadPrior(w) \/ ReadGuard(w) \/ ReadSource(w) \/ ListDocuments(w)
             \/ \E d \in Doc : ReadDocument(w, d)
    BY <2>3, ReadsKeep
  <2>4. CASE CommitGuarded(w)
    BY <2>4, CommitGuardedKeeps
  <2>5. CASE CommitUnguarded(w)
    BY <2>5, CommitUnguardedKeeps
  <2>6. CASE Abandon(w)
    BY <2>6, AbandonKeeps
  <2> QED BY <2>1, <2>2, <2>3, <2>4, <2>5, <2>6 DEF Step
<1> QED BY <1>1, <1>2

LEMMA Invariance == Spec => []IInv
  BY Initially, Preserved, PTL DEF Spec

----------------------------------------------------------------------------
(* The books.  What is settled by a document that is not loose is there; a   *)
(* Bill's guard is exact; and a request that adopts has added up the records *)
(* it has read as they are, as long as nobody else has written the guard.    *)
LinksSound ==
    \A d, s \in Doc : s \notin loose /\ Settles(document[d], s) => document[s].revision > 0

Summed(r) ==
    r.at = "sums" /\ Adopts(r) =>
       \A s \in Doc :
          s = BillOf(r) /\ guard[s].version = 0 /\ s \notin loose /\ document[s].kind = "bill" =>
             /\ r.paid = SumCents(Counted(s, "outflow"), Doc \ r.unread)
             /\ r.credit = SumCents(Counted(s, "credit"), Doc \ r.unread)

Books == /\ LinksSound /\ GuardExact
         /\ \A w \in Worker : request[w] # Idle => Summed(request[w])

LEMMA CountedTyped ==
  ASSUME TypeOK, NEW s, NEW k
  PROVE  \A d \in Doc : Counted(s, k)[d] = Counts(document[d], s, k) /\ Counted(s, k)[d] \in Nat
  BY CountsTyped DEF Counted, TypeOK

LEMMA SettledTyped ==
  ASSUME TypeOK, NEW s, NEW k
  PROVE  Settled(s, k) \in Nat
  BY CountedTyped, SumTyped, DocumentsAssumption DEF Settled

(* Nothing of the books is in what a request alone changes.                  *)
LEMMA ProceedKeepsBooks ==
  ASSUME IInv, Books, NEW w \in Worker, NEW q, q = Idle \/ Summed(q), Proceed(w, q)
  PROVE  Books'
<1>1. /\ request' = [request EXCEPT ![w] = q]
      /\ document' = document /\ guard' = guard /\ loose' = loose
  BY DEF Proceed
<1>2. LinksSound' /\ GuardExact'
  BY <1>1 DEF Books, LinksSound, GuardExact, Settles, Settled, Counted, Counts, Cents
<1>3. \A r : Summed(r) => Summed(r)'
  <2> SUFFICES ASSUME NEW r, Summed(r) PROVE Summed(r)'
    OBVIOUS
  <2>1. Adopts(r)' = Adopts(r) /\ BillOf(r)' = BillOf(r)
    BY DEF Adopts, IsBill, BillOf, PayableSource
  <2>2. \A s, k : Counted(s, k)' = Counted(s, k)
    BY <1>1 DEF Counted, Counts, Cents
  <2> QED BY <1>1, <2>1, <2>2 DEF Summed
<1>4. ASSUME NEW v \in Worker, request'[v] # Idle PROVE Summed(request[v])'
  <2>1. PICK p : p = request'[v]
    OBVIOUS
  <2>2. request'[v] = IF v = w THEN q ELSE request[v]
    BY <1>1 DEF IInv, TypeOK
  <2>3. Summed(p)
    BY <1>4, <2>1, <2>2 DEF Books
  <2> QED BY <1>3, <2>1, <2>3
<1>5. \A v \in Worker : (request[v] # Idle)' => Summed(request[v])'
  BY <1>4 DEF Idle
<1> QED BY <1>2, <1>5 DEF Books, Idle

LEMMA AbandonKeepsBooks ==
  ASSUME IInv, Books, NEW w \in Worker, Abandon(w)
  PROVE  Books'
  BY ProceedKeepsBooks DEF Abandon

LEMMA CommandKeepsBooks ==
  ASSUME IInv, Books, NEW w \in Worker, NEW d \in Doc,
         Command(w, d) \/ Post(w, d) \/ Patch(w, d) \/ Put(w, d)
  PROVE  Books'
<1>1. PICK new, v : Begin(w, d, new, v)
  BY DEF Command, Post, Patch, Put
<1>2. PICK q : q = [at |-> "prior", doc |-> d, new |-> new,
                    prior |-> NoDocument, next |-> v,
                    src |-> NoDocument, guard |-> NoGuard,
                    unread |-> {}, paid |-> 0, credit |-> 0]
  OBVIOUS
<1>3. Proceed(w, q)
  BY <1>1, <1>2 DEF Begin, Proceed
<1>4. Summed(q)
  BY <1>2 DEF Summed
<1> QED BY <1>3, <1>4, ProceedKeepsBooks

(* A list that has just been made has nothing read: what is not in it does   *)
(* not exist, and counts for nothing.                                        *)
LEMMA ListKeepsBooks ==
  ASSUME IInv, Books, NEW w \in Worker, ListDocuments(w)
  PROVE  Books'
<1>1. PICK q \in Request : /\ Proceed(w, q) /\ q.at = "sums" /\ Adopts(q)
                           /\ q.unread = {d \in Doc : document[d].revision > 0}
                           /\ q.paid = 0 /\ q.credit = 0
  BY ListDocumentsMakes
<1>2. PICK T : T = Doc \ q.unread
  OBVIOUS
<1>3. \A s, k : SumCents(Counted(s, k), T) = 0
  <2> SUFFICES ASSUME NEW s, NEW k PROVE SumCents(Counted(s, k), T) = 0
    OBVIOUS
  <2>1. ASSUME NEW d \in T PROVE Counted(s, k)[d] = 0
    <3>1. d \in Doc /\ ~(document[d].revision > 0)
      BY <1>1, <1>2
    <3>2. document[d].revision = 0
      BY <3>1, DocumentTyped DEF IInv, TypeOK
    <3>3. document[d] = NoDocument
      BY <3>1, <3>2 DEF IInv, DocumentsSound
    <3> QED BY <3>1, <3>3 DEF Counted, Counts, Cents, NoDocument
  <2>2. SumCents(Counted(s, k), {}) = SumCents(Counted(s, k), T)
    BY <2>1, SumOfCounting
  <2> QED BY <2>2, SumNothing
<1>4. Summed(q)
  BY <1>1, <1>2, <1>3 DEF Summed
<1> QED BY <1>1, <1>4, ProceedKeepsBooks

(* One record more is read.                                                  *)
LEMMA ReadDocumentKeepsBooks ==
  ASSUME IInv, Books, NEW w \in Worker, NEW d \in Doc, ReadDocument(w, d)
  PROVE  Books'
<1>1. PICK p, q \in Request :
         /\ p = request[w] /\ p # Idle /\ p.at = "sums" /\ d \in p.unread /\ Adopts(p)
         /\ Proceed(w, q) /\ Sound(q) /\ q.at = "sums" /\ Adopts(q) /\ SameButSums(p, q)
         /\ q.unread = p.unread \ {d}
         /\ q.paid = p.paid + Counts(document[d], BillOf(p), "outflow")
         /\ q.credit = p.credit + Counts(document[d], BillOf(p), "credit")
  BY ReadDocumentMakes
<1>2. BillOf(q) = BillOf(p)
  BY <1>1 DEF SameButSums, BillOf, IsBill
<1>3. p.unread \in SUBSET Doc
  BY <1>1, RequestTyped
<1>4. PICK T : T = Doc \ p.unread
  OBVIOUS
<1>5. d \notin T /\ Doc \ q.unread = T \cup {d} /\ T \subseteq Doc
  BY <1>1, <1>3, <1>4
<1>6. IsFiniteSet(T)
  BY <1>5, DocumentsAssumption, FS_Subset
<1>7. \A s, k : SumCents(Counted(s, k), T \cup {d})
                   = SumCents(Counted(s, k), T) + Counts(document[d], s, k)
  <2> SUFFICES ASSUME NEW s, NEW k
               PROVE  SumCents(Counted(s, k), T \cup {d})
                         = SumCents(Counted(s, k), T) + Counts(document[d], s, k)
    OBVIOUS
  <2>1. PICK f : f = Counted(s, k)
    OBVIOUS
  <2>2. f[d] = Counts(document[d], s, k) /\ \A e \in Doc : f[e] \in Nat
    BY <2>1, CountedTyped DEF IInv
  <2>3. \A e \in T : f[e] \in Nat
    BY <1>5, <2>2
  <2>4. SumCents(f, T \cup {d}) = SumCents(f, T) + f[d]
    BY <1>5, <1>6, <2>2, <2>3, SumWith
  <2> QED BY <2>1, <2>2, <2>4
<1>8. Summed(p)
  BY <1>1 DEF Books
<1>9. Summed(q)
  <2> SUFFICES ASSUME NEW s \in Doc, s = BillOf(q), guard[s].version = 0, s \notin loose,
                      document[s].kind = "bill"
               PROVE  /\ q.paid = SumCents(Counted(s, "outflow"), Doc \ q.unread)
                      /\ q.credit = SumCents(Counted(s, "credit"), Doc \ q.unread)
    BY DEF Summed
  <2>1. /\ p.paid = SumCents(Counted(s, "outflow"), T)
        /\ p.credit = SumCents(Counted(s, "credit"), T)
    BY <1>1, <1>2, <1>4, <1>8 DEF Summed
  <2> QED BY <1>1, <1>2, <1>5, <1>7, <2>1
<1> QED BY <1>1, <1>9, ProceedKeepsBooks

LEMMA ReadsKeepBooks ==
  ASSUME IInv, Books, NEW w \in Worker,
         \/ ReadPrior(w) \/ ReadGuard(w) \/ ReadSource(w) \/ ListDocuments(w)
         \/ \E d \in Doc : ReadDocument(w, d)
  PROVE  Books'
<1>1. CASE ReadPrior(w)
  <2>1. PICK q : Proceed(w, q) /\ q.at \in {"guard", "unguarded"}
    BY <1>1, ReadPriorMakes
  <2>2. Summed(q)
    BY <2>1 DEF Summed
  <2> QED BY <2>1, <2>2, ProceedKeepsBooks
<1>2. CASE ReadGuard(w)
  <2>1. PICK q : Proceed(w, q) /\ (q.at = "sums" => ~Adopts(q))
    BY <1>2, ReadGuardMakes
  <2>2. Summed(q)
    BY <2>1 DEF Summed
  <2> QED BY <2>1, <2>2, ProceedKeepsBooks
<1>3. CASE ReadSource(w)
  <2>1. PICK q : Proceed(w, q) /\ (q.at = "sums" => ~Adopts(q))
    BY <1>3, ReadSourceMakes
  <2>2. Summed(q)
    BY <2>1 DEF Summed
  <2> QED BY <2>1, <2>2, ProceedKeepsBooks
<1>4. CASE ListDocuments(w)
  BY <1>4, ListKeepsBooks
<1>5. CASE \E d \in Doc : ReadDocument(w, d)
  BY <1>5, ReadDocumentKeepsBooks
<1> QED BY <1>1, <1>2, <1>3, <1>4, <1>5

----------------------------------------------------------------------------
(* The transaction and the books.  A request commits what it knows.          *)
Commits(r) ==
    /\ Sound(r) /\ r.at \in {"sums", "unguarded"}
    /\ DocumentCondition(r) /\ WriteDocument(r)

LEMMA Committed ==
  ASSUME IInv, NEW r \in Request, Commits(r)
  PROVE  /\ r.doc \in Doc /\ r.prior \in Document /\ r.next \in Document
         /\ r.prior = document[r.doc] /\ (r.prior.revision = 0 => r.prior = NoDocument)
         /\ r.prior.revision \in Nat
         /\ r.next.revision > 0 /\ document' \in [Doc -> Document]
         /\ \A d \in Doc : document'[d] = IF d = r.doc THEN r.next ELSE document[d]
         /\ loose' = loose \cup Relabelled(r) \cup Premature(r)
         /\ DocumentsGrow /\ KindsNoted
         /\ r.at = "unguarded" => ~IsBill(r) /\ SettlesNoBill(r)
         /\ r.at = "sums" => IsBill(r) \/ IsLinked(r.next)
         /\ r.at = "sums" /\ ~IsBill(r) => SourceKnown(r)
<1>1. r.at # "prior" /\ Sound(r) /\ DocumentCondition(r) /\ WriteDocument(r)
  BY DEF Commits
<1>2. /\ r.prior = document[r.doc] /\ r.next.revision > 0 /\ DocumentsGrow /\ KindsNoted
  BY <1>1, WriteGrows
<1>3. /\ document' \in [Doc -> Document]
      /\ \A d \in Doc : document'[d] = IF d = r.doc THEN r.next ELSE document[d]
  BY <1>1, <1>2, DocumentWritten
<1>4. r.prior.revision = 0 => r.prior = NoDocument
  BY <1>1 DEF Sound, PriorKnown
<1>5. loose' = loose \cup Relabelled(r) \cup Premature(r)
  BY <1>1 DEF WriteDocument
<1> QED BY <1>1, <1>2, <1>3, <1>4, <1>5, RequestTyped DEF Sound

(* What stays tight is neither relabelled nor settled too early.             *)
LEMMA Tight ==
  ASSUME IInv, NEW r \in Request, Commits(r), NEW s \in Doc, s \notin loose'
  PROVE  /\ s \notin loose
         /\ s = r.doc /\ r.prior.revision > 0 => r.prior.kind = r.next.kind
         /\ r.prior.revision > 0 /\ (Settles(r.prior, s) \/ Settles(r.next, s))
               => r.prior.kind = r.next.kind /\ r.prior.link = r.next.link
         /\ Settles(r.next, s) => r.src.revision # 0
<1>1. s \notin loose /\ s \notin Relabelled(r) /\ s \notin Premature(r)
  BY Committed
<1> QED BY <1>1 DEF Relabelled, Premature

(* A write changes nothing about a Bill whose guard it does not write.       *)
LEMMA OthersKept ==
  ASSUME IInv, NEW r \in Request, Commits(r), NEW s \in Doc, s \notin loose',
         document'[s].kind = "bill", r.at = "unguarded" \/ s # BillOf(r)
  PROVE  /\ document'[s] = document[s]
         /\ \A k \in Settling : \A d \in Doc :
               Counts(document'[d], s, k) = Counts(document[d], s, k)
<1>1. s # r.doc
  <2> SUFFICES ASSUME s = r.doc PROVE FALSE
    OBVIOUS
  <2>1. r.next.kind = "bill" /\ r.next.revision > 0
    BY Committed
  <2>2. IsBill(r) /\ BillOf(r) = s
    BY <2>1 DEF IsBill, BillOf, PayableSource
  <2> QED BY <2>2, Committed
<1>2. document'[s] = document[s]
  BY <1>1, Committed
<1>3. ~Settles(r.next, s)
  <2> SUFFICES ASSUME Settles(r.next, s) PROVE FALSE
    OBVIOUS
  <2>1. r.next.kind \in Settling /\ r.next.link = s /\ IsLinked(r.next)
    BY DocumentsAssumption DEF Settles, IsLinked
  <2>2. ~PayableSource(r.next)
    BY <2>1 DEF PayableSource, Settling
  <2>3. CASE IsBill(r)
    <3>1. r.prior.revision > 0 /\ r.prior.kind \in {"bill", "expense"}
      BY <2>2, <2>3 DEF IsBill, PayableSource
    <3> QED BY <2>1, <3>1, Tight DEF Settling
  <2>4. CASE ~IsBill(r)
    <3>1. r.at = "unguarded"
      BY <2>1, <2>4 DEF BillOf
    <3>2. r.src.revision > 0 => s \in loose \/ document[s].kind # "bill"
      BY <2>1, <3>1, Committed DEF SettlesNoBill
    <3>3. r.src.revision # 0 /\ r.src.revision \in Nat
      BY Tight, RequestTyped
    <3> QED BY <1>2, <3>2, <3>3, Tight
  <2> QED BY <2>3, <2>4
<1>4. ~Settles(r.prior, s)
  <2> SUFFICES ASSUME Settles(r.prior, s) PROVE FALSE
    OBVIOUS
  <2>1. r.prior.revision > 0
    BY Committed DEF Settles, NoDocument, Settling
  <2>2. r.prior.kind = r.next.kind /\ r.prior.link = r.next.link
    BY <2>1, Tight
  <2> QED BY <1>3, <2>2 DEF Settles
<1>5. ASSUME NEW k \in Settling, NEW d \in Doc
      PROVE  Counts(document'[d], s, k) = Counts(document[d], s, k)
  <2>1. CASE d = r.doc
    <3>1. document'[d] = r.next /\ document[d] = r.prior
      BY <2>1, Committed
    <3> QED BY <1>3, <1>4, <3>1 DEF Counts, Settles
  <2>2. CASE d # r.doc
    BY <2>2, Committed
  <2> QED BY <2>1, <2>2
<1> QED BY <1>2, <1>5

LEMMA OtherTotalsKept ==
  ASSUME IInv, NEW r \in Request, Commits(r), NEW s \in Doc, s \notin loose',
         document'[s].kind = "bill", r.at = "unguarded" \/ s # BillOf(r)
  PROVE  \A k \in Settling : \A D \in SUBSET Doc :
            SumCents(Counted(s, k)', D) = SumCents(Counted(s, k), D)
<1> SUFFICES ASSUME NEW k \in Settling, NEW D \in SUBSET Doc
             PROVE  SumCents(Counted(s, k)', D) = SumCents(Counted(s, k), D)
  OBVIOUS
<1>1. PICK f : f = Counted(s, k)
  OBVIOUS
<1>2. PICK g : g = Counted(s, k)'
  OBVIOUS
<1>3. \A d \in Doc : f[d] = Counts(document[d], s, k)
  BY <1>1 DEF Counted
<1>4. \A d \in Doc : g[d] = Counts(document'[d], s, k)
  BY <1>2 DEF Counted, Counts, Cents
<1>5. \A d \in D : g[d] = f[d]
  BY <1>3, <1>4, OthersKept
<1> QED BY <1>1, <1>2, <1>5, SumAgrees

(* What is linked stays in place.                                            *)
LEMMA LinksKept ==
  ASSUME IInv, LinksSound, NEW r \in Request, Commits(r)
  PROVE  LinksSound'
<1> SUFFICES ASSUME NEW d \in Doc, NEW s \in Doc, s \notin loose', Settles(document'[d], s)
             PROVE  document'[s].revision > 0
  BY DEF LinksSound, Settles
<1>1. document[s].revision \in Nat /\ document'[s].revision \in Nat
  BY Committed, DocumentTyped DEF IInv, TypeOK
<1>2. document[s].revision > 0 => document'[s].revision > 0
  BY <1>1, Committed DEF DocumentsGrow
<1>3. CASE Settles(document[d], s)
  BY <1>2, <1>3, Tight DEF LinksSound
<1>4. CASE s = r.doc
  BY <1>4, Committed
<1>5. CASE ~Settles(document[d], s) /\ s # r.doc
  <2>1. d = r.doc /\ Settles(r.next, s) /\ ~Settles(r.prior, s)
    BY <1>5, Committed
  <2>2. r.next.kind \in Settling /\ r.next.link = s /\ IsLinked(r.next)
    BY <2>1, DocumentsAssumption DEF Settles, IsLinked
  <2>3. ~(r.prior.revision > 0)
    BY <2>1, Tight DEF Settles
  <2>4. ~IsBill(r)
    BY <2>2, <2>3 DEF IsBill, PayableSource, Settling
  <2>5. r.src.revision # 0 /\ r.src.revision \in Nat
    BY <2>1, Tight, RequestTyped
  <2>6. r.src.revision <= document[s].revision
    <3>1. CASE r.at = "sums"
      BY <2>2, <2>4, <3>1, Committed DEF SourceKnown
    <3>2. CASE r.at = "unguarded"
      BY <2>2, <3>2, Committed DEF SettlesNoBill
    <3> QED BY <3>1, <3>2 DEF Commits
  <2> QED BY <1>1, <1>2, <2>5, <2>6
<1> QED BY <1>3, <1>4, <1>5

(* So do the totals of the other requests, while their guard is not written. *)
LEMMA SummedKept ==
  ASSUME IInv, NEW r \in Request, Commits(r), GuardsGrow, guard' \in [Doc -> Guard],
         r.at = "sums" => guard'[BillOf(r)].version > 0,
         NEW p \in Request, Sound(p), Summed(p)
  PROVE  Summed(p)'
<1>1. Adopts(p)' = Adopts(p) /\ BillOf(p)' = BillOf(p)
  BY DEF Adopts, IsBill, BillOf, PayableSource
<1> SUFFICES ASSUME p.at = "sums", Adopts(p), NEW s \in Doc, s = BillOf(p),
                    guard'[s].version = 0, s \notin loose', document'[s].kind = "bill"
             PROVE  /\ p.paid = SumCents(Counted(s, "outflow")', Doc \ p.unread)
                    /\ p.credit = SumCents(Counted(s, "credit")', Doc \ p.unread)
  BY <1>1 DEF Summed
<1>2. r.at = "unguarded" \/ s # BillOf(r)
  BY DEF Commits
<1>3. guard[s].version = 0
  BY DEF GuardsGrow, IInv, TypeOK, Guard
<1>4. document[s].kind = "bill" /\ s \notin loose
  BY <1>2, OthersKept, Tight
<1>5. PICK D \in SUBSET Doc : D = Doc \ p.unread
  OBVIOUS
<1>6. /\ p.paid = SumCents(Counted(s, "outflow"), D)
      /\ p.credit = SumCents(Counted(s, "credit"), D)
  BY <1>3, <1>4, <1>5 DEF Summed
<1>7. \A k \in Settling : SumCents(Counted(s, k)', D) = SumCents(Counted(s, k), D)
  BY <1>2, OtherTotalsKept
<1> QED BY <1>5, <1>6, <1>7 DEF Settling

(* Guard and added sums are together what the documents said before.         *)
LEMMA TotalsBefore ==
  ASSUME IInv, Books, NEW r \in Request, Commits(r), r.at = "sums", r.unread = {}, Summed(r),
         NEW s \in Doc, s = BillOf(r), r.guard = guard[s],
         s \notin loose', document'[s].kind = "bill"
  PROVE  /\ r.guard.paid + r.paid = Settled(s, "outflow")
         /\ r.guard.credit + r.credit = Settled(s, "credit")
<1>1. /\ document[s].revision \in Nat /\ guard[s].version \in Nat /\ s \notin loose
      /\ r.paid \in Int /\ r.credit \in Int
  BY DocumentTyped, RequestTyped, Tight DEF IInv, TypeOK
<1>2. document[s].revision > 0 => document[s].kind = "bill"
  BY Committed DEF KindsNoted
<1>3. Settled(s, "outflow") \in Nat /\ Settled(s, "credit") \in Nat
  BY SettledTyped DEF IInv
<1>4. guard[s].version = 0 => r.guard.paid = 0 /\ r.guard.credit = 0
  BY DEF IInv, GuardsSound, NoGuard
<1>5. CASE Adopts(r)
  <2>1. guard[s].version = 0
    BY <1>5 DEF Adopts
  <2>2. document[s].revision > 0
    <3>1. CASE IsBill(r)
      <4>1. s = r.doc /\ r.prior.revision # 0
        BY <1>5, <2>1, <3>1 DEF Adopts, BillOf
      <4> QED BY <1>1, <4>1, Committed
    <3>2. CASE ~IsBill(r)
      <4>1. s = r.next.link
        BY <3>2 DEF BillOf
      <4>2. r.src.revision > 0 /\ r.src.revision <= document[s].revision
        BY <3>2, <4>1, Committed DEF SourceKnown, PayableSource
      <4> QED BY <1>1, <4>2, RequestTyped
    <3> QED BY <3>1, <3>2
  <2>3. Doc \ r.unread = Doc
    OBVIOUS
  <2>4. r.paid = Settled(s, "outflow") /\ r.credit = Settled(s, "credit")
    BY <1>1, <1>2, <1>5, <2>1, <2>2, <2>3 DEF Summed, Settled
  <2> QED BY <1>3, <1>4, <2>1, <2>4
<1>6. CASE ~Adopts(r) /\ guard[s].version > 0
  <2>1. r.paid = 0 /\ r.credit = 0
    BY <1>6 DEF Commits, Sound, NothingAdded
  <2>2. document[s].kind = "bill"
    BY <1>2, <1>6 DEF IInv, GuardsSound
  <2>3. guard[s].paid = Settled(s, "outflow") /\ guard[s].credit = Settled(s, "credit")
    BY <1>1, <1>6, <2>2 DEF Books, GuardExact
  <2> QED BY <1>3, <2>1, <2>3
<1>7. CASE ~Adopts(r) /\ guard[s].version = 0
  <2>1. r.paid = 0 /\ r.credit = 0
    BY <1>7 DEF Commits, Sound, NothingAdded
  <2>2. IsBill(r) /\ r.prior.revision = 0
    BY <1>7 DEF Adopts
  <2>3. document[s].revision = 0
    BY <2>2, Committed DEF BillOf
  <2>4. \A d \in Doc : ~Settles(document[d], s)
    BY <1>1, <2>3 DEF Books, LinksSound
  <2>5. \A k \in Settling : Settled(s, k) = 0
    <3> SUFFICES ASSUME NEW k \in Settling PROVE Settled(s, k) = 0
      OBVIOUS
    <3>1. \A d \in Doc : Counted(s, k)[d] = 0
      BY <2>4 DEF Counted, Counts, Settles
    <3>2. SumCents(Counted(s, k), {}) = SumCents(Counted(s, k), Doc)
      BY <3>1, SumOfCounting
    <3> QED BY <3>2, SumNothing DEF Settled
  <2> QED BY <1>4, <1>7, <2>1, <2>5 DEF Settling
<1> QED BY <1>1, <1>5, <1>6, <1>7

(* The write of one document changes the totals by what it counts.           *)
LEMMA SettledChanges ==
  ASSUME IInv, NEW r \in Request, Commits(r), NEW s \in Doc
  PROVE  \A k \in Settling :
            /\ Settled(s, k)' = Settled(s, k) + Counts(r.next, s, k) - Counts(r.prior, s, k)
            /\ Settled(s, k) \in Nat
<1> SUFFICES ASSUME NEW k \in Settling
             PROVE  /\ Settled(s, k)' = Settled(s, k) + Counts(r.next, s, k)
                                                      - Counts(r.prior, s, k)
                    /\ Settled(s, k) \in Nat
  OBVIOUS
<1>1. PICK f : f = Counted(s, k)
  OBVIOUS
<1>2. PICK g : g = Counted(s, k)'
  OBVIOUS
<1>3. \A d \in Doc : f[d] = Counts(document[d], s, k) /\ f[d] \in Nat
  BY <1>1, CountedTyped DEF IInv
<1>4. \A d \in Doc : g[d] = Counts(document'[d], s, k)
  BY <1>2 DEF Counted, Counts, Cents
<1>5. \A d \in Doc : g[d] \in Nat
  BY <1>4, Committed, CountsTyped
<1>6. r.doc \in Doc /\ f[r.doc] = Counts(r.prior, s, k) /\ g[r.doc] = Counts(r.next, s, k)
  BY <1>3, <1>4, Committed
<1>7. \A d \in Doc : d # r.doc => f[d] = g[d]
  BY <1>3, <1>4, Committed
<1>8. SumCents(g, Doc) = SumCents(f, Doc) + g[r.doc] - f[r.doc]
  BY <1>3, <1>5, <1>6, <1>7, SumChanged, DocumentsAssumption
<1>9. Settled(s, k)' = SumCents(g, Doc) /\ Settled(s, k) = SumCents(f, Doc)
  BY <1>1, <1>2 DEF Settled
<1> QED BY <1>6, <1>8, <1>9, SettledTyped DEF IInv

(* What a document that keeps its kind and link, or is new, adds to a total  *)
(* is the difference the guard is moved by.                                  *)
LEMMA DeltaCounted ==
  ASSUME IInv, NEW r \in Request, Commits(r), r.at = "sums", ~LinkMoved(r),
         NEW s \in Doc, s = BillOf(r), s \notin loose', document'[s].kind = "bill"
  PROVE  /\ Counts(r.next, s, "outflow") - Counts(r.prior, s, "outflow")
               = IF Pays(r.next) THEN Delta(r) ELSE 0
         /\ Counts(r.next, s, "credit") - Counts(r.prior, s, "credit")
               = IF r.next.kind = "credit" THEN Delta(r) ELSE 0
         /\ BillCents(r) = IF IsBill(r) THEN Cents(document'[s]) ELSE Cents(r.src)
         /\ ~IsBill(r) => document'[s] = document[s]
<1>1. Cents(r.next) \in Nat /\ Cents(r.prior) \in Nat
  BY Committed, DocumentTyped
<1>2. r.prior.revision > 0 \/ (r.prior = NoDocument /\ Cents(r.prior) = 0)
  <2>1. r.prior.revision > 0 \/ r.prior = NoDocument
    BY Committed
  <2>2. Cents(NoDocument) = 0
    BY DEF NoDocument, Cents
  <2> QED BY <2>1, <2>2
<1>3. CASE IsBill(r)
  <2>1. s = r.doc /\ document'[s] = r.next /\ r.next.kind = "bill"
    BY <1>3, Committed DEF BillOf
  <2>2. r.prior.kind \in {"bill", "other"}
    BY <1>2, <2>1, Tight DEF NoDocument
  <2>3. \A k \in Settling : Counts(r.next, s, k) = 0 /\ Counts(r.prior, s, k) = 0
    BY <2>1, <2>2 DEF Counts, Settling
  <2> QED BY <1>3, <2>1, <2>3 DEF Pays, Settling, BillCents
<1>4. CASE ~IsBill(r)
  <2>1. IsLinked(r.next) /\ s = r.next.link
    BY <1>4, Committed DEF BillOf
  <2>2. Settles(r.next, s)
    BY <2>1 DEF Settles, IsLinked
  <2>3. s # r.doc
    <3> SUFFICES ASSUME s = r.doc PROVE FALSE
      OBVIOUS
    <3>1. r.next.kind = "bill"
      BY Committed
    <3> QED BY <2>1, <3>1 DEF IsLinked, Settling
  <2>4. \A k \in Settling : Counts(r.next, s, k) = IF r.next.kind = k THEN Cents(r.next) ELSE 0
    BY <2>1 DEF Counts
  <2>5. \A k \in Settling : Counts(r.prior, s, k) = IF r.next.kind = k THEN Cents(r.prior) ELSE 0
    <3>1. CASE r.prior.revision > 0
      BY <2>1, <2>2, <3>1, Tight DEF Counts
    <3>2. CASE r.prior = NoDocument /\ Cents(r.prior) = 0
      BY <3>2 DEF Counts
    <3> QED BY <1>2, <3>1, <3>2
  <2>6. r.next.kind \in {"outflow", "credit"}
    BY <2>1 DEF IsLinked, Settling
  <2>7. \A k \in Settling :
           Counts(r.next, s, k) - Counts(r.prior, s, k)
              = IF r.next.kind = k THEN Delta(r) ELSE 0
    BY <1>1, <2>4, <2>5 DEF Delta
  <2>8. Pays(r.next) <=> r.next.kind = "outflow"
    BY <2>6 DEF Pays
  <2> QED BY <1>4, <2>3, <2>7, <2>8, Committed DEF Settling, BillCents
<1> QED BY <1>3, <1>4

(* So a guarded transaction writes the totals as they then are.              *)
LEMMA TotalsWritten ==
  ASSUME IInv, Books, NEW r \in Request, Commits(r), r.at = "sums", r.unread = {}, Summed(r),
         BalanceAllows(r),
         NEW s \in Doc, s = BillOf(r), r.guard = guard[s], ~IsBill(r) => r.src = document[s],
         s \notin loose', document'[s].kind = "bill"
  PROVE  /\ BillCents(r) = Cents(document'[s])
         /\ NewPaid(r) = Settled(s, "outflow")' /\ NewCredit(r) = Settled(s, "credit")'
         /\ Settled(s, "outflow")' > Settled(s, "outflow") => Pays(r.next) /\ Delta(r) > 0
<1>1. ~LinkMoved(r)
  BY DEF BalanceAllows
<1>2. /\ r.guard.paid + r.paid = Settled(s, "outflow")
      /\ r.guard.credit + r.credit = Settled(s, "credit")
  BY TotalsBefore
<1>3. PICK m : m = IF Pays(r.next) THEN Delta(r) ELSE 0
  OBVIOUS
<1>4. PICK n : n = IF r.next.kind = "credit" THEN Delta(r) ELSE 0
  OBVIOUS
<1>5. m \in Int /\ n \in Int
  BY <1>3, <1>4, NewTotalsTyped
<1>6. /\ Counts(r.next, s, "outflow") - Counts(r.prior, s, "outflow") = m
      /\ Counts(r.next, s, "credit") - Counts(r.prior, s, "credit") = n
  BY <1>1, <1>3, <1>4, DeltaCounted
<1>7. \A k \in Settling : Counts(r.next, s, k) \in Nat /\ Counts(r.prior, s, k) \in Nat
  BY Committed, CountsTyped
<1>8. \A k \in Settling :
         /\ Settled(s, k)' = Settled(s, k) + Counts(r.next, s, k) - Counts(r.prior, s, k)
         /\ Settled(s, k) \in Nat
  BY SettledChanges
<1>9. /\ Settled(s, "outflow")' = Settled(s, "outflow") + m
      /\ Settled(s, "credit")' = Settled(s, "credit") + n
      /\ Settled(s, "outflow") \in Nat /\ Settled(s, "credit") \in Nat
  BY <1>6, <1>7, <1>8 DEF Settling
<1>10. NewPaid(r) = Settled(s, "outflow") + m /\ NewCredit(r) = Settled(s, "credit") + n
  BY <1>2, <1>3, <1>4 DEF NewPaid, NewCredit
<1>11. Settled(s, "outflow")' > Settled(s, "outflow") => Pays(r.next) /\ Delta(r) > 0
  BY <1>3, <1>5, <1>9
<1>12. BillCents(r) = Cents(document'[s])
  BY <1>1, DeltaCounted
<1> QED BY <1>9, <1>10, <1>11, <1>12

LEMMA CommitUnguardedMakes ==
  ASSUME IInv, NEW w \in Worker, CommitUnguarded(w)
  PROVE  \E r \in Request : /\ r = request[w] /\ r.at = "unguarded" /\ Commits(r)
                            /\ guard' = guard /\ request' = [request EXCEPT ![w] = Idle]
<1>1. PICK r : r = request[w]
  OBVIOUS
<1>2. /\ r.at = "unguarded" /\ DocumentCondition(r) /\ WriteDocument(r)
      /\ request' = [request EXCEPT ![w] = Idle] /\ guard' = guard
  BY <1>1 DEF CommitUnguarded
<1>3. r \in Request /\ Sound(r)
  BY <1>1, <1>2, InFlight DEF Idle
<1> QED BY <1>1, <1>2, <1>3 DEF Commits

(* What is left of the books once a transaction has kept the guard exact.    *)
LEMMA WrittenKeepsBooks ==
  ASSUME IInv, Books, NEW w \in Worker, NEW r \in Request, Commits(r),
         GuardsGrow, guard' \in [Doc -> Guard],
         r.at = "sums" => guard'[BillOf(r)].version > 0,
         request' = [request EXCEPT ![w] = Idle], GuardExact'
  PROVE  Books'
<1>1. LinksSound'
  BY LinksKept DEF Books
<1>2. ASSUME NEW v \in Worker, request'[v] # Idle PROVE Summed(request[v])'
  <2>1. request'[v] = request[v]
    BY <1>2 DEF IInv, TypeOK
  <2>2. PICK p : p = request[v]
    OBVIOUS
  <2>3. p \in Request /\ Sound(p) /\ Summed(p)
    BY <1>2, <2>1, <2>2 DEF IInv, TypeOK, Books
  <2>4. Summed(p)'
    BY <2>3, SummedKept
  <2>5. p = request'[v]
    BY <2>1, <2>2
  <2> QED BY <2>4, <2>5
<1>3. \A v \in Worker : (request[v] # Idle)' => Summed(request[v])'
  BY <1>2 DEF Idle
<1> QED BY <1>1, <1>3 DEF Books

(* A guard that was exact and is not written stays so.                       *)
LEMMA ExactKept ==
  ASSUME IInv, Books, NEW r \in Request, Commits(r), NEW s \in Doc,
         guard'[s] = guard[s], guard'[s].version > 0,
         s \notin loose', document'[s].kind = "bill", r.at = "unguarded" \/ s # BillOf(r)
  PROVE  /\ guard'[s].bill = Cents(document'[s])
         /\ guard'[s].paid = Settled(s, "outflow")' /\ guard'[s].credit = Settled(s, "credit")'
<1>1. document'[s] = document[s] /\ s \notin loose
  BY OthersKept, Tight
<1>2. \A k \in Settling : Settled(s, k)' = Settled(s, k)
  BY OtherTotalsKept DEF Settled
<1>3. /\ guard[s].bill = Cents(document[s])
      /\ guard[s].paid = Settled(s, "outflow") /\ guard[s].credit = Settled(s, "credit")
  BY <1>1 DEF Books, GuardExact
<1> QED BY <1>1, <1>2, <1>3 DEF Settling

LEMMA CommitUnguardedKeepsBooks ==
  ASSUME IInv, Books, NEW w \in Worker, CommitUnguarded(w)
  PROVE  Books'
<1>1. PICK r \in Request : /\ r = request[w] /\ r.at = "unguarded" /\ Commits(r)
                           /\ guard' = guard /\ request' = [request EXCEPT ![w] = Idle]
  BY CommitUnguardedMakes
<1>2. \A s \in Doc :
         s \notin loose' /\ document'[s].kind = "bill" /\ guard'[s].version > 0 =>
            /\ guard'[s].bill = Cents(document'[s])
            /\ guard'[s].paid = Settled(s, "outflow")'
            /\ guard'[s].credit = Settled(s, "credit")'
  BY <1>1, ExactKept
<1>3. GuardExact'
  BY <1>2 DEF GuardExact, Cents
<1>4. GuardsGrow /\ guard' \in [Doc -> Guard]
  BY <1>1 DEF GuardsGrow, IInv, TypeOK
<1> QED BY <1>1, <1>3, <1>4, WrittenKeepsBooks

LEMMA CommitGuardedKeepsBooks ==
  ASSUME IInv, Books, NEW w \in Worker, CommitGuarded(w)
  PROVE  Books'
<1>0. PICK r \in Request, s \in Doc : Guarded(w, r, s)
  BY CommitGuardedMakes
<1>1. /\ r = request[w] /\ Sound(r) /\ r.at = "sums" /\ r.unread = {} /\ s = BillOf(r)
      /\ DocumentCondition(r) /\ WriteDocument(r) /\ BalanceAllows(r)
      /\ r.guard = guard[s]
      /\ ~IsBill(r) => r.src = document[s] /\ PayableSource(r.src)
      /\ \A t \in Doc : guard'[t] = IF t = s
                                    THEN [version |-> guard[s].version + 1,
                                          bill |-> BillCents(r),
                                          paid |-> NewPaid(r), credit |-> NewCredit(r)]
                                    ELSE guard[t]
      /\ guard' \in [Doc -> Guard]
      /\ request' = [request EXCEPT ![w] = Idle]
  BY <1>0 DEF Guarded
<1>2. Commits(r) /\ Summed(r)
  BY <1>1, RequestNotIdle DEF Commits, Books
<1>3. /\ guard[s].version \in Nat /\ guard'[s].version = guard[s].version + 1
      /\ guard'[s].bill = BillCents(r)
      /\ guard'[s].paid = NewPaid(r) /\ guard'[s].credit = NewCredit(r)
  BY <1>1 DEF IInv, TypeOK, Guard
<1>4. \A t \in Doc : t # s => guard'[t] = guard[t]
  BY <1>1
<1>5. GuardsGrow
  BY <1>3, <1>4 DEF GuardsGrow
<1>6. ASSUME NEW t \in Doc, t \notin loose', document'[t].kind = "bill", guard'[t].version > 0
      PROVE  /\ guard'[t].bill = Cents(document'[t])
             /\ guard'[t].paid = Settled(t, "outflow")'
             /\ guard'[t].credit = Settled(t, "credit")'
  <2>1. CASE t # s
    BY <1>1, <1>2, <1>4, <1>6, <2>1, ExactKept
  <2>2. CASE t = s
    <3>1. /\ BillCents(r) = Cents(document'[s])
          /\ NewPaid(r) = Settled(s, "outflow")' /\ NewCredit(r) = Settled(s, "credit")'
      BY <1>1, <1>2, <1>6, <2>2, TotalsWritten
    <3> QED BY <1>3, <2>2, <3>1
  <2> QED BY <2>1, <2>2
<1>7. GuardExact'
  BY <1>6 DEF GuardExact, Cents
<1>8. guard'[BillOf(r)].version > 0
  BY <1>1, <1>3
<1> QED BY <1>1, <1>2, <1>5, <1>7, <1>8, WrittenKeepsBooks

----------------------------------------------------------------------------
LEMMA BooksInitially == Init => Books
<1> SUFFICES ASSUME Init PROVE Books
  OBVIOUS
<1>1. LinksSound
  BY DEF Init, LinksSound
<1>2. GuardExact
  BY DEF Init, GuardExact, NoGuard
<1> QED BY <1>1, <1>2 DEF Init, Books

LEMMA BooksPreserved == IInv /\ Books /\ [Next]_vars => Books'
<1> SUFFICES ASSUME IInv, Books, [Next]_vars PROVE Books'
  OBVIOUS
<1>1. CASE UNCHANGED vars
  <2>1. LinksSound' /\ GuardExact'
    BY <1>1 DEF vars, Books, LinksSound, GuardExact, Settles, Settled, Counted, Counts, Cents
  <2>2. \A s, k : Counted(s, k)' = Counted(s, k)
    BY <1>1 DEF vars, Counted, Counts, Cents
  <2>3. ASSUME NEW w \in Worker, request'[w] # Idle PROVE Summed(request[w])'
    <3>1. PICK p : p = request[w]
      OBVIOUS
    <3>2. p = request'[w] /\ Summed(p)
      BY <1>1, <2>3, <3>1 DEF vars, Books
    <3>3. Adopts(p)' = Adopts(p) /\ BillOf(p)' = BillOf(p)
      BY DEF Adopts, IsBill, BillOf, PayableSource
    <3>4. Summed(p)'
      BY <1>1, <2>2, <3>2, <3>3 DEF vars, Summed
    <3> QED BY <3>2, <3>4
  <2>4. \A w \in Worker : (request[w] # Idle)' => Summed(request[w])'
    BY <2>3 DEF Idle
  <2> QED BY <2>1, <2>4 DEF Books, Idle
<1>2. CASE Next
  <2>1. PICK w \in Worker : Step(w)
    BY <1>2 DEF Next
  <2>2. CASE \E d \in Doc : Command(w, d) \/ Post(w, d) \/ Patch(w, d) \/ Put(w, d)
    BY <2>2, CommandKeepsBooks
  <2>3. CASE \/ ReadPrior(w) \/ ReadGuard(w) \/ ReadSource(w) \/ ListDocuments(w)
             \/ \E d \in Doc : ReadDocument(w, d)
    BY <2>3, ReadsKeepBooks
  <2>4. CASE CommitGuarded(w)
    BY <2>4, CommitGuardedKeepsBooks
  <2>5. CASE CommitUnguarded(w)
    BY <2>5, CommitUnguardedKeepsBooks
  <2>6. CASE Abandon(w)
    BY <2>6, AbandonKeepsBooks
  <2> QED BY <2>1, <2>2, <2>3, <2>4, <2>5, <2>6 DEF Step
<1> QED BY <1>1, <1>2

LEMMA BooksKept == Spec => [](IInv /\ Books)
  BY Initially, Preserved, BooksInitially, BooksPreserved, PTL DEF Spec

(* Only a transaction writes documents.                                      *)
LEMMA DocumentsWrittenByCommits ==
  ASSUME [Next]_vars
  PROVE  document' = document \/ \E w \in Worker : CommitGuarded(w) \/ CommitUnguarded(w)
<1>1. ASSUME NEW w \in Worker, Step(w), ~CommitGuarded(w), ~CommitUnguarded(w)
      PROVE  document' = document
  <2>1. ASSUME NEW d \in Doc, Command(w, d) \/ Post(w, d) \/ Patch(w, d) \/ Put(w, d)
        PROVE  document' = document
    BY <2>1 DEF Command, Post, Patch, Put, Begin
  <2>2. ASSUME \/ ReadPrior(w) \/ ReadGuard(w) \/ ReadSource(w) \/ ListDocuments(w)
               \/ \E d \in Doc : ReadDocument(w, d)
               \/ Abandon(w)
        PROVE  document' = document
    BY <2>2 DEF ReadPrior, ReadGuard, ReadSource, ListDocuments, ReadDocument, Abandon, Proceed
  <2> QED BY <1>1, <2>1, <2>2 DEF Step
<1> QED BY <1>1 DEF Next, vars

----------------------------------------------------------------------------
(* Documents, guards, idempotency items and requests are well formed, however *)
(* many requests read and commit (IXIFinancialDynamoStore.js).               *)
THEOREM TypesHold == Spec => []TypeOK
<1>1. IInv => TypeOK
  BY DEF IInv
<1> QED BY <1>1, Invariance, PTL

(* No two documents, and no two revisions of one, ever come of one key: the  *)
(* idempotency item is part of the transaction that writes the document      *)
(* (IXIFinancialDynamoStore.js).                                             *)
THEOREM KeyedOnce == Spec => []OneWritePerKey
<1>1. IInv => OneWritePerKey
  BY DEF IInv
<1> QED BY <1>1, Invariance, PTL

(* The guard of a Bill says exactly what the canonical documents say, also   *)
(* when it was adopted from documents read one by one while other requests   *)
(* were committing, and whatever POST, PATCH and PUT make of the documents   *)
(* of other Bills (IXIFinancialPayableBalanceControl.js).                    *)
THEOREM GuardsExact == Spec => []GuardExact
<1>1. Books => GuardExact
  BY DEF Books
<1> QED BY <1>1, BooksKept, PTL

(* Credits never exceed the Bill they correct while its settlements keep     *)
(* what they settle: payableBalanceTransactionItems bounds what the guard    *)
(* says, and the guard says what the documents say.                          *)
THEOREM CreditsBounded == Spec => []CreditsWithinBill
<1>1. IInv /\ Books => CreditsWithinBill
  <2> SUFFICES ASSUME IInv, Books, NEW s \in Doc, s \notin loose,
                      document[s].kind = "bill", guard[s].version > 0
               PROVE  Settled(s, "credit") <= Cents(document[s])
    BY DEF CreditsWithinBill
  <2>1. guard[s].credit <= guard[s].bill
    BY DEF IInv, GuardsSound
  <2>2. guard[s].bill = Cents(document[s]) /\ guard[s].credit = Settled(s, "credit")
    BY DEF Books, GuardExact
  <2> QED BY <2>1, <2>2
<1> QED BY <1>1, BooksKept, PTL

(* Whatever requests run together, a step that raises what was paid on a     *)
(* Bill whose settlements keep what they settle leaves it no more than fully *)
(* settled (IXIFinancialPayableBalanceControl.js): the remaining balance is  *)
(* spent once.                                                               *)
THEOREM BillsNotOverpaid == Spec => NoOverpayment
<1>1. ASSUME IInv, Books, [Next]_vars, NEW s \in Doc, s \notin loose',
             document'[s].kind = "bill", Settled(s, "outflow")' > Settled(s, "outflow")
      PROVE  Settled(s, "outflow")' + Settled(s, "credit")' <= Cents(document'[s])
  <2>1. Settled(s, "outflow") \in Nat
    BY <1>1, SettledTyped DEF IInv
  <2>2. document' # document
    <3>1. document' = document => Settled(s, "outflow")' = Settled(s, "outflow")
      BY DEF Settled, Counted, Counts, Cents
    <3> QED BY <1>1, <2>1, <3>1
  <2>3. PICK w \in Worker : CommitGuarded(w) \/ CommitUnguarded(w)
    BY <1>1, <2>2, DocumentsWrittenByCommits
  <2>4. ASSUME NEW r \in Request, Commits(r), r.at = "unguarded" \/ s # BillOf(r)
        PROVE  FALSE
    <3>1. Settled(s, "outflow")' = Settled(s, "outflow")
      BY <1>1, <2>4, OtherTotalsKept DEF Settled, Settling
    <3> QED BY <1>1, <2>1, <3>1
  <2>5. CommitGuarded(w)
    <3>1. ASSUME CommitUnguarded(w) PROVE FALSE
      BY <1>1, <2>4, <3>1, CommitUnguardedMakes
    <3> QED BY <2>3, <3>1
  <2>0. PICK r \in Request, t \in Doc : Guarded(w, r, t)
    BY <1>1, <2>5, CommitGuardedMakes
  <2>6. /\ r = request[w] /\ Sound(r) /\ r.at = "sums" /\ r.unread = {} /\ t = BillOf(r)
        /\ DocumentCondition(r) /\ WriteDocument(r) /\ BalanceAllows(r)
        /\ r.guard = guard[t]
        /\ ~IsBill(r) => r.src = document[t]
    BY <2>0 DEF Guarded
  <2>7. Commits(r) /\ Summed(r) /\ s = t
    <3>1. Commits(r) /\ Summed(r)
      BY <1>1, <2>6, RequestNotIdle DEF Commits, Books
    <3> QED BY <2>4, <2>6, <3>1
  <2>8. /\ BillCents(r) = Cents(document'[s])
        /\ NewPaid(r) = Settled(s, "outflow")' /\ NewCredit(r) = Settled(s, "credit")'
        /\ Pays(r.next) /\ Delta(r) > 0
    BY <1>1, <2>6, <2>7, TotalsWritten
  <2> QED BY <2>6, <2>8 DEF BalanceAllows
<1>2. IInv /\ Books /\ [Next]_vars =>
         [\A s \in Doc \ loose' :
            document'[s].kind = "bill" /\ Settled(s, "outflow")' > Settled(s, "outflow") =>
               Settled(s, "outflow")' + Settled(s, "credit")' <= Cents(document'[s])]_vars
  BY <1>1
<1> QED BY <1>2, BooksKept, PTL DEF Spec, NoOverpayment

(* Once its guard shows payments, an Expense keeps the way it was paid, also *)
(* when an amendment read it, and its guard, before the payment was          *)
(* committed (IXIFinancialPayableBalanceControl.js).                         *)
THEOREM MethodsKept == Spec => MethodKeptOncePaid
<1>1. ASSUME IInv, [Next]_vars, NEW s \in Doc, guard[s].version > 0, guard[s].paid > 0,
             document[s].kind = "expense", document'[s].kind = "expense",
             document[s].method \in Owed \/ document'[s].method \in Owed
      PROVE  document'[s].method = document[s].method
  <2>1. CASE document' = document
    BY <2>1
  <2>2. ASSUME NEW r \in Request, Commits(r), s = r.doc,
               IsBill(r) => /\ r.at = "sums" /\ BalanceAllows(r) /\ r.guard = guard[s]
        PROVE  document'[s].method = document[s].method
    <3>1. /\ r.prior = document[s] /\ document'[s] = r.next /\ r.next.revision > 0
          /\ r.prior.revision > 0
      <4>1. /\ r.prior = document[s] /\ document'[s] = r.next /\ r.next.revision > 0
            /\ r.prior.revision \in Nat /\ (r.prior.revision = 0 => r.prior = NoDocument)
        BY <1>1, <2>2, Committed
      <4> QED BY <1>1, <4>1 DEF NoDocument
    <3>2. IsBill(r)
      BY <1>1, <3>1 DEF IsBill, PayableSource
    <3>3. r.paid = 0
      BY <1>1, <2>2, <3>2 DEF Commits, Sound, Adopts, NothingAdded
    <3>4. NewPaid(r) > 0
      <4>1. r.guard.paid \in Int /\ r.guard.paid > 0 /\ ~Pays(r.next)
        BY <1>1, <2>2, <3>1, <3>2 DEF IInv, TypeOK, Guard, Pays
      <4> QED BY <3>3, <4>1 DEF NewPaid
    <3> QED BY <1>1, <2>2, <3>1, <3>2, <3>4 DEF BalanceAllows, MethodFrozen
  <2>3. ASSUME NEW r \in Request, Commits(r), s # r.doc
        PROVE  document'[s].method = document[s].method
    BY <1>1, <2>3, Committed
  <2>4. ASSUME NEW w \in Worker, CommitUnguarded(w)
        PROVE  document'[s].method = document[s].method
    <3>1. PICK r \in Request : r.at = "unguarded" /\ Commits(r)
      BY <1>1, <2>4, CommitUnguardedMakes
    <3>2. ~IsBill(r)
      BY <1>1, <3>1, Committed
    <3> QED BY <2>2, <2>3, <3>1, <3>2
  <2>5. ASSUME NEW w \in Worker, CommitGuarded(w)
        PROVE  document'[s].method = document[s].method
    <3>0. PICK r \in Request, t \in Doc : Guarded(w, r, t)
      BY <1>1, <2>5, CommitGuardedMakes
    <3>1. /\ Sound(r) /\ r.at = "sums" /\ t = BillOf(r) /\ r.guard = guard[t]
          /\ DocumentCondition(r) /\ WriteDocument(r) /\ BalanceAllows(r)
      BY <3>0 DEF Guarded
    <3>2. Commits(r)
      BY <3>1 DEF Commits
    <3>3. IsBill(r) => t = r.doc
      BY <3>1 DEF BillOf
    <3> QED BY <2>2, <2>3, <3>1, <3>2, <3>3
  <2> QED BY <1>1, <2>1, <2>4, <2>5, DocumentsWrittenByCommits
<1>2. IInv /\ [Next]_vars =>
         [\A s \in Doc :
            /\ guard[s].version > 0 /\ guard[s].paid > 0
            /\ document[s].kind = "expense" /\ document'[s].kind = "expense"
            /\ document[s].method \in Owed \/ document'[s].method \in Owed
            => document'[s].method = document[s].method]_vars
  BY <1>1
<1> QED BY <1>2, Invariance, PTL DEF Spec, MethodKeptOncePaid

=============================================================================
