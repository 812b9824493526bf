---------------------------- MODULE FreightOrders ----------------------------
(***************************************************************************)
(* Freight orders (freight/services/freightService.js) and the movements    *)
(* they cause (MosMovements).  Orders lie in DynamoDB, movements and their  *)
(* commands in the MOS store; no transaction spans the two.                 *)
(*                                                                          *)
(* Requests of several users interleave at every call of DynamoDB.  A       *)
(* request reads the order, makes its movement call, if any, and replaces   *)
(* the order if its revision is still the one read.  A read that returns an *)
(* old version is a read made earlier.  All orders here are for one machine.*)
(***************************************************************************)
EXTENDS MosMovements

CONSTANTS Order, Request, Invoice,
          AmendId,      \* command IDs of amendments
          AmendStatus,  \* bound: the statuses an amendment may set
          MaxRevision,  \* bound: revisions of an order
          MaxStops      \* bound: movement calls that stop before their end

VARIABLES order,        \* the stored orders
          amended,      \* the command items of amendments
          request,      \* where each request stands
          stops         \* movement calls that have stopped early

vars == <<command, location, movements, transfers, order, amended, request, stops>>

----------------------------------------------------------------------------
Status == {"none", "draft", "requested", "awarded", "dispatched", "picked-up",
           "in-transit", "delivered", "billed", "reconciled", "paid", "closed",
           "cancelled"}

ASSUME OrdersAssumption == Order # {} /\ AmendStatus \subseteq Status \ {"none"}
ASSUME BoundsAssumption == MaxRevision \in Nat /\ MaxStops \in Nat

(* movement: the order's movementId (0: none).  leg: its movement.state.     *)
OrderRecord == [status : Status, revision : Nat, to : Container, movement : Nat,
                leg : {"", "requested", "in-transit", "completed"},
                invoices : SUBSET Invoice]
NoOrder == [status |-> "none", revision |-> 0, to |-> Yard, movement |-> 0,
            leg |-> "", invoices |-> {}]

(* Only the transitions that some handler makes.                             *)
Transitions == {<<"draft", "requested">>, <<"requested", "awarded">>,
                <<"awarded", "dispatched">>, <<"dispatched", "picked-up">>,
                <<"picked-up", "delivered">>, <<"in-transit", "delivered">>,
                <<"delivered", "reconciled">>, <<"billed", "reconciled">>}

DispatchId(o) == <<"dispatch", o>>
DeliverId(m) == <<"deliver", m>>

(* at "loaded": the order read, its movement call yet to be made.  at        *)
(* "write": next is to replace the revision before it.  amendment: the       *)
(* command item written with it.                                             *)
NoAmendment == "no amendment"
Idle == [at |-> "idle", does |-> "", order |-> CHOOSE o \in Order : TRUE,
         read |-> NoOrder, next |-> NoOrder, amendment |-> NoAmendment]
Progress == [at : {"idle", "loaded", "write"}, does : {"", "dispatched", "delivered"},
             order : Order, read : OrderRecord, next : OrderRecord,
             amendment : AmendId \cup {NoAmendment}]

End(r) == request' = [request EXCEPT ![r] = Idle]

(* r has read order o and computed what is to replace it.                    *)
ToWrite(r, o, next, amendment) ==
    /\ request[r].at = "idle"
    /\ order[o].status # "none"
    /\ request' = [request EXCEPT ![r] =
          [Idle EXCEPT !.at = "write", !.order = o,
                       !.next = [next EXCEPT !.revision = order[o].revision + 1],
                       !.amendment = amendment]]
    /\ UNCHANGED <<movementVars, order, amended, stops>>

----------------------------------------------------------------------------
(* create: the order, its event and its command item in one transaction.     *)
Create(o, to) ==
    /\ order[o].status = "none"
    /\ order' = [order EXCEPT ![o] = [NoOrder EXCEPT !.status = "draft", !.revision = 1,
                                                     !.to = to]]
    /\ UNCHANGED <<movementVars, amended, request, stops>>

(* request, award, pickup: a transition and nothing else.                    *)
Advance(r, o, status) ==
    /\ status \in {"requested", "awarded", "picked-up"}
    /\ <<order[o].status, status>> \in Transitions
    /\ ToWrite(r, o, [order[o] EXCEPT !.status = status,
                                      !.leg = IF status = "picked-up" THEN "in-transit" ELSE @],
               NoAmendment)

Reconcile(r, o) ==
    /\ <<order[o].status, "reconciled">> \in Transitions
    /\ order[o].invoices # {}
    /\ ToWrite(r, o, [order[o] EXCEPT !.status = "reconciled"], NoAmendment)

AttachInvoice(r, o, i) ==
    /\ order[o].status \notin {"none", "reconciled", "paid", "closed", "cancelled"}
    /\ i \notin order[o].invoices
    /\ ToWrite(r, o, [order[o] EXCEPT !.invoices = @ \cup {i},
                                      !.status = IF @ = "delivered" THEN "billed" ELSE @],
               NoAmendment)

(* amend: corrects recorded facts in any state, also the status and the      *)
(* destination, and never moves anything.                                    *)
Amend(r, o, a, status, to) ==
    LET next == [order[o] EXCEPT !.status = status, !.to = to] IN
    /\ a \notin amended
    /\ next # order[o]
    /\ ToWrite(r, o, next, a)

(* dispatch and deliver: the order is read, and checked, before the call.    *)
Load(r, o, status) ==
    /\ request[r].at = "idle"
    /\ status \in {"dispatched", "delivered"}
    /\ <<order[o].status, status>> \in Transitions
    /\ status = "delivered" => order[o].movement # 0
    /\ request' = [request EXCEPT ![r] =
          [Idle EXCEPT !.at = "loaded", !.does = status, !.order = o, !.read = order[o]]]
    /\ UNCHANGED <<movementVars, order, amended, stops>>

(* The movement call succeeded: the order may now be replaced.               *)
Proceed(r, movement, leg) ==
    LET q == request[r] IN
    request' = [request EXCEPT ![r] =
        [Idle EXCEPT !.at = "write", !.order = q.order,
                     !.next = [q.read EXCEPT !.status = q.does, !.revision = @ + 1,
                                             !.movement = movement, !.leg = leg]]]

(* n of all the writes of the call were made.                                *)
Succeeds(n, writes) == n = Len(writes)
StopsIf(cut) == stops' = (IF cut THEN stops + 1 ELSE stops) /\ stops' <= MaxStops

DispatchMove(r, n) ==
    LET q == request[r]  id == DispatchId(q.order) IN
    /\ q.at = "loaded" /\ q.does = "dispatched"
    /\ \/ /\ RequestFreightMove(id, q.read.to, n)
          /\ IF Succeeds(n, RequestWrites) THEN Proceed(r, Len(movements) + 1, "requested")
             ELSE End(r)
          /\ StopsIf(~Succeeds(n, RequestWrites))
       \/ /\ Replays(id, "request", Task(q.read.to, 0))
          /\ n = Len(RequestWrites)
          /\ Proceed(r, command[id].movement, "requested")
          /\ UNCHANGED <<movementVars, stops>>
    /\ UNCHANGED <<order, amended>>

(* Mutant of Settled: the outcome of the movement call is not looked at.     *)
SettledAnyway(n) == TRUE

Settled(n) == Succeeds(n, CompleteWrites)

DeliverMove(r, n) ==
    LET q == request[r]  m == q.read.movement IN
    /\ q.at = "loaded" /\ q.does = "delivered"
    /\ \/ /\ CompleteFreightMove(DeliverId(m), m, n)
          /\ IF Settled(n) THEN Proceed(r, m, "completed") ELSE End(r)
          /\ StopsIf(~Succeeds(n, CompleteWrites))
       \/ /\ Freight(m) /\ movements[m].status = "completed"
          /\ n = Len(CompleteWrites)
          /\ Proceed(r, m, "completed")
          /\ UNCHANGED <<movementVars, stops>>
    /\ UNCHANGED <<order, amended>>

Unchanged(q) == order[q.order].revision + 1 = q.next.revision

(* The conditional put of replaceOrder, or the transaction of an amendment,  *)
(* which also requires that its command item is new.                         *)
Replace(r) ==
    LET q == request[r] IN
    /\ q.at = "write"
    /\ Unchanged(q)
    /\ q.next.revision <= MaxRevision
    /\ q.amendment \notin amended
    /\ order' = [order EXCEPT ![q.order] = q.next]
    /\ amended' = IF q.amendment = NoAmendment THEN amended ELSE amended \cup {q.amendment}
    /\ End(r)
    /\ UNCHANGED <<movementVars, stops>>

(* Refused, in conflict, timed out, or the process died.                     *)
Abandon(r) ==
    /\ request[r].at # "idle"
    /\ End(r)
    /\ UNCHANGED <<movementVars, order, amended, stops>>

----------------------------------------------------------------------------
(* Requests to the movement endpoints, beside the orders.                    *)
Writes == 0..Len(CompleteWrites)

ClientCall(c) ==
    /\ \E n \in Writes, to \in Container :
          \/ /\ n <= Len(MoveWrites) /\ ClientMove(c, to, n)
             /\ StopsIf(~Succeeds(n, MoveWrites))
          \/ /\ n <= Len(RequestWrites) /\ ClientRequest(c, to, n)
             /\ StopsIf(~Succeeds(n, RequestWrites))
          \/ \E m \in DOMAIN movements :
                ClientComplete(c, m, n) /\ StopsIf(~Succeeds(n, CompleteWrites))
    /\ UNCHANGED <<order, amended, request>>

MovementCall(r) ==
    \E n \in Writes :
       \/ n <= Len(RequestWrites) /\ DispatchMove(r, n)
       \/ DeliverMove(r, n)

OrderRequest(r) ==
    \E o \in Order :
       \/ \E status \in Status : Advance(r, o, status) \/ Load(r, o, status)
       \/ Reconcile(r, o)
       \/ \E i \in Invoice : AttachInvoice(r, o, i)
       \/ \E a \in AmendId, status \in AmendStatus, to \in Container :
             Amend(r, o, a, status, to)

Init ==
    /\ MovementInit
    /\ order = [o \in Order |-> NoOrder]
    /\ amended = {}
    /\ request = [r \in Request |-> Idle]
    /\ stops = 0

Next ==
    \/ \E o \in Order, to \in Container : Create(o, to)
    \/ \E r \in Request : OrderRequest(r) \/ MovementCall(r) \/ Replace(r) \/ Abandon(r)
    \/ \E c \in Client : ClientCall(c)

Spec == Init /\ [][Next]_vars

----------------------------------------------------------------------------
TypeOK ==
    /\ MovementTypeOK
    /\ order \in [Order -> OrderRecord]
    /\ amended \subseteq AmendId
    /\ request \in [Request -> Progress]
    /\ stops \in 0..MaxStops

(* An order that names a movement names the one its dispatch requested, and  *)
(* an order whose leg reads completed has had that movement executed,        *)
(* although order and movement are written by two stores                     *)
(* (freightService.js, dispatch and deliver).                                *)
OrderMatchesMovement ==
    \A o \in Order : order[o].movement # 0 =>
        /\ Freight(order[o].movement)
        /\ movements[order[o].movement].by = DispatchId(o)
        /\ order[o].leg = "completed" =>
              movements[order[o].movement].status = "completed"

(* No write of an order undoes another: an invoice that was attached stays.  *)
(* An order keeps its movement once it has one, and the movement it gets     *)
(* goes where the order goes, even if an earlier dispatch was interrupted    *)
(* and the order amended since (replaceOrder; the payload comparison of the  *)
(* command).                                                                 *)
InvoicesKept(o) == order[o].invoices \subseteq order'[o].invoices
MovementKept(o) ==
    IF order[o].movement # 0 THEN order'[o].movement = order[o].movement
    ELSE order'[o].movement # 0 => movements'[order'[o].movement].to = order'[o].to
OrderKept == [][\A o \in Order : InvoicesKept(o) /\ MovementKept(o)]_vars
=============================================================================
