---------------------------- MODULE MosMovements ----------------------------
(***************************************************************************)
(* Movements of one machine between containers, and the command ledger that *)
(* makes each of them happen once (mos/movements/movementService.js,        *)
(* mos/commands/idempotencyService.js).                                     *)
(*                                                                          *)
(* A movement is one synchronous call of the API process, so that no other  *)
(* request comes between its writes; but a write may fail, or the process   *)
(* may die, after any of them.  A call is therefore one action, which makes *)
(* the first n of its writes.                                               *)
(***************************************************************************)
EXTENDS Naturals, Sequences

CONSTANTS Container,    \* where the machine can be
          Client,       \* command IDs chosen by clients
          Yard          \* where the machine is at first

ASSUME YardAssumption == Yard \in Container

VARIABLES command,      \* the ledger: a record for every command ID begun
          location,     \* the machine's directContainerId
          movements,    \* the movement records, in the order they were made
          transfers     \* ghost: the placements made

movementVars == <<command, location, movements, transfers>>

----------------------------------------------------------------------------
(* A command ID names its origin: a client, the dispatch of an order, or the *)
(* delivery of a movement (freightService.js builds the last two).           *)
ClientId(c) == <<"client", c>>

Movement == [by : DOMAIN command, freight : Nat, to : Container,
             status : {"requested", "completed"}]

(* What is moved: the destination, and the freight movement served (0: none).*)
Task(to, m) == [to |-> to, freight |-> m]

(* Mutant of MoveWrites: the evidence is written before the placement.       *)
MoveWritesEvidenceFirst == <<"begun", "recorded", "placed", "completed">>

(* The writes of executeImmediateMove and of requestFreightMove, in order.   *)
MoveWrites == <<"begun", "placed", "recorded", "completed">>
RequestWrites == <<"begun", "recorded", "completed">>

Fresh(id) == id \notin DOMAIN command

(* Mutant of Replays: the payload is not compared.                           *)
ReplaysAnything(id, kind, task) ==
    id \in DOMAIN command /\ command[id].status = "completed"

(* A second use of an ID is answered with the first result, if that is there *)
(* and the payload is the same.  Any other second use is refused.            *)
Replays(id, kind, task) ==
    /\ id \in DOMAIN command
    /\ command[id].kind = kind /\ command[id].task = task
    /\ command[id].status = "completed"

(* Mutant of Remains: the catch block takes the command out of the ledger.   *)
RemainsNothing(id, status, record) ==
    IF status = "completed"
    THEN [c \in DOMAIN command \cup {id} |-> IF c = id THEN record ELSE command[c]]
    ELSE command

(* The ledger entry that a call leaves.                                      *)
Remains(id, status, record) ==
    [c \in DOMAIN command \cup {id} |-> IF c = id THEN record ELSE command[c]]

(* The first n of these writes are made for command id.  If the call stops   *)
(* before the end, its command is left as failed, or, if the process died or *)
(* that could not be written either, as processing; both are refused from    *)
(* then on, and told apart by nothing here.                                  *)
Perform(id, kind, task, writes, n) ==
    LET made == {writes[i] : i \in 1..n}
        status == IF "completed" \in made THEN "completed" ELSE "unfinished"
        record == [kind |-> kind, task |-> task, status |-> status,
                   movement |-> Len(movements) + 1]
        movement == [by |-> id, freight |-> task.freight, to |-> task.to,
                     status |-> IF kind = "move" THEN "completed" ELSE "requested"]
    IN  /\ command' = IF "begun" \in made THEN Remains(id, status, record) ELSE command
        /\ location' = IF "placed" \in made THEN task.to ELSE location
        /\ transfers' = IF "placed" \in made
                        THEN Append(transfers, [by |-> id, freight |-> task.freight,
                                                to |-> task.to, cut |-> "settled" \notin made])
                        ELSE transfers
        /\ movements' =
             LET settled == IF "settled" \in made
                            THEN [movements EXCEPT ![task.freight].status = "completed"]
                            ELSE movements
             IN  IF "recorded" \in made THEN Append(settled, movement) ELSE settled

----------------------------------------------------------------------------
ExecuteImmediateMove(id, task, n) ==
    Fresh(id) /\ Perform(id, "move", task, MoveWrites, n)

RequestFreightMove(id, to, n) ==
    Fresh(id) /\ Perform(id, "request", Task(to, 0), RequestWrites, n)

Freight(m) == m \in DOMAIN movements /\ command[movements[m].by].kind = "request"

(* Mutant of Open: a completed movement is executed again.                   *)
OpenAlways(m) == Freight(m)

Open(m) == Freight(m) /\ movements[m].status = "requested"

(* completeFreightMove: an immediate move, and then the freight movement is  *)
(* marked as completed.  With a command that has been completed before only  *)
(* the mark is left to make.                                                 *)
CompleteWrites == Append(MoveWrites, "settled")
CompleteFreightMove(id, m, n) ==
    LET task == Task(movements[m].to, m) IN
    /\ Open(m)
    /\ \/ Fresh(id) /\ Perform(id, "move", task, CompleteWrites, n)
       \/ /\ Replays(id, "move", task) /\ n = Len(CompleteWrites)
          /\ movements' = [movements EXCEPT ![m].status = "completed"]
          /\ UNCHANGED <<command, location, transfers>>

(* The HTTP endpoints, with command IDs of their clients.                    *)
ClientMove(c, to, n) == ExecuteImmediateMove(ClientId(c), Task(to, 0), n)
ClientRequest(c, to, n) == RequestFreightMove(ClientId(c), to, n)
ClientComplete(c, m, n) == CompleteFreightMove(ClientId(c), m, n)

MovementInit ==
    /\ command = <<>>
    /\ location = Yard
    /\ movements = <<>>
    /\ transfers = <<>>

----------------------------------------------------------------------------
MovementTypeOK ==
    /\ \A id \in DOMAIN command :
          /\ command[id].kind \in {"move", "request"}
          /\ command[id].status \in {"unfinished", "completed"}
    /\ location \in Container
    /\ \A m \in DOMAIN movements : movements[m] \in Movement

(* However often a command is retried, it places the machine at most once;   *)
(* and a freight movement is executed again, under another command, only if  *)
(* the executions before it were cut off before they could mark it           *)
(* (movementService.js, completeFreightMove).                                *)
MovedOnce ==
    \A i, j \in DOMAIN transfers : i < j =>
        /\ transfers[i].by # transfers[j].by
        /\ transfers[i].freight # 0 /\ transfers[i].freight = transfers[j].freight
              => transfers[i].cut

(* A command that reads completed has its one record; a record of a move     *)
(* speaks of a placement that was made; a freight movement that reads        *)
(* completed was executed (movementService.js).                              *)
EvidenceTrue ==
    /\ \A id \in DOMAIN command : command[id].status = "completed" =>
          \A m \in DOMAIN movements :
             movements[m].by = id <=> m = command[id].movement
    /\ \A m \in DOMAIN movements :
          \/ Freight(m) /\ movements[m].status = "requested"
          \/ Freight(m) /\ \E k \in DOMAIN movements :
                movements[k].freight = m /\ movements[k].to = movements[m].to
          \/ \E i \in DOMAIN transfers :
                transfers[i].by = movements[m].by /\ transfers[i].to = movements[m].to
=============================================================================
