------------------------ MODULE FreightOrders_proofs ------------------------
(***************************************************************************)
(* Proofs about FreightOrders and MosMovements, for any orders, requests,   *)
(* containers, command IDs and any number of calls that stop.  The          *)
(* inductive invariant says how a command, its record and its placement     *)
(* belong together, and of every request in flight that what it is about to *)
(* write extends the order if the order is still the one it read.           *)
(***************************************************************************)
EXTENDS FreightOrders, TLAPS

----------------------------------------------------------------------------
(* Movements.                                                                *)
MoveId == ({"client"} \X Client) \cup ({"dispatch"} \X Order) \cup ({"deliver"} \X Nat)
TaskOf == [to : Container, freight : Nat]
Command == [kind : {"move", "request"}, task : TaskOf,
            status : {"unfinished", "completed"}, movement : Nat \ {0}]
Record == [by : MoveId, freight : Nat, to : Container, status : {"requested", "completed"}]
Transfer == [by : MoveId, freight : Nat, to : Container, cut : BOOLEAN]

MovementsTyped ==
    /\ DOMAIN command \subseteq MoveId
    /\ command \in [DOMAIN command -> Command]
    /\ location \in Container
    /\ movements \in Seq(Record)
    /\ transfers \in Seq(Transfer)

(* A record belongs to the one command that names it.                        *)
Recorded(m) ==
    LET id == movements[m].by IN
    /\ id \in DOMAIN command
    /\ command[id].movement = m
    /\ command[id].task = Task(movements[m].to, movements[m].freight)
    /\ movements[m].status = "requested" => command[id].kind = "request"
RecordsNamed == \A m \in DOMAIN movements : Recorded(m)

CompletedNamed ==
    \A id \in DOMAIN command : command[id].status = "completed" =>
        /\ command[id].movement \in DOMAIN movements
        /\ movements[command[id].movement].by = id

(* A move was made; a freight movement that reads completed was executed.    *)
Evident(m) ==
    IF Freight(m)
    THEN movements[m].status = "completed" =>
            \E k \in DOMAIN movements :
                movements[k].freight = m /\ movements[k].to = movements[m].to
    ELSE \E i \in DOMAIN transfers :
            transfers[i].by = movements[m].by /\ transfers[i].to = movements[m].to
MovesEvident == \A m \in DOMAIN movements : Evident(m)

(* A placement that was not cut off has settled its freight movement.        *)
Transferred(i) ==
    LET m == transfers[i].freight IN
    /\ transfers[i].by \in DOMAIN command
    /\ m # 0 => m \in DOMAIN movements
    /\ m # 0 /\ ~transfers[i].cut => movements[m].status = "completed"
TransfersNamed == \A i \in DOMAIN transfers : Transferred(i)

MInv == /\ MovementsTyped /\ RecordsNamed /\ CompletedNamed /\ MovesEvident
        /\ TransfersNamed /\ MovedOnce

(* What no later call changes about a movement.                              *)
Grows ==
    \A m \in DOMAIN movements :
        /\ m \in DOMAIN movements'
        /\ movements'[m].by = movements[m].by
        /\ movements'[m].to = movements[m].to
        /\ movements[m].status = "completed" => movements'[m].status = "completed"
        /\ Freight(m) => Freight(m)'

----------------------------------------------------------------------------
(* Perform, with the set of the writes made.                                 *)
Made(id, kind, task, made) ==
    LET status == IF "completed" \in made THEN "completed" ELSE "unfinished"
        record == [kind |-> kind, task |-> task, status |-> status,
                   movement |-> Len(movements) + 1]
        movement == [by |-> id, freight |-> task.freight, to |-> task.to,
                     status |-> IF kind = "move" THEN "completed" ELSE "requested"]
        settled == IF "settled" \in made
                   THEN [movements EXCEPT ![task.freight].status = "completed"]
                   ELSE movements
    IN  /\ command' = IF "begun" \in made
                      THEN [c \in DOMAIN command \cup {id} |->
                               IF c = id THEN record ELSE command[c]]
                      ELSE command
        /\ location' = IF "placed" \in made THEN task.to ELSE location
        /\ transfers' = IF "placed" \in made
                        THEN Append(transfers, [by |-> id, freight |-> task.freight,
                                                to |-> task.to, cut |-> "settled" \notin made])
                        ELSE transfers
        /\ movements' = IF "recorded" \in made THEN Append(settled, movement) ELSE settled

(* The order of the writes: each is made only after the ones it rests on.    *)
Ordered(kind, task, made) ==
    /\ "placed" \in made => "begun" \in made /\ kind = "move"
    /\ "recorded" \in made => "begun" \in made /\ (kind = "move" => "placed" \in made)
    /\ "completed" \in made => "recorded" \in made
    /\ "settled" \in made => "recorded" \in made /\ kind = "move" /\ task.freight # 0
    /\ kind = "request" => task.freight = 0
    /\ task.freight # 0 => Open(task.freight) /\ movements[task.freight].to = task.to

LEMMA PerformMade ==
  ASSUME NEW id, NEW kind, NEW task, NEW writes, NEW n,
         Perform(id, kind, task, writes, n)
  PROVE  Made(id, kind, task, {writes[i] : i \in 1..n})
  BY DEF Perform, Made, Remains

LEMMA MoveWritesAre ==
  /\ Len(MoveWrites) = 4
  /\ MoveWrites[1] = "begun" /\ MoveWrites[2] = "placed"
  /\ MoveWrites[3] = "recorded" /\ MoveWrites[4] = "completed"
  BY DEF MoveWrites

LEMMA CompleteWritesAre ==
  /\ Len(CompleteWrites) = 5
  /\ CompleteWrites[1] = "begun" /\ CompleteWrites[2] = "placed"
  /\ CompleteWrites[3] = "recorded" /\ CompleteWrites[4] = "completed"
  /\ CompleteWrites[5] = "settled"
  BY DEF MoveWrites, CompleteWrites

LEMMA RequestWritesAre ==
  /\ Len(RequestWrites) = 3
  /\ RequestWrites[1] = "begun" /\ RequestWrites[2] = "recorded"
  /\ RequestWrites[3] = "completed"
  BY DEF RequestWrites

LEMMA MoveOrdered ==
  ASSUME NEW n \in 0..Len(MoveWrites), NEW to
  PROVE  Ordered("move", Task(to, 0), {MoveWrites[i] : i \in 1..n})
  BY MoveWritesAre DEF Ordered, Task

LEMMA RequestOrdered ==
  ASSUME NEW n \in 0..Len(RequestWrites), NEW to
  PROVE  Ordered("request", Task(to, 0), {RequestWrites[i] : i \in 1..n})
  BY RequestWritesAre DEF Ordered, Task

LEMMA CompleteOrdered ==
  ASSUME NEW n \in 0..Len(CompleteWrites), NEW m \in Nat \ {0}, Open(m)
  PROVE  Ordered("move", Task(movements[m].to, m), {CompleteWrites[i] : i \in 1..n})
  BY CompleteWritesAre DEF Ordered, Task

(* m is the same movement in both, but for its status.                       *)
Same(r, q) == r.by = q.by /\ r.freight = q.freight /\ r.to = q.to

(* Record r is what became of record q of movement m.                        *)
Became(r, q, m, task, made) ==
    /\ Same(r, q)
    /\ "settled" \in made /\ m = task.freight => r.status = "completed"
    /\ ~("settled" \in made /\ m = task.freight) => r.status = q.status

(* What one call leaves behind, field by field.                              *)
LEMMA Appended ==
  ASSUME MovementsTyped, NEW id \in MoveId, NEW kind \in {"move", "request"},
         NEW task \in TaskOf, NEW made, Made(id, kind, task, made),
         "settled" \in made => task.freight \in DOMAIN movements
  PROVE  /\ Len(movements') = IF "recorded" \in made THEN Len(movements) + 1 ELSE Len(movements)
         /\ \A m \in DOMAIN movements :
               /\ m \in DOMAIN movements'
               /\ Became(movements'[m], movements[m], m, task, made)
         /\ "recorded" \in made =>
               movements'[Len(movements) + 1] =
                  [by |-> id, freight |-> task.freight, to |-> task.to,
                   status |-> IF kind = "move" THEN "completed" ELSE "requested"]
         /\ movements' \in Seq(Record)
<1> DEFINE settled == IF "settled" \in made
                      THEN [movements EXCEPT ![task.freight].status = "completed"]
                      ELSE movements
           movement == [by |-> id, freight |-> task.freight, to |-> task.to,
                        status |-> IF kind = "move" THEN "completed" ELSE "requested"]
<1>0. movements \in Seq(Record)
  BY DEF MovementsTyped
<1>1. /\ settled \in Seq(Record) /\ Len(settled) = Len(movements)
      /\ \A m \in DOMAIN movements : Became(settled[m], movements[m], m, task, made)
  <2>1. CASE "settled" \in made
    <3> DEFINE t == task.freight
               new == [movements[t] EXCEPT !.status = "completed"]
    <3>1. t \in DOMAIN movements /\ movements[t] \in Record
      BY <2>1, <1>0
    <3>2. new \in Record /\ Same(new, movements[t]) /\ new.status = "completed"
      BY <3>1 DEF Record, Same
    <3>3. settled = [movements EXCEPT ![t] = new]
      BY <2>1
    <3> HIDE DEF settled, new, t
    <3>4. settled \in Seq(Record) /\ Len(settled) = Len(movements)
      BY <1>0, <3>1, <3>2, <3>3
    <3>5. \A m \in DOMAIN movements : settled[m] = IF m = t THEN new ELSE movements[m]
      BY <1>0, <3>1, <3>3
    <3> QED BY <2>1, <3>2, <3>4, <3>5 DEF t, Same, Became
  <2>2. CASE "settled" \notin made
    BY <2>2, <1>0 DEF Same, Became
  <2> QED BY <2>1, <2>2
<1>2. movement \in Record
  BY DEF Record, TaskOf
<1>3. movements' = IF "recorded" \in made THEN Append(settled, movement) ELSE settled
  BY DEF Made
<1> HIDE DEF settled, movement
<1>4. Len(movements') = IF "recorded" \in made THEN Len(movements) + 1 ELSE Len(movements)
  BY <1>1, <1>2, <1>3
<1>5. \A m \in DOMAIN movements : m \in DOMAIN movements' /\ movements'[m] = settled[m]
  BY <1>0, <1>1, <1>2, <1>3
<1>6. "recorded" \in made => movements'[Len(movements) + 1] = movement
  BY <1>1, <1>2, <1>3
<1>7. movements' \in Seq(Record)
  BY <1>1, <1>2, <1>3
<1> QED BY <1>1, <1>4, <1>5, <1>6, <1>7 DEF movement

LEMMA MadeTyped ==
  ASSUME MovementsTyped, NEW id \in MoveId, NEW kind \in {"move", "request"},
         NEW task \in TaskOf, NEW made, Made(id, kind, task, made),
         Ordered(kind, task, made)
  PROVE  MovementsTyped'
<1>1. "settled" \in made => task.freight \in DOMAIN movements
  BY DEF Ordered, Open, Freight
<1>2. movements' \in Seq(Record)
  BY <1>1, Appended
<1>3. DOMAIN command' \subseteq MoveId /\ command' \in [DOMAIN command' -> Command]
  <2> DEFINE record == [kind |-> kind, task |-> task,
                        status |-> IF "completed" \in made THEN "completed" ELSE "unfinished",
                        movement |-> Len(movements) + 1]
  <2>1. record \in Command
    BY DEF Command, MovementsTyped
  <2>2. command' = IF "begun" \in made
                   THEN [c \in DOMAIN command \cup {id} |->
                            IF c = id THEN record ELSE command[c]]
                   ELSE command
    BY DEF Made
  <2> HIDE DEF record
  <2> QED BY <2>1, <2>2 DEF MovementsTyped
<1>4. location' \in Container
  BY DEF Made, MovementsTyped, TaskOf
<1>5. transfers' \in Seq(Transfer)
  <2>1. [by |-> id, freight |-> task.freight, to |-> task.to,
         cut |-> "settled" \notin made] \in Transfer
    BY DEF Transfer, TaskOf
  <2> QED BY <2>1 DEF Made, MovementsTyped
<1> QED BY <1>2, <1>3, <1>4, <1>5 DEF MovementsTyped

(* The ledger grows by the call's command, if anything was written.          *)
LEMMA Begun ==
  ASSUME MovementsTyped, NEW id, NEW kind, NEW task, NEW made, Made(id, kind, task, made),
         Ordered(kind, task, made), id \notin DOMAIN command
  PROVE  /\ \A c \in DOMAIN command : c \in DOMAIN command' /\ command'[c] = command[c]
         /\ DOMAIN command' \subseteq DOMAIN command \cup {id}
         /\ "placed" \in made \/ "recorded" \in made => id \in DOMAIN command'
         /\ id \in DOMAIN command' =>
               command'[id] = [kind |-> kind, task |-> task,
                               status |-> IF "completed" \in made THEN "completed"
                                          ELSE "unfinished",
                               movement |-> Len(movements) + 1]
  BY DEF Made, Ordered

LEMMA MadeGrows ==
  ASSUME MInv, NEW id \in MoveId, NEW kind \in {"move", "request"},
         NEW task \in TaskOf, NEW made, Made(id, kind, task, made),
         Ordered(kind, task, made), id \notin DOMAIN command
  PROVE  Grows
<1>1. "settled" \in made => task.freight \in DOMAIN movements
  BY DEF Ordered, Open, Freight
<1> SUFFICES ASSUME NEW m \in DOMAIN movements
             PROVE  /\ m \in DOMAIN movements'
                    /\ movements'[m].by = movements[m].by
                    /\ movements'[m].to = movements[m].to
                    /\ movements[m].status = "completed" => movements'[m].status = "completed"
                    /\ Freight(m) => Freight(m)'
  BY DEF Grows
<1> MovementsTyped
  BY DEF MInv
<1>2. m \in DOMAIN movements' /\ Became(movements'[m], movements[m], m, task, made)
  BY <1>1, Appended
<1>3. movements[m].status = "completed" => movements'[m].status = "completed"
  BY <1>2 DEF Became
<1>4. movements[m].by \in DOMAIN command
  BY DEF MInv, RecordsNamed, Recorded
<1>5. command'[movements[m].by] = command[movements[m].by]
  BY <1>4, Begun DEF MInv
<1> QED BY <1>2, <1>3, <1>5 DEF Freight, Became, Same

(* A call keeps the movement invariant, however many of its writes it makes. *)
LEMMA MadeKeeps ==
  ASSUME MInv, NEW id \in MoveId, NEW kind \in {"move", "request"},
         NEW task \in TaskOf, NEW made, Made(id, kind, task, made),
         Ordered(kind, task, made), id \notin DOMAIN command
  PROVE  MInv' /\ Grows
<1> DEFINE new == Len(movements) + 1
           last == Len(transfers) + 1
<1>0. MovementsTyped /\ MovementsTyped' /\ Grows
  BY MadeTyped, MadeGrows DEF MInv
<1>1. "settled" \in made => task.freight \in DOMAIN movements
  BY DEF Ordered, Open, Freight
<1>2. /\ movements \in Seq(Record) /\ movements' \in Seq(Record)
      /\ transfers \in Seq(Transfer) /\ transfers' \in Seq(Transfer)
  BY <1>0 DEF MovementsTyped
<1> MovementsTyped
  BY DEF MInv
<1>15. /\ Len(movements') = IF "recorded" \in made THEN Len(movements) + 1 ELSE Len(movements)
       /\ "recorded" \in made =>
             movements'[Len(movements) + 1] =
                [by |-> id, freight |-> task.freight, to |-> task.to,
                 status |-> IF kind = "move" THEN "completed" ELSE "requested"]
  BY <1>1, Appended
<1>3. \A m \in DOMAIN movements' :
         m \in DOMAIN movements \/ ("recorded" \in made /\ m = new)
  BY <1>2, <1>15
<1>4. \A m \in DOMAIN movements :
         /\ m \in DOMAIN movements' /\ Same(movements'[m], movements[m])
         /\ "settled" \in made /\ m = task.freight => movements'[m].status = "completed"
         /\ ~("settled" \in made /\ m = task.freight) =>
               movements'[m].status = movements[m].status
  <2>1. \A m \in DOMAIN movements :
           m \in DOMAIN movements' /\ Became(movements'[m], movements[m], m, task, made)
    BY <1>1, Appended
  <2> QED BY <2>1 DEF Became
<1>5. "recorded" \in made =>
         /\ new \in DOMAIN movements' /\ new \notin DOMAIN movements
         /\ movements'[new].by = id /\ movements'[new].freight = task.freight
         /\ movements'[new].to = task.to
         /\ movements'[new].status = IF kind = "move" THEN "completed" ELSE "requested"
  BY <1>2, <1>15
<1>6. \A c \in DOMAIN command : c \in DOMAIN command' /\ command'[c] = command[c]
  BY Begun
<1>7. id \in DOMAIN command' =>
         /\ command'[id].kind = kind /\ command'[id].task = task
         /\ command'[id].status = "completed" => "completed" \in made
         /\ command'[id].movement = new
  <2>1. id \in DOMAIN command' =>
           command'[id] = [kind |-> kind, task |-> task,
                           status |-> IF "completed" \in made THEN "completed"
                                      ELSE "unfinished",
                           movement |-> Len(movements) + 1]
    BY Begun
  <2> QED BY <2>1 DEF new
<1>8. /\ DOMAIN command' \subseteq DOMAIN command \cup {id}
      /\ "placed" \in made \/ "recorded" \in made => id \in DOMAIN command'
  BY Begun
<1>9. /\ \A i \in DOMAIN transfers : i \in DOMAIN transfers' /\ transfers'[i] = transfers[i]
      /\ \A i \in DOMAIN transfers' :
            i \in DOMAIN transfers \/ ("placed" \in made /\ i = last)
      /\ "placed" \in made =>
            /\ last \in DOMAIN transfers' /\ last \notin DOMAIN transfers
            /\ \A i \in DOMAIN transfers : i < last
            /\ transfers'[last] = [by |-> id, freight |-> task.freight, to |-> task.to,
                                   cut |-> "settled" \notin made]
  <2>1. [by |-> id, freight |-> task.freight, to |-> task.to,
         cut |-> "settled" \notin made] \in Transfer
    BY DEF Transfer, TaskOf
  <2> QED BY <1>2, <2>1 DEF Made
<1> HIDE DEF new, last
<1>10. RecordsNamed'
  <2> SUFFICES ASSUME NEW m \in DOMAIN movements'
               PROVE  Recorded(m)'
    BY DEF RecordsNamed
  <2>1. CASE m \in DOMAIN movements
    <3>1. Recorded(m)
      BY <2>1 DEF MInv, RecordsNamed
    <3>2. movements'[m].status = "requested" => movements[m].status = "requested"
      BY <2>1, <1>4
    <3> QED BY <2>1, <3>1, <3>2, <1>4, <1>6 DEF Recorded, Same
  <2>2. CASE "recorded" \in made /\ m = new
    <3>1. task = Task(task.to, task.freight)
      BY DEF TaskOf, Task
    <3> QED BY <2>2, <3>1, <1>5, <1>7, <1>8 DEF Recorded
  <2> QED BY <2>1, <2>2, <1>3
<1>11. CompletedNamed'
  <2> SUFFICES ASSUME NEW c \in DOMAIN command', command'[c].status = "completed"
               PROVE  /\ command'[c].movement \in DOMAIN movements'
                      /\ movements'[command'[c].movement].by = c
    BY DEF CompletedNamed
  <2>1. CASE c \in DOMAIN command
    BY <2>1, <1>4, <1>6 DEF MInv, CompletedNamed, Same
  <2>2. CASE c = id
    BY <2>2, <1>5, <1>7 DEF Ordered
  <2> QED BY <2>1, <2>2, <1>8
<1>12. MovesEvident'
  <2> SUFFICES ASSUME NEW m \in DOMAIN movements'
               PROVE  Evident(m)'
    BY DEF MovesEvident
  <2>1. CASE m \in DOMAIN movements
    <3>1. Evident(m)
      BY <2>1 DEF MInv, MovesEvident
    <3>2. Freight(m)' <=> Freight(m)
      BY <2>1, <1>4, <1>6 DEF Freight, Same, MInv, RecordsNamed, Recorded
    <3>3. CASE ~Freight(m)
      BY <2>1, <3>1, <3>2, <3>3, <1>4, <1>9 DEF Evident, Same
    <3>4. CASE Freight(m) /\ movements[m].status = "completed"
      BY <2>1, <3>1, <3>2, <3>4, <1>4 DEF Evident, Same
    <3>5. CASE Freight(m) /\ movements[m].status # "completed"
      <4>1. CASE "settled" \in made /\ m = task.freight
        <5>1. movements'[new].freight = m /\ movements'[new].to = movements'[m].to
          BY <2>1, <4>1, <1>4, <1>5 DEF Ordered, Same
        <5> QED BY <2>1, <4>1, <5>1, <3>2, <3>5, <1>5 DEF Evident, Ordered
      <4>2. CASE ~("settled" \in made /\ m = task.freight)
        BY <2>1, <4>2, <3>2, <3>5, <1>4 DEF Evident
      <4> QED BY <4>1, <4>2
    <3> QED BY <3>3, <3>4, <3>5
  <2>2. CASE "recorded" \in made /\ m = new
    <3>1. CASE kind = "move"
      <4>1. "placed" \in made
        BY <2>2, <3>1 DEF Ordered
      <4>2. ~Freight(m)'
        BY <2>2, <3>1, <1>5, <1>7, <1>8 DEF Freight
      <4> QED BY <2>2, <4>1, <4>2, <1>5, <1>9 DEF Evident
    <3>2. CASE kind = "request"
      <4>1. Freight(m)' /\ movements'[m].status = "requested"
        BY <2>2, <3>2, <1>5, <1>7, <1>8 DEF Freight
      <4> QED BY <4>1 DEF Evident
    <3> QED BY <3>1, <3>2
  <2> QED BY <2>1, <2>2, <1>3
<1>13. TransfersNamed'
  <2> SUFFICES ASSUME NEW i \in DOMAIN transfers'
               PROVE  Transferred(i)'
    BY DEF TransfersNamed
  <2>1. CASE i \in DOMAIN transfers
    <3>1. Transferred(i)
      BY <2>1 DEF MInv, TransfersNamed
    <3> QED BY <2>1, <3>1, <1>4, <1>6, <1>9 DEF Transferred
  <2>2. CASE "placed" \in made /\ i = last
    <3>1. task.freight # 0 => task.freight \in DOMAIN movements
      BY DEF Ordered, Open, Freight
    <3>2. /\ transfers'[i].by = id /\ transfers'[i].freight = task.freight
          /\ ~transfers'[i].cut => "settled" \in made
      <4>1. transfers'[i] = [by |-> id, freight |-> task.freight, to |-> task.to,
                             cut |-> "settled" \notin made]
        BY <2>2, <1>9
      <4>2. transfers'[i].by = id /\ transfers'[i].freight = task.freight
        BY <4>1
      <4>3. transfers'[i].cut = ("settled" \notin made)
        BY <4>1
      <4> QED BY <4>2, <4>3
    <3> QED BY <2>2, <3>1, <3>2, <1>4, <1>8 DEF Transferred
  <2> QED BY <2>1, <2>2, <1>9
<1>14. MovedOnce'
  <2> SUFFICES ASSUME NEW i \in DOMAIN transfers', NEW j \in DOMAIN transfers', i < j
               PROVE  /\ transfers'[i].by # transfers'[j].by
                      /\ transfers'[i].freight # 0
                         /\ transfers'[i].freight = transfers'[j].freight => transfers'[i].cut
    BY DEF MovedOnce
  <2>1. CASE j \in DOMAIN transfers
    <3>1. i \in DOMAIN transfers
      BY <2>1, <1>2
    <3> QED BY <2>1, <3>1, <1>9 DEF MInv, MovedOnce
  <2>2. CASE "placed" \in made /\ j = last
    <3>1. i \in DOMAIN transfers
      BY <2>2, <1>9, <1>2
    <3>2. Transferred(i)
      BY <3>1 DEF MInv, TransfersNamed
    <3>3. transfers'[i] = transfers[i] /\ transfers'[j].by = id
          /\ transfers'[j].freight = task.freight
      BY <2>2, <3>1, <1>9
    <3>4. transfers[i].by # id
      BY <3>2 DEF Transferred
    <3>5. transfers[i].freight # 0 /\ transfers[i].freight = task.freight => transfers[i].cut
      BY <3>2 DEF Transferred, Ordered, Open
    <3> QED BY <3>3, <3>4, <3>5
  <2> QED BY <2>1, <2>2, <1>9
<1> QED BY <1>0, <1>10, <1>11, <1>12, <1>13, <1>14 DEF MInv

LEMMA TaskTyped ==
  ASSUME NEW to \in Container, NEW m \in Nat
  PROVE  Task(to, m) \in TaskOf
  BY DEF Task, TaskOf

LEMMA TaskSame ==
  ASSUME NEW a, NEW b, NEW c, NEW d, Task(a, b) = Task(c, d)
  PROVE  a = c /\ b = d
<1>1. Task(a, b).to = Task(c, d).to /\ Task(a, b).freight = Task(c, d).freight
  OBVIOUS
<1> QED BY <1>1 DEF Task

LEMMA MoveKeeps ==
  ASSUME MInv, NEW id \in MoveId, NEW to \in Container, NEW n \in 0..Len(MoveWrites),
         ExecuteImmediateMove(id, Task(to, 0), n)
  PROVE  MInv' /\ Grows
<1>1. Made(id, "move", Task(to, 0), {MoveWrites[i] : i \in 1..n}) /\ id \notin DOMAIN command
  BY PerformMade DEF ExecuteImmediateMove, Fresh
<1>2. Ordered("move", Task(to, 0), {MoveWrites[i] : i \in 1..n})
  BY MoveOrdered
<1> QED BY <1>1, <1>2, TaskTyped, MadeKeeps

(* A freight movement that was requested to the end has its record.          *)
LEMMA RequestKeeps ==
  ASSUME MInv, NEW id \in MoveId, NEW to \in Container, NEW n \in 0..Len(RequestWrites),
         RequestFreightMove(id, to, n)
  PROVE  /\ MInv' /\ Grows
         /\ n = Len(RequestWrites) =>
               \E m \in Nat \ {0} :
                  /\ m = Len(movements) + 1 /\ Freight(m)'
                  /\ movements'[m].by = id /\ movements'[m].to = to
<1> DEFINE made == {RequestWrites[i] : i \in 1..n}
           task == Task(to, 0)
<1>1. Made(id, "request", task, made) /\ id \notin DOMAIN command
  BY PerformMade DEF RequestFreightMove, Fresh
<1>2. Ordered("request", task, made)
  BY RequestOrdered
<1>3. task \in TaskOf /\ task.to = to
  BY DEF Task, TaskOf
<1>4. MInv' /\ Grows
  BY <1>1, <1>2, <1>3, MadeKeeps
<1>5. n = Len(RequestWrites) => "recorded" \in made /\ "settled" \notin made
  BY RequestWritesAre
<1> HIDE DEF made, task
<1> SUFFICES ASSUME n = Len(RequestWrites)
             PROVE  \E m \in Nat \ {0} :
                      /\ m = Len(movements) + 1 /\ Freight(m)'
                      /\ movements'[m].by = id /\ movements'[m].to = to
  BY <1>4
<1>6. MovementsTyped /\ MovementsTyped'
  BY <1>4 DEF MInv
<1>7. PICK m \in Nat \ {0} : m = Len(movements) + 1
  BY <1>6 DEF MovementsTyped
<1>8. /\ Len(movements') = IF "recorded" \in made THEN Len(movements) + 1 ELSE Len(movements)
      /\ "recorded" \in made =>
            movements'[Len(movements) + 1] =
               [by |-> id, freight |-> task.freight, to |-> task.to,
                status |-> IF "request" = "move" THEN "completed" ELSE "requested"]
  BY <1>1, <1>3, <1>5, <1>6, Appended
<1>9. movements'[m].by = id /\ movements'[m].to = to
  BY <1>3, <1>5, <1>7, <1>8
<1>10. m \in DOMAIN movements'
  BY <1>5, <1>6, <1>7, <1>8 DEF MovementsTyped
<1>11. id \in DOMAIN command' /\ command'[id].kind = "request"
  <2>1. id \in DOMAIN command'
    BY <1>1, <1>2, <1>5, <1>6, Begun
  <2>2. command'[id] = [kind |-> "request", task |-> task,
                        status |-> IF "completed" \in made THEN "completed" ELSE "unfinished",
                        movement |-> Len(movements) + 1]
    BY <1>1, <1>2, <1>6, <2>1, Begun
  <2> QED BY <2>1, <2>2
<1>12. Freight(m)'
  BY <1>9, <1>10, <1>11 DEF Freight
<1> QED BY <1>7, <1>9, <1>12

(* Only the mark was left to make.                                           *)
LEMMA MarkKeeps ==
  ASSUME MInv, NEW id \in DOMAIN command, NEW m \in DOMAIN movements, Open(m),
         command[id].status = "completed", command[id].task = Task(movements[m].to, m),
         movements' = [movements EXCEPT ![m].status = "completed"],
         UNCHANGED <<command, location, transfers>>
  PROVE  /\ MInv' /\ Grows
         /\ movements'[m].status = "completed"
<1> DEFINE new == [movements[m] EXCEPT !.status = "completed"]
<1>0. movements \in Seq(Record) /\ movements[m] \in Record /\ m # 0
  BY DEF MInv, MovementsTyped
<1>1. new \in Record /\ Same(new, movements[m]) /\ new.status = "completed"
  BY <1>0 DEF Record, Same
<1>2. movements' = [movements EXCEPT ![m] = new]
  OBVIOUS
<1> HIDE DEF new
<1>3. /\ movements' \in Seq(Record) /\ DOMAIN movements' = DOMAIN movements
      /\ \A k \in DOMAIN movements : movements'[k] = IF k = m THEN new ELSE movements[k]
  BY <1>0, <1>1, <1>2
<1>4. /\ \A k \in DOMAIN movements : Same(movements'[k], movements[k])
      /\ \A k \in DOMAIN movements :
            movements'[k].status = IF k = m THEN "completed" ELSE movements[k].status
  BY <1>1, <1>3 DEF Same
<1>5. MovementsTyped'
  BY <1>3 DEF MInv, MovementsTyped
<1>6. \A k \in DOMAIN movements : Freight(k)' <=> Freight(k)
  BY <1>3, <1>4 DEF Freight, Same
<1>7. RecordsNamed'
  BY <1>3, <1>4 DEF MInv, RecordsNamed, Recorded, Same
<1>8. CompletedNamed'
  BY <1>3, <1>4 DEF MInv, CompletedNamed, Same
<1>9. MovesEvident'
  <2> SUFFICES ASSUME NEW k \in DOMAIN movements
               PROVE  Evident(k)'
    BY <1>3 DEF MovesEvident
  <2>1. Evident(k)
    BY DEF MInv, MovesEvident
  <2>2. CASE k = m
    <3>1. command[id].movement \in DOMAIN movements /\ movements[command[id].movement].by = id
      BY DEF MInv, CompletedNamed
    <3> DEFINE l == command[id].movement
    <3> HIDE DEF l
    <3>4. Recorded(l) /\ movements[l].by = id
      BY <3>1 DEF MInv, RecordsNamed, l
    <3>2. command[id].task = Task(movements[l].to, movements[l].freight)
      BY <3>4 DEF Recorded
    <3>5. Task(movements[l].to, movements[l].freight) = Task(movements[m].to, m)
      BY <3>2
    <3>3. movements[l].freight = m /\ movements[l].to = movements[m].to
      BY <3>5, TaskSame
    <3>6. l \in DOMAIN movements /\ l \in DOMAIN movements'
      BY <3>1, <1>3 DEF l
    <3>7. movements'[l].freight = m /\ movements'[l].to = movements'[m].to
      BY <3>3, <3>6, <1>4 DEF Same
    <3>8. Freight(k)'
      BY <2>2, <1>6 DEF Open
    <3> QED BY <2>2, <3>6, <3>7, <3>8, <1>3, <1>4, <1>6 DEF Evident, Same, Open
  <2>3. CASE k # m
    BY <2>1, <2>3, <1>3, <1>4, <1>6 DEF Evident, Same
  <2> QED BY <2>2, <2>3
<1>10. TransfersNamed'
  BY <1>3, <1>4 DEF MInv, TransfersNamed, Transferred, Same
<1>11. MovedOnce'
  BY DEF MInv, MovedOnce
<1>12. Grows
  BY <1>3, <1>4, <1>6 DEF Grows, Same
<1> QED BY <1>4, <1>5, <1>7, <1>8, <1>9, <1>10, <1>11, <1>12 DEF MInv

LEMMA CompleteKeeps ==
  ASSUME MInv, NEW id \in MoveId, NEW m, NEW n \in 0..Len(CompleteWrites),
         CompleteFreightMove(id, m, n)
  PROVE  /\ MInv' /\ Grows /\ Freight(m)
         /\ n = Len(CompleteWrites) => movements'[m].status = "completed"
<1> DEFINE task == Task(movements[m].to, m)
           made == {CompleteWrites[i] : i \in 1..n}
<1>1. Open(m) /\ Freight(m) /\ m \in DOMAIN movements
  BY DEF CompleteFreightMove, Open, Freight
<1>2. m \in Nat \ {0} /\ task \in TaskOf
  <2>1. movements[m] \in Record /\ m \in Nat \ {0}
    BY <1>1 DEF MInv, MovementsTyped
  <2>2. movements[m].to \in Container
    BY <2>1 DEF Record
  <2> QED BY <2>1, <2>2, TaskTyped
<1>3. CASE Fresh(id) /\ Perform(id, "move", task, CompleteWrites, n)
  <2>1. Made(id, "move", task, made) /\ id \notin DOMAIN command
    BY <1>3, PerformMade DEF Fresh
  <2>2. Ordered("move", task, made)
    BY <1>1, <1>2, CompleteOrdered
  <2>3. n = Len(CompleteWrites) => "settled" \in made
    BY CompleteWritesAre
  <2>4. MovementsTyped /\ task.freight = m
    BY DEF MInv, Task
  <2> HIDE DEF task, made
  <2>5. MInv' /\ Grows
    BY <1>2, <2>1, <2>2, MadeKeeps
  <2>6. Became(movements'[m], movements[m], m, task, made)
    BY <1>1, <1>2, <2>1, <2>4, Appended
  <2> QED BY <1>1, <2>3, <2>4, <2>5, <2>6 DEF Became
<1>4. CASE /\ Replays(id, "move", task) /\ n = Len(CompleteWrites)
           /\ movements' = [movements EXCEPT ![m].status = "completed"]
           /\ UNCHANGED <<command, location, transfers>>
  BY <1>1, <1>4, MarkKeeps DEF Replays
<1> QED BY <1>3, <1>4 DEF CompleteFreightMove

(* The evidence follows from the invariant.                                  *)
LEMMA EvidenceHolds == MInv => EvidenceTrue
<1> SUFFICES ASSUME MInv PROVE EvidenceTrue
  OBVIOUS
<1>1. \A id \in DOMAIN command : command[id].status = "completed" =>
         \A m \in DOMAIN movements : movements[m].by = id <=> m = command[id].movement
  BY DEF MInv, CompletedNamed, RecordsNamed, Recorded
<1>2. ASSUME NEW m \in DOMAIN movements
      PROVE  \/ Freight(m) /\ movements[m].status = "requested"
             \/ Freight(m) /\ \E k \in DOMAIN movements :
                   movements[k].freight = m /\ movements[k].to = movements[m].to
             \/ \E i \in DOMAIN transfers :
                   transfers[i].by = movements[m].by /\ transfers[i].to = movements[m].to
  <2>1. Evident(m)
    BY DEF MInv, MovesEvident
  <2>2. movements[m] \in Record
    BY DEF MInv, MovementsTyped
  <2>3. movements[m].status \in {"requested", "completed"}
    BY <2>2 DEF Record
  <2> QED BY <2>1, <2>3 DEF Evident
<1> QED BY <1>1, <1>2 DEF EvidenceTrue

LEMMA MovementTypesHold == MInv => MovementTypeOK
<1> SUFFICES ASSUME MInv PROVE MovementTypeOK
  OBVIOUS
<1>1. \A m \in DOMAIN movements : movements[m] \in Movement
  <2> TAKE m \in DOMAIN movements
  <2>1. movements[m] \in Record /\ movements[m].by \in DOMAIN command
    BY DEF MInv, MovementsTyped, RecordsNamed, Recorded
  <2> QED BY <2>1 DEF Record, Movement
<1>2. \A id \in DOMAIN command :
         /\ command[id].kind \in {"move", "request"}
         /\ command[id].status \in {"unfinished", "completed"}
  BY DEF MInv, MovementsTyped, Command
<1> QED BY <1>1, <1>2 DEF MovementTypeOK, MInv, MovementsTyped

----------------------------------------------------------------------------
(* Orders.                                                                   *)

(* What OrderMatchesMovement says of an order, of any version of it.         *)
Matches(o, version) ==
    version.movement # 0 =>
        /\ Freight(version.movement)
        /\ movements[version.movement].by = DispatchId(o)
        /\ version.leg = "completed" => movements[version.movement].status = "completed"

(* next takes nothing back from the order as it stands.                      *)
Extends(o, next) ==
    /\ order[o].invoices \subseteq next.invoices
    /\ order[o].movement # 0 => next.movement = order[o].movement
    /\ order[o].movement = 0 /\ next.movement # 0 => movements[next.movement].to = next.to

Loaded(q) ==
    /\ q.does \in {"dispatched", "delivered"}
    /\ q.read.revision <= order[q.order].revision
    /\ q.read.revision = order[q.order].revision => q.read = order[q.order]
    /\ Matches(q.order, q.read)
    /\ q.does = "delivered" => q.read.movement # 0

ToBeWritten(q) ==
    /\ q.next.status # "none"
    /\ q.next.revision <= order[q.order].revision + 1
    /\ q.next.revision = order[q.order].revision + 1 => Extends(q.order, q.next)
    /\ Matches(q.order, q.next)

RequestSound(q) ==
    /\ q.at # "idle" => order[q.order].status # "none"
    /\ q.at = "loaded" => Loaded(q)
    /\ q.at = "write" => ToBeWritten(q)

OrderSound(o) ==
    /\ Matches(o, order[o])
    /\ order[o].status = "none" => order[o] = NoOrder

OrdersTyped ==
    /\ order \in [Order -> OrderRecord]
    /\ amended \subseteq AmendId
    /\ request \in [Request -> Progress]
    /\ stops \in 0..MaxStops

IInv == /\ MInv /\ OrdersTyped
        /\ \A o \in Order : OrderSound(o)
        /\ \A r \in Request : RequestSound(request[r])

LEMMA NoOrderTyped == NoOrder \in OrderRecord
  BY YardAssumption DEF NoOrder, OrderRecord, Status

LEMMA IdleTyped == Idle \in Progress /\ Idle.at = "idle"
<1>1. (CHOOSE o \in Order : TRUE) \in Order
  BY OrdersAssumption
<1> QED BY <1>1, NoOrderTyped DEF Idle, Progress

(* Nothing that was true of a movement is taken back.                        *)
LEMMA MatchesKept ==
  ASSUME Grows, NEW o, NEW version, Matches(o, version)
  PROVE  Matches(o, version)'
  BY DEF Grows, Matches, Freight, DispatchId

LEMMA ExtendsKept ==
  ASSUME Grows, order' = order, NEW o, NEW next, Extends(o, next), Matches(o, next)
  PROVE  Extends(o, next)'
  BY DEF Grows, Extends, Matches, Freight

LEMMA RequestKept ==
  ASSUME Grows, order' = order, NEW q, RequestSound(q)
  PROVE  RequestSound(q)'
<1>1. q.at = "loaded" => Loaded(q)'
  BY MatchesKept DEF RequestSound, Loaded
<1>2. q.at = "write" => ToBeWritten(q)'
  BY MatchesKept, ExtendsKept DEF RequestSound, ToBeWritten
<1> QED BY <1>1, <1>2 DEF RequestSound

LEMMA NothingMoves ==
  ASSUME MInv, UNCHANGED movementVars
  PROVE  MInv' /\ Grows
<1> USE DEF movementVars
<1>1. MovementsTyped' /\ RecordsNamed' /\ CompletedNamed'
  BY DEF MInv, MovementsTyped, RecordsNamed, Recorded, CompletedNamed
<1>2. MovesEvident' /\ TransfersNamed' /\ MovedOnce'
  BY DEF MInv, MovesEvident, Evident, Freight, TransfersNamed, Transferred, MovedOnce
<1>3. Grows
  BY DEF Grows, Freight
<1> QED BY <1>1, <1>2, <1>3 DEF MInv

(* A request moves on and the orders stay as they are.                       *)
LEMMA RequestMoves ==
  ASSUME IInv, MInv', Grows, order' = order, amended' = amended, stops' \in 0..MaxStops,
         NEW r \in Request, NEW q \in Progress, RequestSound(q)',
         request' = [request EXCEPT ![r] = q]
  PROVE  IInv'
<1>1. OrdersTyped'
  BY DEF IInv, OrdersTyped
<1>2. ASSUME NEW o \in Order PROVE OrderSound(o)'
  <2>1. Matches(o, order[o]) /\ (order[o].status = "none" => order[o] = NoOrder)
    BY DEF IInv, OrderSound
  <2>2. PICK v : v = order[o]
    OBVIOUS
  <2>3. Matches(o, v)'
    BY <2>1, <2>2, MatchesKept
  <2>4. v = order'[o]
    BY <2>2
  <2>5. Matches(o, order[o])'
    BY <2>3, <2>4
  <2>6. order'[o].status = "none" => order'[o] = NoOrder
    BY <2>1
  <2> QED BY <2>5, <2>6 DEF OrderSound, NoOrder
<1>3. ASSUME NEW s \in Request PROVE RequestSound(request[s])'
  <2>1. RequestSound(request[s])
    BY DEF IInv
  <2>2. \A p : RequestSound(p) => RequestSound(p)'
    BY RequestKept
  <2>3. request'[s] = IF s = r THEN q ELSE request[s]
    BY DEF IInv, OrdersTyped
  <2> QED BY <2>1, <2>2, <2>3
<1> QED BY <1>1, <1>2, <1>3 DEF IInv

(* An order is replaced, or made, and its revision goes up by one: whatever  *)
(* another request holds for it is now a version behind.                     *)
LEMMA OrderMoves ==
  ASSUME IInv, UNCHANGED movementVars, stops' = stops, amended' \subseteq AmendId,
         NEW o \in Order, NEW v \in OrderRecord, Matches(o, v), v.status # "none",
         v.revision = order[o].revision + 1, order' = [order EXCEPT ![o] = v],
         request' \in [Request -> Progress],
         \A s \in Request : request'[s] = request[s] \/ request'[s] = Idle
  PROVE  IInv'
<1>1. MInv' /\ Grows
  BY NothingMoves DEF IInv
<1>2. OrdersTyped'
  BY DEF IInv, OrdersTyped
<1>3. \A p \in Order : order'[p] = IF p = o THEN v ELSE order[p]
  BY DEF IInv, OrdersTyped
<1>4. ASSUME NEW p \in Order PROVE OrderSound(p)'
  <2>1. Matches(p, order[p]) /\ (order[p].status = "none" => order[p] = NoOrder)
    BY DEF IInv, OrderSound
  <2>2. PICK w : w = order'[p]
    OBVIOUS
  <2>3. Matches(p, w)
    BY <2>1, <2>2, <1>3
  <2>4. Matches(p, w)'
    BY <2>3, <1>1, MatchesKept
  <2>5. Matches(p, order[p])'
    BY <2>2, <2>4
  <2>6. order'[p].status = "none" => order'[p] = NoOrder
    BY <2>1, <1>3
  <2> QED BY <2>5, <2>6 DEF OrderSound, NoOrder
<1>5. ASSUME NEW s \in Request PROVE RequestSound(request[s])'
  <2>1. PICK q : q = request'[s]
    OBVIOUS
  <2>2. CASE q = Idle
    <3>1. q.at = "idle"
      BY <2>2, IdleTyped
    <3>2. RequestSound(q)'
      BY <3>1 DEF RequestSound
    <3> QED BY <2>1, <3>2
  <2>3. CASE q = request[s]
    <3>1. RequestSound(q) /\ q \in Progress
      BY <2>3 DEF IInv, OrdersTyped
    <3>2. q.order \in Order /\ q.read.revision \in Nat /\ q.next.revision \in Nat
      BY <3>1 DEF Progress, OrderRecord
    <3>3. order[q.order].revision \in Nat
      BY <3>2 DEF IInv, OrdersTyped, OrderRecord
    <3>4. q.order = o => order'[q.order] = v
      BY <3>2, <1>3
    <3>5. q.order # o => order'[q.order] = order[q.order]
      BY <3>2, <1>3
    <3>6. q.at # "idle" => order'[q.order].status # "none"
      BY <3>1, <3>4, <3>5 DEF RequestSound
    <3>7. ASSUME q.at = "loaded" PROVE Loaded(q)'
      <4>1. Loaded(q)
        BY <3>1, <3>7 DEF RequestSound
      <4>2. Matches(q.order, q.read)'
        BY <4>1, <1>1, MatchesKept DEF Loaded
      <4>3. /\ q.read.revision <= order'[q.order].revision
            /\ q.read.revision = order'[q.order].revision => q.read = order'[q.order]
        BY <4>1, <3>2, <3>3, <3>4, <3>5 DEF Loaded
      <4> QED BY <4>1, <4>2, <4>3 DEF Loaded
    <3>8. ASSUME q.at = "write" PROVE ToBeWritten(q)'
      <4>1. ToBeWritten(q)
        BY <3>1, <3>8 DEF RequestSound
      <4>2. Matches(q.order, q.next)'
        BY <4>1, <1>1, MatchesKept DEF ToBeWritten
      <4>3. q.next.revision <= order'[q.order].revision + 1
        BY <4>1, <3>2, <3>3, <3>4, <3>5 DEF ToBeWritten
      <4>4. q.next.revision = order'[q.order].revision + 1 => Extends(q.order, q.next)'
        <5>1. CASE q.order = o
          BY <4>1, <5>1, <3>2, <3>3, <3>4 DEF ToBeWritten
        <5>2. CASE q.order # o
          BY <4>1, <5>2, <3>5 DEF ToBeWritten, Extends, movementVars
        <5> QED BY <5>1, <5>2
      <4> QED BY <4>1, <4>2, <4>3, <4>4 DEF ToBeWritten
    <3>9. RequestSound(q)'
      BY <3>6, <3>7, <3>8 DEF RequestSound
    <3> QED BY <2>1, <3>9
  <2> QED BY <2>1, <2>2, <2>3
<1> QED BY <1>1, <1>2, <1>4, <1>5 DEF IInv

LEMMA CreateKeeps ==
  ASSUME IInv, NEW o \in Order, NEW to \in Container, Create(o, to)
  PROVE  IInv' /\ Extends(o, order'[o])
<1> DEFINE v == [NoOrder EXCEPT !.status = "draft", !.revision = 1, !.to = to]
<1>1. order[o] = NoOrder
  BY DEF Create, IInv, OrderSound
<1>2. /\ v \in OrderRecord /\ v.movement = 0 /\ v.status # "none" /\ v.revision = 1
      /\ NoOrder.revision = 0 /\ NoOrder.movement = 0 /\ NoOrder.invoices = {}
  BY NoOrderTyped DEF OrderRecord, NoOrder, Status
<1>3. /\ order' = [order EXCEPT ![o] = v] /\ UNCHANGED movementVars
      /\ amended' = amended /\ request' = request /\ stops' = stops
  BY DEF Create
<1> HIDE DEF v
<1>4. Matches(o, v)
  BY <1>2 DEF Matches
<1>5. order'[o] = v
  BY <1>3 DEF IInv, OrdersTyped
<1>6. Extends(o, order'[o])
  BY <1>1, <1>2, <1>5 DEF Extends
<1>7. request' \in [Request -> Progress] /\ amended' \subseteq AmendId
  BY <1>3 DEF IInv, OrdersTyped
<1>8. v.revision = order[o].revision + 1
  BY <1>1, <1>2
<1>9. IInv'
  BY <1>2, <1>3, <1>4, <1>7, <1>8, OrderMoves
<1> QED BY <1>6, <1>9

LEMMA ReplaceKeeps ==
  ASSUME IInv, NEW r \in Request, Replace(r)
  PROVE  /\ IInv'
         /\ Extends(request[r].order, request[r].next)
         /\ order' = [order EXCEPT ![request[r].order] = request[r].next]
<1> DEFINE q == request[r]
<1>1. q \in Progress /\ RequestSound(q) /\ q.at = "write"
  BY DEF IInv, OrdersTyped, Replace
<1>2. /\ order' = [order EXCEPT ![q.order] = q.next] /\ UNCHANGED movementVars
      /\ request' = [request EXCEPT ![r] = Idle] /\ stops' = stops
      /\ order[q.order].revision + 1 = q.next.revision
      /\ amended' = IF q.amendment = NoAmendment THEN amended ELSE amended \cup {q.amendment}
  BY DEF Replace, End, Unchanged
<1> HIDE DEF q
<1>3. /\ q.order \in Order /\ q.next \in OrderRecord
      /\ q.amendment \in AmendId \cup {NoAmendment}
  BY <1>1 DEF Progress
<1>4. ToBeWritten(q)
  BY <1>1 DEF RequestSound
<1>5. Extends(q.order, q.next) /\ Matches(q.order, q.next) /\ q.next.status # "none"
  BY <1>2, <1>4 DEF ToBeWritten
<1>6. /\ request' \in [Request -> Progress] /\ amended' \subseteq AmendId
      /\ \A s \in Request : request'[s] = request[s] \/ request'[s] = Idle
  BY <1>2, <1>3, IdleTyped DEF IInv, OrdersTyped
<1>7. IInv'
  BY <1>2, <1>3, <1>5, <1>6, OrderMoves
<1> QED BY <1>2, <1>5, <1>7 DEF q

(* A request is done with, whatever became of it.                            *)
LEMMA EndKeeps ==
  ASSUME IInv, MInv', Grows, order' = order, amended' = amended, stops' \in 0..MaxStops,
         NEW r \in Request, End(r)
  PROVE  IInv'
<1>1. PICK q \in Progress : q = Idle
  BY IdleTyped
<1>2. RequestSound(q)'
  BY <1>1, IdleTyped DEF RequestSound
<1>3. request' = [request EXCEPT ![r] = q]
  BY <1>1 DEF End
<1> QED BY <1>2, <1>3, RequestMoves

LEMMA ToWriteKeeps ==
  ASSUME IInv, NEW r \in Request, NEW o \in Order, NEW next \in OrderRecord,
         NEW amendment \in AmendId \cup {NoAmendment},
         ToWrite(r, o, next, amendment), next.status # "none",
         order[o].invoices \subseteq next.invoices, next.movement = order[o].movement,
         next.leg = "completed" => order[o].leg = "completed"
  PROVE  IInv'
<1>0. order[o] \in OrderRecord /\ Matches(o, order[o])
  BY DEF IInv, OrdersTyped, OrderSound
<1>1. order[o].revision \in Nat
  BY <1>0 DEF OrderRecord
<1>2. PICK v : v = [next EXCEPT !.revision = order[o].revision + 1]
  OBVIOUS
<1>3. /\ v \in OrderRecord /\ v.status = next.status /\ v.invoices = next.invoices
      /\ v.movement = next.movement /\ v.leg = next.leg
      /\ v.revision = order[o].revision + 1
  <2>1. PICK k \in Nat : k = order[o].revision + 1
    BY <1>1
  <2>2. v = [next EXCEPT !.revision = k]
    BY <1>2, <2>1
  <2> QED BY <2>1, <2>2 DEF OrderRecord
<1>4. PICK q : q = [Idle EXCEPT !.at = "write", !.order = o, !.next = v,
                                !.amendment = amendment]
  OBVIOUS
<1>5. q \in Progress /\ q.at = "write" /\ q.order = o /\ q.next = v
  BY <1>3, <1>4, IdleTyped DEF Progress
<1>6. /\ request' = [request EXCEPT ![r] = q] /\ order[o].status # "none"
      /\ UNCHANGED movementVars /\ order' = order /\ amended' = amended /\ stops' = stops
  BY <1>2, <1>4 DEF ToWrite
<1>7. Matches(o, v)
  BY <1>0, <1>3 DEF Matches
<1>8. Extends(o, v)
  BY <1>3 DEF Extends
<1>9. ToBeWritten(q)
  BY <1>1, <1>3, <1>5, <1>7, <1>8 DEF ToBeWritten
<1>10. RequestSound(q)
  BY <1>5, <1>6, <1>9 DEF RequestSound
<1>11. MInv' /\ Grows
  BY <1>6, NothingMoves DEF IInv
<1>12. RequestSound(q)'
  BY <1>6, <1>10, <1>11, RequestKept
<1>13. stops' \in 0..MaxStops
  BY <1>6 DEF IInv, OrdersTyped
<1> QED BY <1>5, <1>6, <1>11, <1>12, <1>13, RequestMoves

LEMMA LoadKeeps ==
  ASSUME IInv, NEW r \in Request, NEW o \in Order, NEW status, Load(r, o, status)
  PROVE  IInv'
<1>0. order[o] \in OrderRecord /\ Matches(o, order[o])
  BY DEF IInv, OrdersTyped, OrderSound
<1>1. PICK v : v = order[o]
  OBVIOUS
<1>2. PICK q : q = [Idle EXCEPT !.at = "loaded", !.does = status, !.order = o, !.read = v]
  OBVIOUS
<1>3. /\ request' = [request EXCEPT ![r] = q] /\ UNCHANGED movementVars
      /\ order' = order /\ amended' = amended /\ stops' = stops
      /\ status \in {"dispatched", "delivered"}
      /\ status = "delivered" => v.movement # 0
      /\ <<order[o].status, status>> \in Transitions
  BY <1>1, <1>2 DEF Load
<1>4. /\ q \in Progress /\ q.at = "loaded" /\ q.order = o /\ q.read = v /\ q.does = status
  BY <1>0, <1>1, <1>2, <1>3, IdleTyped DEF Progress
<1>5. order[o].status # "none"
  BY <1>3 DEF Transitions
<1>6. v.revision \in Nat
  BY <1>0, <1>1 DEF OrderRecord
<1>7. Loaded(q)
  BY <1>0, <1>1, <1>3, <1>4, <1>6 DEF Loaded
<1>8. RequestSound(q)
  BY <1>4, <1>5, <1>7 DEF RequestSound
<1>9. MInv' /\ Grows
  BY <1>3, NothingMoves DEF IInv
<1>10. RequestSound(q)'
  BY <1>3, <1>8, <1>9, RequestKept
<1>11. stops' \in 0..MaxStops
  BY <1>3 DEF IInv, OrdersTyped
<1> QED BY <1>3, <1>4, <1>9, <1>10, <1>11, RequestMoves

LEMMA OrderRequestKeeps ==
  ASSUME IInv, NEW r \in Request, OrderRequest(r)
  PROVE  IInv'
<1> PICK o \in Order :
       \/ \E status \in Status : Advance(r, o, status) \/ Load(r, o, status)
       \/ Reconcile(r, o)
       \/ \E i \in Invoice : AttachInvoice(r, o, i)
       \/ \E a \in AmendId, status \in AmendStatus, to \in Container :
             Amend(r, o, a, status, to)
  BY DEF OrderRequest
<1>1. order[o] \in OrderRecord
  BY DEF IInv, OrdersTyped
<1>2. ASSUME NEW status \in Status, Advance(r, o, status) PROVE IInv'
  <2> DEFINE next == [order[o] EXCEPT !.status = status,
                             !.leg = IF status = "picked-up" THEN "in-transit" ELSE @]
  <2>1. ToWrite(r, o, next, NoAmendment) /\ status \in {"requested", "awarded", "picked-up"}
    BY <1>2 DEF Advance
  <2>2. /\ next \in OrderRecord /\ next.status # "none"
        /\ next.invoices = order[o].invoices /\ next.movement = order[o].movement
        /\ next.leg = "completed" => order[o].leg = "completed"
    BY <1>1, <2>1 DEF OrderRecord
  <2> HIDE DEF next
  <2> QED BY <2>1, <2>2, ToWriteKeeps
<1>3. ASSUME NEW status \in Status, Load(r, o, status) PROVE IInv'
  BY <1>3, LoadKeeps
<1>4. ASSUME Reconcile(r, o) PROVE IInv'
  <2> DEFINE next == [order[o] EXCEPT !.status = "reconciled"]
  <2>1. ToWrite(r, o, next, NoAmendment)
    BY <1>4 DEF Reconcile
  <2>2. /\ next \in OrderRecord /\ next.status # "none" /\ next.leg = order[o].leg
        /\ next.invoices = order[o].invoices /\ next.movement = order[o].movement
    BY <1>1 DEF OrderRecord, Status
  <2> HIDE DEF next
  <2> QED BY <2>1, <2>2, ToWriteKeeps
<1>5. ASSUME NEW i \in Invoice, AttachInvoice(r, o, i) PROVE IInv'
  <2> DEFINE next == [order[o] EXCEPT !.invoices = @ \cup {i},
                             !.status = IF @ = "delivered" THEN "billed" ELSE @]
  <2>1. ToWrite(r, o, next, NoAmendment) /\ order[o].status # "none"
    BY <1>5 DEF AttachInvoice
  <2>2. /\ next \in OrderRecord /\ next.status # "none" /\ next.leg = order[o].leg
        /\ next.invoices = order[o].invoices \cup {i}
        /\ next.movement = order[o].movement
    BY <1>1, <2>1 DEF OrderRecord, Status
  <2> HIDE DEF next
  <2> QED BY <2>1, <2>2, ToWriteKeeps
<1>6. ASSUME NEW a \in AmendId, NEW status \in AmendStatus, NEW to \in Container,
             Amend(r, o, a, status, to)
      PROVE  IInv'
  <2> DEFINE next == [order[o] EXCEPT !.status = status, !.to = to]
  <2>1. ToWrite(r, o, next, a)
    BY <1>6 DEF Amend
  <2>2. status \in Status /\ status # "none"
    BY OrdersAssumption
  <2>3. /\ next \in OrderRecord /\ next.status # "none" /\ next.leg = order[o].leg
        /\ next.invoices = order[o].invoices /\ next.movement = order[o].movement
    BY <1>1, <2>2 DEF OrderRecord
  <2> HIDE DEF next
  <2> QED BY <2>1, <2>3, ToWriteKeeps
<1> QED BY <1>2, <1>3, <1>4, <1>5, <1>6

LEMMA StopsTyped ==
  ASSUME OrdersTyped, NEW cut, StopsIf(cut)
  PROVE  stops' \in 0..MaxStops
  BY BoundsAssumption DEF OrdersTyped, StopsIf

(* The movement call of r succeeded, and what r will write tells the truth   *)
(* about the movement.                                                       *)
LEMMA ProceedKeeps ==
  ASSUME IInv, MInv', Grows, order' = order, amended' = amended, stops' \in 0..MaxStops,
         NEW r \in Request, NEW p, p = request[r], p.at = "loaded",
         NEW m \in Nat \ {0}, NEW leg \in {"requested", "completed"},
         Proceed(r, m, leg),
         Freight(m)', movements'[m].by = DispatchId(p.order),
         leg = "completed" => movements'[m].status = "completed",
         p.read.movement # 0 => m = p.read.movement,
         p.read.movement = 0 => movements'[m].to = p.read.to
  PROVE  IInv'
<1>0. p \in Progress /\ RequestSound(p)
  BY DEF IInv, OrdersTyped
<1>1. Loaded(p) /\ order[p.order].status # "none"
  BY <1>0 DEF RequestSound
<1>2. p.read \in OrderRecord /\ p.order \in Order /\ order[p.order] \in OrderRecord
  BY <1>0 DEF Progress, IInv, OrdersTyped
<1>3. p.read.revision \in Nat /\ order[p.order].revision \in Nat
  BY <1>2 DEF OrderRecord
<1>4. PICK k \in Nat : k = p.read.revision + 1
  BY <1>3
<1>5. PICK v : v = [p.read EXCEPT !.status = p.does, !.revision = k, !.movement = m, !.leg = leg]
  OBVIOUS
<1>6. p.does \in {"dispatched", "delivered"}
  BY <1>1 DEF Loaded
<1>7. /\ v \in OrderRecord /\ v.status = p.does /\ v.revision = k /\ v.movement = m
      /\ v.leg = leg /\ v.invoices = p.read.invoices /\ v.to = p.read.to
  BY <1>2, <1>5, <1>6 DEF OrderRecord, Status
<1>8. PICK q : q = [Idle EXCEPT !.at = "write", !.order = p.order, !.next = v]
  OBVIOUS
<1>9. q \in Progress /\ q.at = "write" /\ q.order = p.order /\ q.next = v
  BY <1>2, <1>7, <1>8, IdleTyped DEF Progress
<1>10. request' = [request EXCEPT ![r] = q]
  BY <1>4, <1>5, <1>8 DEF Proceed
<1>11. Matches(p.order, v)'
  BY <1>7 DEF Matches, DispatchId
<1>12. v.revision <= order[p.order].revision + 1
  BY <1>1, <1>3, <1>4, <1>7 DEF Loaded
<1>13. ASSUME v.revision = order[p.order].revision + 1
       PROVE  Extends(p.order, v)'
  <2>1. p.read = order[p.order]
    BY <1>1, <1>3, <1>4, <1>7, <1>13 DEF Loaded
  <2> QED BY <2>1, <1>7 DEF Extends
<1>14. v.status # "none"
  BY <1>6, <1>7
<1>15. ToBeWritten(q)'
  BY <1>9, <1>11, <1>12, <1>13, <1>14 DEF ToBeWritten
<1>16. RequestSound(q)'
  BY <1>1, <1>9, <1>15 DEF RequestSound
<1> QED BY <1>9, <1>10, <1>16, RequestMoves

(* dispatch.  The command ID stands for the order, so that the movement      *)
(* it answers with is the order's, if the order has one.                     *)
LEMMA DispatchKeeps ==
  ASSUME IInv, NEW r \in Request, NEW n \in 0..Len(RequestWrites), DispatchMove(r, n)
  PROVE  IInv'
<1>1. PICK p : p = request[r]
  OBVIOUS
<1>2. p \in Progress /\ RequestSound(p)
  BY <1>1 DEF IInv, OrdersTyped
<1>3. p.at = "loaded" /\ order' = order /\ amended' = amended
  BY <1>1 DEF DispatchMove
<1>4. Matches(p.order, p.read) /\ p.order \in Order /\ p.read \in OrderRecord
  BY <1>2, <1>3 DEF RequestSound, Loaded, Progress
<1>5. p.read.to \in Container
  BY <1>4 DEF OrderRecord
<1>6. PICK id \in MoveId : id = DispatchId(p.order)
  BY <1>4 DEF MoveId, DispatchId
<1>7. MInv /\ OrdersTyped
  BY DEF IInv
<1>8. ASSUME p.read.movement # 0
      PROVE  id \in DOMAIN command /\ command[id].movement = p.read.movement
  <2>1. p.read.movement \in DOMAIN movements /\ movements[p.read.movement].by = id
    BY <1>4, <1>6, <1>8 DEF Matches, Freight
  <2> QED BY <2>1 DEF IInv, MInv, RecordsNamed, Recorded
<1>9. CASE /\ RequestFreightMove(id, p.read.to, n)
           /\ IF Succeeds(n, RequestWrites) THEN Proceed(r, Len(movements) + 1, "requested")
              ELSE End(r)
           /\ StopsIf(~Succeeds(n, RequestWrites))
  <2>1. /\ MInv' /\ Grows
        /\ n = Len(RequestWrites) =>
              \E m \in Nat \ {0} :
                 /\ m = Len(movements) + 1 /\ Freight(m)'
                 /\ movements'[m].by = id /\ movements'[m].to = p.read.to
    BY <1>5, <1>7, <1>9, RequestKeeps
  <2>2. stops' \in 0..MaxStops
    BY <1>7, <1>9, StopsTyped
  <2>3. p.read.movement = 0
    BY <1>8, <1>9 DEF RequestFreightMove, Fresh
  <2>4. CASE n = Len(RequestWrites)
    <3>1. PICK m \in Nat \ {0} :
             /\ m = Len(movements) + 1 /\ Freight(m)'
             /\ movements'[m].by = id /\ movements'[m].to = p.read.to
      BY <2>1, <2>4
    <3>2. Proceed(r, m, "requested")
      BY <1>9, <2>4, <3>1 DEF Succeeds
    <3>3. movements'[m].by = DispatchId(p.order) /\ movements'[m].to = p.read.to
      BY <1>6, <3>1
    <3> QED BY <1>1, <1>3, <2>1, <2>2, <2>3, <3>1, <3>2, <3>3, ProceedKeeps
  <2>5. CASE n # Len(RequestWrites)
    BY <1>3, <1>9, <2>1, <2>2, <2>5, EndKeeps DEF Succeeds
  <2> QED BY <2>4, <2>5
<1>10. CASE /\ Replays(id, "request", Task(p.read.to, 0))
            /\ Proceed(r, command[id].movement, "requested")
            /\ UNCHANGED <<movementVars, stops>>
  <2>1. MInv' /\ Grows
    BY <1>7, <1>10, NothingMoves
  <2>2. PICK m : m = command[id].movement
    OBVIOUS
  <2>3. m \in DOMAIN movements /\ movements[m].by = id /\ Recorded(m)
    BY <1>7, <1>10, <2>2 DEF MInv, CompletedNamed, RecordsNamed, Replays
  <2>4. m \in Nat \ {0}
    BY <1>7, <2>3 DEF MInv, MovementsTyped
  <2>5. Freight(m)
    BY <1>10, <2>3 DEF Freight, Replays
  <2>6. Task(movements[m].to, movements[m].freight) = Task(p.read.to, 0)
    BY <1>10, <2>3 DEF Recorded, Replays
  <2>7. movements[m].to = p.read.to
    BY <2>6, TaskSame
  <2>8. Freight(m)' /\ movements'[m].by = DispatchId(p.order) /\ movements'[m].to = p.read.to
    BY <1>6, <2>1, <2>3, <2>5, <2>7 DEF Grows
  <2>9. stops' \in 0..MaxStops
    BY <1>7, <1>10 DEF OrdersTyped
  <2>10. p.read.movement # 0 => m = p.read.movement
    BY <1>8, <2>2
  <2>11. Proceed(r, m, "requested")
    BY <1>10, <2>2
  <2> QED BY <1>1, <1>3, <2>1, <2>4, <2>8, <2>9, <2>10, <2>11, ProceedKeeps
<1> QED BY <1>1, <1>6, <1>9, <1>10 DEF DispatchMove

(* deliver.  The order's movement is completed, or was so before.            *)
LEMMA DeliverKeeps ==
  ASSUME IInv, NEW r \in Request, NEW n \in 0..Len(CompleteWrites), DeliverMove(r, n)
  PROVE  IInv'
<1>1. PICK p : p = request[r]
  OBVIOUS
<1>2. p \in Progress /\ RequestSound(p)
  BY <1>1 DEF IInv, OrdersTyped
<1>3. p.at = "loaded" /\ p.does = "delivered" /\ order' = order /\ amended' = amended
  BY <1>1 DEF DeliverMove
<1>4. Loaded(p) /\ p.order \in Order /\ p.read \in OrderRecord
  BY <1>2, <1>3 DEF RequestSound, Progress
<1>5. PICK m : m = p.read.movement
  OBVIOUS
<1>6. /\ m \in Nat \ {0} /\ m \in DOMAIN movements
      /\ Freight(m) /\ movements[m].by = DispatchId(p.order)
  BY <1>3, <1>4, <1>5 DEF Loaded, Matches, OrderRecord, Freight
<1>7. DeliverId(m) \in MoveId
  BY <1>6 DEF MoveId, DeliverId
<1>8. MInv /\ OrdersTyped
  BY DEF IInv
<1>9. CASE /\ CompleteFreightMove(DeliverId(m), m, n)
           /\ IF Settled(n) THEN Proceed(r, m, "completed") ELSE End(r)
           /\ StopsIf(~Succeeds(n, CompleteWrites))
  <2>1. /\ MInv' /\ Grows
        /\ n = Len(CompleteWrites) => movements'[m].status = "completed"
    BY <1>7, <1>8, <1>9, CompleteKeeps
  <2>2. stops' \in 0..MaxStops
    BY <1>8, <1>9, StopsTyped
  <2>3. Freight(m)' /\ movements'[m].by = DispatchId(p.order)
    BY <1>6, <2>1 DEF Grows
  <2>4. CASE Settled(n)
    <3>1. movements'[m].status = "completed" /\ Proceed(r, m, "completed")
      BY <1>9, <2>1, <2>4 DEF Settled, Succeeds
    <3> QED BY <1>1, <1>3, <1>5, <1>6, <2>1, <2>2, <2>3, <3>1, ProceedKeeps
  <2>5. CASE ~Settled(n)
    BY <1>3, <1>9, <2>1, <2>2, <2>5, EndKeeps
  <2> QED BY <2>4, <2>5
<1>10. CASE /\ Freight(m) /\ movements[m].status = "completed"
            /\ Proceed(r, m, "completed")
            /\ UNCHANGED <<movementVars, stops>>
  <2>1. MInv' /\ Grows
    BY <1>8, <1>10, NothingMoves
  <2>2. stops' \in 0..MaxStops
    BY <1>8, <1>10 DEF OrdersTyped
  <2>3. /\ Freight(m)' /\ movements'[m].by = DispatchId(p.order)
        /\ movements'[m].status = "completed"
    BY <1>6, <1>10, <2>1 DEF Grows
  <2> QED BY <1>1, <1>3, <1>5, <1>6, <1>10, <2>1, <2>2, <2>3, ProceedKeeps
<1> QED BY <1>1, <1>5, <1>9, <1>10 DEF DeliverMove

(* The orders and the requests stay where they are.                          *)
LEMMA StayKeeps ==
  ASSUME IInv, MInv', Grows, UNCHANGED <<order, amended, request>>, stops' \in 0..MaxStops
  PROVE  IInv'
<1>1. OrdersTyped'
  BY DEF IInv, OrdersTyped
<1>2. ASSUME NEW o \in Order PROVE OrderSound(o)'
  <2>1. Matches(o, order[o]) /\ (order[o].status = "none" => order[o] = NoOrder)
    BY DEF IInv, OrderSound
  <2>2. PICK v : v = order[o]
    OBVIOUS
  <2>3. Matches(o, v)' /\ v = order'[o]
    BY <2>1, <2>2, MatchesKept
  <2>4. Matches(o, order[o])'
    BY <2>3
  <2>5. order'[o].status = "none" => order'[o] = NoOrder
    BY <2>1
  <2> QED BY <2>4, <2>5 DEF OrderSound, NoOrder
<1>3. ASSUME NEW s \in Request PROVE RequestSound(request[s])'
  <2>1. PICK q : q = request[s]
    OBVIOUS
  <2>2. RequestSound(q)' /\ q = request'[s]
    BY <2>1, RequestKept DEF IInv
  <2> QED BY <2>2
<1> QED BY <1>1, <1>2, <1>3 DEF IInv

LEMMA ClientKeeps ==
  ASSUME IInv, NEW c \in Client, ClientCall(c)
  PROVE  IInv'
<1>1. UNCHANGED <<order, amended, request>> /\ MInv /\ OrdersTyped
  BY DEF ClientCall, IInv
<1>2. ClientId(c) \in MoveId
  BY DEF ClientId, MoveId
<1> PICK n \in Writes, to \in Container :
       \/ /\ n <= Len(MoveWrites) /\ ClientMove(c, to, n)
          /\ StopsIf(~Succeeds(n, MoveWrites))
       \/ /\ n <= Len(RequestWrites) /\ ClientRequest(c, to, n)
          /\ StopsIf(~Succeeds(n, RequestWrites))
       \/ \E m \in DOMAIN movements :
             ClientComplete(c, m, n) /\ StopsIf(~Succeeds(n, CompleteWrites))
  BY DEF ClientCall
<1>3. n \in 0..Len(CompleteWrites)
  BY DEF Writes
<1>4. stops' \in 0..MaxStops
  BY <1>1, StopsTyped
<1>5. CASE n <= Len(MoveWrites) /\ ClientMove(c, to, n)
  <2>1. n \in 0..Len(MoveWrites)
    BY <1>3, <1>5, MoveWritesAre, CompleteWritesAre
  <2>2. ExecuteImmediateMove(ClientId(c), Task(to, 0), n)
    BY <1>5 DEF ClientMove
  <2>3. MInv' /\ Grows
    BY <1>1, <1>2, <2>1, <2>2, MoveKeeps
  <2> QED BY <1>1, <1>4, <2>3, StayKeeps
<1>6. CASE n <= Len(RequestWrites) /\ ClientRequest(c, to, n)
  <2>1. n \in 0..Len(RequestWrites)
    BY <1>3, <1>6, RequestWritesAre, CompleteWritesAre
  <2>2. RequestFreightMove(ClientId(c), to, n)
    BY <1>6 DEF ClientRequest
  <2>3. MInv' /\ Grows
    BY <1>1, <1>2, <2>1, <2>2, RequestKeeps
  <2> QED BY <1>1, <1>4, <2>3, StayKeeps
<1>7. ASSUME NEW m \in DOMAIN movements, ClientComplete(c, m, n) PROVE IInv'
  <2>1. CompleteFreightMove(ClientId(c), m, n)
    BY <1>7 DEF ClientComplete
  <2>2. MInv' /\ Grows
    BY <1>1, <1>2, <1>3, <2>1, CompleteKeeps
  <2> QED BY <1>1, <1>4, <2>2, StayKeeps
<1> QED BY <1>5, <1>6, <1>7

LEMMA Initially == Init => IInv
<1> SUFFICES ASSUME Init PROVE IInv
  OBVIOUS
<1> USE DEF Init, MovementInit
<1>1. MovementsTyped
  <2>1. DOMAIN command = {} /\ movements \in Seq(Record) /\ transfers \in Seq(Transfer)
    OBVIOUS
  <2>2. command \in [DOMAIN command -> Command]
    OBVIOUS
  <2> QED BY <2>1, <2>2, YardAssumption DEF MovementsTyped
<1>2. RecordsNamed /\ CompletedNamed /\ MovesEvident /\ TransfersNamed /\ MovedOnce
  BY DEF RecordsNamed, CompletedNamed, MovesEvident, TransfersNamed, MovedOnce
<1>3. OrdersTyped
  BY NoOrderTyped, IdleTyped, BoundsAssumption DEF OrdersTyped
<1>4. \A o \in Order : OrderSound(o)
  BY DEF OrderSound, Matches, NoOrder
<1>5. \A r \in Request : RequestSound(request[r])
  BY IdleTyped DEF RequestSound
<1> QED BY <1>1, <1>2, <1>3, <1>4, <1>5 DEF IInv, MInv

LEMMA Preserved == IInv /\ [Next]_vars => IInv'
<1> SUFFICES ASSUME IInv, [Next]_vars PROVE IInv'
  OBVIOUS
<1>1. ASSUME NEW o \in Order, NEW to \in Container, Create(o, to) PROVE IInv'
  BY <1>1, CreateKeeps
<1>2. ASSUME NEW r \in Request, OrderRequest(r) PROVE IInv'
  BY <1>2, OrderRequestKeeps
<1>3. ASSUME NEW r \in Request, MovementCall(r) PROVE IInv'
  <2>1. PICK n \in Writes :
           (n <= Len(RequestWrites) /\ DispatchMove(r, n)) \/ DeliverMove(r, n)
    BY <1>3 DEF MovementCall
  <2>2. n \in 0..Len(CompleteWrites)
    BY DEF Writes
  <2>3. n <= Len(RequestWrites) => n \in 0..Len(RequestWrites)
    BY <2>2, RequestWritesAre, CompleteWritesAre
  <2> QED BY <2>1, <2>2, <2>3, DispatchKeeps, DeliverKeeps
<1>4. ASSUME NEW r \in Request, Replace(r) PROVE IInv'
  BY <1>4, ReplaceKeeps
<1>5. ASSUME NEW r \in Request, Abandon(r) PROVE IInv'
  <2>1. MInv' /\ Grows
    BY <1>5, NothingMoves DEF Abandon, IInv
  <2>2. stops' \in 0..MaxStops
    BY <1>5 DEF Abandon, IInv, OrdersTyped
  <2> QED BY <1>5, <2>1, <2>2, EndKeeps DEF Abandon
<1>6. ASSUME NEW c \in Client, ClientCall(c) PROVE IInv'
  BY <1>6, ClientKeeps
<1>7. CASE UNCHANGED vars
  <2>1. MInv' /\ Grows
    BY <1>7, NothingMoves DEF IInv, vars, movementVars
  <2>2. stops' \in 0..MaxStops
    BY <1>7 DEF vars, IInv, OrdersTyped
  <2> QED BY <1>7, <2>1, <2>2, StayKeeps DEF vars
<1> QED BY <1>1, <1>2, <1>3, <1>4, <1>5, <1>6, <1>7 DEF Next

LEMMA Invariance == Spec => []IInv
  BY Initially, Preserved, PTL DEF Spec

----------------------------------------------------------------------------
(* Orders, requests, commands, movement records and placements are of their  *)
(* types in every state (freightOrderStore.js, movementService.js).          *)
THEOREM TypesHold == Spec => []TypeOK
<1>1. IInv => TypeOK
  BY MovementTypesHold DEF IInv, OrdersTyped, TypeOK
<1> QED BY <1>1, Invariance, PTL

(* A command places the machine at most once, and a freight movement is      *)
(* executed again only if every earlier execution was cut off before it      *)
(* could be marked: for any number of clients, orders, retries and calls     *)
(* that fail between two writes (movementService.js, completeFreightMove).   *)
THEOREM PlacedOnce == Spec => []MovedOnce
<1>1. IInv => MovedOnce
  BY DEF IInv, MInv
<1> QED BY <1>1, Invariance, PTL

(* What the records say happened did happen, wherever the writes of a        *)
(* movement call stopped (movementService.js).                               *)
THEOREM RecordsTrue == Spec => []EvidenceTrue
<1>1. IInv => EvidenceTrue
  BY EvidenceHolds DEF IInv
<1> QED BY <1>1, Invariance, PTL

(* Order and movement agree although they are written to two stores, one     *)
(* after the other, and others write in between (freightService.js,          *)
(* dispatch and deliver).                                                    *)
THEOREM OrdersMatch == Spec => []OrderMatchesMovement
<1>1. IInv => OrderMatchesMovement
  BY DEF IInv, OrderSound, Matches, OrderMatchesMovement
<1> QED BY <1>1, Invariance, PTL

(* No replacement of an order undoes another, however many requests hold a   *)
(* version of it: invoices stay, and so does the movement, which goes where  *)
(* the order goes when the order gets it (freightService.js, replaceOrder).  *)
THEOREM OrdersKept == Spec => OrderKept
<1>1. ASSUME IInv, [Next]_vars, NEW o \in Order
      PROVE  InvoicesKept(o) /\ MovementKept(o)
  <2>1. ASSUME order'[o] = order[o] PROVE InvoicesKept(o) /\ MovementKept(o)
    BY <2>1 DEF InvoicesKept, MovementKept
  <2>2. ASSUME NEW next, order'[o] = next, movements' = movements, Extends(o, next)
        PROVE  InvoicesKept(o) /\ MovementKept(o)
    BY <2>2 DEF InvoicesKept, MovementKept, Extends
  <2>3. ASSUME NEW p \in Order, NEW to \in Container, Create(p, to)
        PROVE  InvoicesKept(o) /\ MovementKept(o)
    <3>1. CASE p = o
      BY <1>1, <2>2, <2>3, <3>1, CreateKeeps DEF Create, movementVars
    <3>2. CASE p # o
      BY <2>1, <2>3, <3>2 DEF Create
    <3> QED BY <3>1, <3>2
  <2>4. ASSUME NEW r \in Request, Replace(r)
        PROVE  InvoicesKept(o) /\ MovementKept(o)
    <3>1. /\ Extends(request[r].order, request[r].next) /\ movements' = movements
          /\ order' = [order EXCEPT ![request[r].order] = request[r].next]
      BY <1>1, <2>4, ReplaceKeeps DEF Replace, movementVars
    <3>2. CASE request[r].order = o
      <4>1. order'[o] = request[r].next
        BY <1>1, <3>1, <3>2 DEF IInv, OrdersTyped
      <4> QED BY <2>2, <3>1, <3>2, <4>1
    <3>3. CASE request[r].order # o
      <4>1. order'[o] = order[o]
        BY <3>1, <3>3
      <4> QED BY <2>1, <4>1
    <3> QED BY <3>2, <3>3
  <2>5. ASSUME NEW r \in Request, OrderRequest(r) PROVE order' = order
    BY <2>5 DEF OrderRequest, Advance, Load, Reconcile, AttachInvoice, Amend, ToWrite
  <2>6. ASSUME NEW r \in Request, MovementCall(r) PROVE order' = order
    BY <2>6 DEF MovementCall, DispatchMove, DeliverMove
  <2>7. ASSUME NEW r \in Request, Abandon(r) PROVE order' = order
    BY <2>7 DEF Abandon
  <2>8. ASSUME NEW c \in Client, ClientCall(c) PROVE order' = order
    BY <2>8 DEF ClientCall
  <2>9. CASE UNCHANGED vars
    BY <2>1, <2>9 DEF vars
  <2> QED BY <1>1, <2>1, <2>3, <2>4, <2>5, <2>6, <2>7, <2>8, <2>9 DEF Next
<1>2. IInv /\ [Next]_vars => [\A o \in Order : InvoicesKept(o) /\ MovementKept(o)]_vars
  BY <1>1
<1> QED BY <1>2, Invariance, PTL DEF Spec, OrderKept

=============================================================================
