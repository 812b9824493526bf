----------------------- MODULE CreationCommand_proofs -----------------------
(***************************************************************************)
(* Theorems about create-and-attach, for any set of requests and any bound *)
(* on faults.                                                               *)
(***************************************************************************)
EXTENDS CreationCommand, FiniteSetTheorems, TLAPS

(* Before the intent is saved there is nothing; afterwards an Object is      *)
(* reserved.                                                                 *)
Reserved ==
    /\ command.status = "none" =>
          command.reserved = NoObject /\ identity = "none" /\ command.token = Nobody
    /\ command.status # "none" => command.reserved \in Object

(* Only the reserved Object exists; its Passport, link and edges were made   *)
(* after it, and an identity is completed only for a linked Object.          *)
ObjectSound(o) ==
    /\ object[o].state # "none" => o = command.reserved
    /\ passports[o] <= 1 /\ edges[o].active <= 1
    /\ passports[o] > 0 \/ object[o].linked \/ edges[o].active + edges[o].ended > 0 =>
          object[o].state # "none"
    /\ object[o].linked => passports[o] = 1
    /\ identity = "completed" /\ o = command.reserved => object[o].linked

(* Between two awaits a request has the event loop to itself, and an attempt *)
(* that holds it still has the lease token it took.                          *)
LoopExclusive ==
    \A r, q \in Request :
        request[r].at \in Running /\ request[q].at \in Running => r = q

LeaseSound(r) ==
    LET at == request[r].at IN
    /\ at \notin {"idle", "intent"} => command.status # "none"
    /\ at \in Running \ {"fail"} => command.token = r
    /\ at \in Attempt /\ command.token = r => command.status = "processing"

(* What an attempt has done by the time it stands where it stands.           *)
Identified == {"resolve", "confirm", "recheck", "attach", "event", "receipt"}
AttemptSound(r) ==
    LET at == request[r].at
        o == request[r].object IN
    /\ at = "intent" => o \in Object
    /\ at \in Provisioning \cup Identified => o = command.reserved
    /\ at \in Provisioning \ {"create"} => object[o].state # "none"
    /\ at \in {"link", "finish"} => passports[o] = 1
    /\ at = "finish" => object[o].linked
    /\ at \in Identified => identity = "completed"
    /\ at \in {"recheck", "attach", "event"} => command.member
    /\ at = "event" => edges[o].active = 1
    /\ at = "receipt" /\ command.member => edges[o].active + edges[o].ended > 0

(* The inductive invariant.                                                  *)
IInv ==
    /\ TypeOK
    /\ Reserved
    /\ \A o \in Object : ObjectSound(o)
    /\ LoopExclusive
    /\ \A r \in Request : LeaseSound(r)
    /\ \A r \in Request : AttemptSound(r)
    /\ ReceiptTrue

-----------------------------------------------------------------------------
LEMMA InitIInv == Init => IInv
  <1> SUFFICES ASSUME Init PROVE IInv
    OBVIOUS
  <1> USE DEF Init
  <1>1. command \in Command /\ command.status = "none" /\ command.reserved = NoObject
        /\ command.token = Nobody
    BY DEF Command, CommandStatus
  <1>2. TypeOK
    BY <1>1, FaultsAssumption
       DEF TypeOK, IdentityStatus, ObjectRecord, EdgeCount, RequestRecord, Gone
  <1>3. \A r \in Request : request[r].at = "idle"
    BY DEF Gone
  <1>4. Reserved /\ LoopExclusive /\ ReceiptTrue
    BY <1>1, <1>3 DEF Reserved, LoopExclusive, ReceiptTrue, Running, Provisioning
  <1>5. \A o \in Object : ObjectSound(o)
    BY <1>1 DEF ObjectSound
  <1>6. \A r \in Request : LeaseSound(r) /\ AttemptSound(r)
    BY <1>3 DEF LeaseSound, AttemptSound, Running, Provisioning, Attempt, Identified
  <1>7. QED
    BY <1>2, <1>4, <1>5, <1>6 DEF IInv

(* What a step of a request into the given state does to the requests.       *)
LEMMA GotoShape ==
    ASSUME TypeOK, NEW r \in Request, NEW at \in {"idle"} \cup Awaiting \cup Running, Goto(r, at)
    PROVE  /\ request' \in [Request -> RequestRecord]
           /\ request'[r] = [request[r] EXCEPT !.at = at]
           /\ request'[r].at = at /\ request'[r].object = request[r].object
           /\ \A q \in Request \ {r} : request'[q] = request[q]
  BY DEF Goto, TypeOK, RequestRecord

LEMMA EndShape ==
    ASSUME TypeOK, NEW r \in Request, End(r)
    PROVE  /\ request' \in [Request -> RequestRecord]
           /\ request'[r] = Gone
           /\ \A q \in Request \ {r} : request'[q] = request[q]
  BY DEF End, TypeOK, RequestRecord, Gone

(* A step of one request, whatever it writes, disturbs no other request: the *)
(* others await (the step has the event loop), and what they rely on stays.  *)
LEMMA StepKeepsIInv ==
    ASSUME IInv, NEW r \in Request, LoopFree \/ request[r].at \in Running,
           TypeOK', \A q \in Request \ {r} : request'[q] = request[q],
           command'.member = command.member,
           command.status # "none" =>
              command'.status # "none" /\ command'.reserved = command.reserved,
           \A q \in Request \ {r} : command'.token = q =>
              command.token = q /\ command'.status = command.status,
           identity = "completed" => identity' = "completed",
           Reserved', \A o \in Object : ObjectSound(o)', ReceiptTrue',
           LeaseSound(r)', AttemptSound(r)'
    PROVE  IInv'
  <1>1. \A q \in Request \ {r} : request[q].at \notin Running
    BY DEF IInv, LoopExclusive, LoopFree
  <1>2. LoopExclusive'
    BY <1>1 DEF LoopExclusive
  <1>3. ASSUME NEW q \in Request \ {r}
        PROVE  LeaseSound(q)' /\ AttemptSound(q)'
    <2>1. LeaseSound(q) /\ AttemptSound(q) /\ request'[q] = request[q]
      BY DEF IInv
    <2>2. LeaseSound(q)'
      BY <1>1, <2>1 DEF LeaseSound
    <2>3. request[q].at \notin Provisioning
          /\ (request[q].at \in Identified => request[q].at \in {"confirm", "recheck"})
      BY <1>1 DEF Running, Identified
    <2>4. AttemptSound(q)'
      BY <1>1, <2>1, <2>3 DEF AttemptSound, LeaseSound, Provisioning, Running, Identified
    <2>5. QED
      BY <2>2, <2>4
  <1>4. QED
    BY <1>2, <1>3 DEF IInv

(* A step that only moves a request.                                         *)
LEMMA MoveKeepsIInv ==
    ASSUME IInv, NEW r \in Request, LoopFree \/ request[r].at \in Running,
           UNCHANGED <<command, identity, object, passports, edges>>,
           faults' \in 0..MaxFaults, request' \in [Request -> RequestRecord],
           \A q \in Request \ {r} : request'[q] = request[q],
           LeaseSound(r)', AttemptSound(r)'
    PROVE  IInv'
  <1>1. TypeOK'
    BY DEF IInv, TypeOK
  <1>2. Reserved' /\ ReceiptTrue' /\ \A o \in Object : ObjectSound(o)'
    BY DEF IInv, Reserved, ReceiptTrue, ObjectSound
  <1>3. QED
    BY <1>1, <1>2, StepKeepsIInv

(* A request that ends relies on nothing any more.                           *)
LEMMA GoneSound ==
    ASSUME NEW r \in Request, request'[r] = Gone
    PROVE  LeaseSound(r)' /\ AttemptSound(r)'
  BY DEF Gone, LeaseSound, AttemptSound, Running, Provisioning, Attempt, Identified
-----------------------------------------------------------------------------
(* Steps that only move a request: arrivals, decisions and faults.           *)

LEMMA ArrivalKeepsIInv ==
    ASSUME IInv, NEW r \in Request,
           StartNew(r) \/ Resume(r) \/ StartAcknowledge(r) \/ Replay(r)
    PROVE  IInv'
  <1>0. TypeOK /\ LoopFree /\ faults' \in 0..MaxFaults
        /\ UNCHANGED <<command, identity, object, passports, edges>>
    BY DEF IInv, TypeOK, StartNew, Resume, StartAcknowledge, Replay
  <1>1. CASE StartNew(r)
    <2>1. PICK o \in Object :
             request' = [request EXCEPT ![r] = [at |-> "intent", object |-> o, recovers |-> FALSE]]
      BY <1>1 DEF StartNew
    <2>2. /\ request'[r] = [at |-> "intent", object |-> o, recovers |-> FALSE]
          /\ request' \in [Request -> RequestRecord]
          /\ \A q \in Request \ {r} : request'[q] = request[q]
      BY <1>0, <2>1 DEF TypeOK, RequestRecord, Awaiting
    <2>3. LeaseSound(r)' /\ AttemptSound(r)'
      BY <2>2 DEF LeaseSound, AttemptSound, Running, Provisioning, Attempt, Identified
    <2>4. QED
      BY <1>0, <2>2, <2>3, MoveKeepsIInv
  <1>2. ASSUME NEW at \in {"authorize", "replay", "acknowledge"},
               Goto(r, at), command.status # "none"
        PROVE  IInv'
    <2>1. /\ request'[r].at = at /\ request' \in [Request -> RequestRecord]
          /\ \A q \in Request \ {r} : request'[q] = request[q]
      BY <1>0, <1>2, GotoShape DEF Awaiting
    <2>2. LeaseSound(r)' /\ AttemptSound(r)'
      BY <1>0, <1>2, <2>1
         DEF LeaseSound, AttemptSound, Running, Provisioning, Attempt, Identified
    <2>3. QED
      BY <1>0, <2>1, <2>2, MoveKeepsIInv
  <1>3. CASE Resume(r)
    BY <1>2, <1>3 DEF Resume
  <1>4. CASE StartAcknowledge(r)
    BY <1>2, <1>4 DEF StartAcknowledge
  <1>5. CASE Replay(r)
    BY <1>0, <1>5, EndShape, GoneSound, MoveKeepsIInv DEF Replay
  <1>6. QED
    BY <1>1, <1>3, <1>4, <1>5

(* An attempt that gives up, having lost its lease or met an error.          *)
LEMMA GiveUpKeepsIInv ==
    ASSUME IInv, NEW r \in Request, LoopFree \/ request[r].at \in Running,
           request[r].at \in Attempt, Goto(r, "fail"), faults' \in 0..MaxFaults,
           UNCHANGED <<command, identity, object, passports, edges>>
    PROVE  IInv'
  <1>1. /\ request'[r].at = "fail" /\ request' \in [Request -> RequestRecord]
        /\ \A q \in Request \ {r} : request'[q] = request[q]
    BY GotoShape DEF IInv, Running
  <1>2. LeaseSound(r)
    BY DEF IInv
  <1>3. LeaseSound(r)' /\ AttemptSound(r)'
    BY <1>1, <1>2
       DEF LeaseSound, AttemptSound, Running, Provisioning, Attempt, Identified
  <1>4. QED
    BY <1>1, <1>3, MoveKeepsIInv
LEMMA DecisionKeepsIInv ==
    ASSUME IInv, NEW r \in Request,
           \/ Recover(r) \/ CannotProvision(r) \/ Resolve(r)
           \/ Confirm(r) \/ Recheck(r) \/ AppendEvent(r)
    PROVE  IInv'
  <1>0. /\ TypeOK /\ LeaseSound(r) /\ AttemptSound(r)
        /\ faults' \in 0..MaxFaults
        /\ UNCHANGED <<command, identity, object, passports, edges>>
        /\ LoopFree \/ request[r].at \in Running
        /\ request[r].at \in Attempt
    BY DEF IInv, TypeOK, Recover, CannotProvision, Resolve, Confirm, Recheck, AppendEvent,
           Running, Attempt
  <1>1. ASSUME NEW at \in {"confirm", "recheck", "attach", "receipt"}, Goto(r, at),
               request[r].at \in Identified,
               at \notin {"confirm", "recheck"} => command.token = r,
               at \in {"recheck", "attach"} => command.member,
               at = "receipt" /\ command.member =>
                  edges[request[r].object].active + edges[request[r].object].ended > 0
        PROVE  IInv'
    <2>1. /\ request'[r].at = at /\ request'[r].object = request[r].object
          /\ request' \in [Request -> RequestRecord]
          /\ \A q \in Request \ {r} : request'[q] = request[q]
      BY <1>0, <1>1, GotoShape DEF Awaiting, Running
    <2>2. LeaseSound(r)'
      BY <1>0, <1>1, <2>1 DEF LeaseSound, Running, Provisioning, Attempt
    <2>3. AttemptSound(r)'
      BY <1>0, <1>1, <2>1 DEF AttemptSound, Provisioning, Identified
    <2>4. QED
      BY <1>0, <2>1, <2>2, <2>3, MoveKeepsIInv
  <1>2. CASE Goto(r, "fail")
    BY <1>0, <1>2, GiveUpKeepsIInv
  <1>3. CASE Recover(r)
    <2>1. PICK o \in Object :
             /\ Found = {o}
             /\ request' = [request EXCEPT ![r] =
                   [at |-> CASE identity = "none" -> "fail"
                             [] identity = "completed" -> "resolve"
                             [] OTHER -> IF ~object[o].linked THEN "passport"
                                         ELSE IF passports[o] > 0 THEN "finish" ELSE "fail",
                    object |-> o, recovers |-> TRUE]]
      BY <1>3 DEF Recover
    <2> DEFINE at == request'[r].at
    <2>2. /\ at \in {"fail", "resolve", "passport", "finish"}
          /\ request'[r].object = o
          /\ request' \in [Request -> RequestRecord]
          /\ \A q \in Request \ {r} : request'[q] = request[q]
          /\ at = "resolve" => identity = "completed"
          /\ at = "finish" => object[o].linked
      BY <1>0, <2>1 DEF TypeOK, RequestRecord, Running, Provisioning
    <2>3. object[o].state = "active" /\ ObjectSound(o)
      BY <2>1 DEF Found, IInv
    <2>4. o = command.reserved /\ (object[o].linked => passports[o] = 1)
      BY <2>3 DEF ObjectSound
    <2>5. LeaseSound(r)'
      BY <1>0, <1>3, <2>2 DEF Recover, HoldsLease, LeaseSound, Running, Provisioning, Attempt
    <2>6. AttemptSound(r)'
      BY <1>0, <2>2, <2>3, <2>4 DEF AttemptSound, Provisioning, Identified
    <2>7. QED
      BY <1>0, <2>2, <2>5, <2>6, MoveKeepsIInv
  <1>4. CASE CannotProvision(r)
    BY <1>2, <1>4 DEF CannotProvision
  <1>5. CASE Resolve(r)
    BY <1>1, <1>2, <1>5 DEF Resolve, Identified
  <1>6. CASE Confirm(r)
    BY <1>1, <1>2, <1>6 DEF Confirm, HoldsLease, Identified
  <1>7. CASE Recheck(r)
    <2>1. command.member
      BY <1>0, <1>7 DEF Recheck, AttemptSound
    <2>2. QED
      BY <1>1, <1>2, <1>7, <2>1 DEF Recheck, HoldsLease, Identified
  <1>8. CASE AppendEvent(r)
    <2> DEFINE o == request[r].object
    <2>1. edges[o].active = 1 /\ command.token = r /\ o = command.reserved
          /\ command.status # "none" /\ Goto(r, "receipt")
      BY <1>0, <1>8 DEF AppendEvent, AttemptSound, LeaseSound, Running, Identified
    <2>2. edges[o].ended \in Nat
      BY <1>0, <2>1 DEF IInv, Reserved, TypeOK, EdgeCount
    <2>3. QED
      BY <1>1, <1>8, <2>1, <2>2 DEF AppendEvent, Identified
  <1>9. QED
    BY <1>3, <1>4, <1>5, <1>6, <1>7, <1>8

LEMMA FaultKeepsIInv ==
    ASSUME IInv, NEW r \in Request, Throw(r) \/ Refuse(r)
    PROVE  IInv'
  <1>0. /\ TypeOK /\ LeaseSound(r) /\ AttemptSound(r)
        /\ faults' \in 0..MaxFaults
        /\ UNCHANGED <<command, identity, object, passports, edges>>
        /\ LoopFree \/ request[r].at \in Running
    BY FaultsAssumption DEF IInv, TypeOK, Throw, Refuse, Fault
  <1>1. CASE End(r)
    BY <1>0, <1>1, EndShape, GoneSound, MoveKeepsIInv
  <1>2. CASE Goto(r, "fail") /\ request[r].at \in Attempt
    BY <1>0, <1>2, GiveUpKeepsIInv
  <1>3. CASE Goto(r, "failIdentity") /\ request[r].at \in Provisioning
    <2>1. /\ request'[r].at = "failIdentity" /\ request' \in [Request -> RequestRecord]
          /\ \A q \in Request \ {r} : request'[q] = request[q]
      BY <1>0, <1>3, GotoShape DEF Running
    <2>2. LeaseSound(r)' /\ AttemptSound(r)'
      BY <1>0, <1>3, <2>1
         DEF LeaseSound, AttemptSound, Running, Provisioning, Attempt, Identified
    <2>3. QED
      BY <1>0, <2>1, <2>2, MoveKeepsIInv
  <1>4. QED
    BY <1>1, <1>2, <1>3 DEF Throw, Refuse, Attempt
-----------------------------------------------------------------------------
(* Steps that write.                                                         *)

(* What a request that holds the event loop in its attempt can rely on.      *)
LEMMA RunningFacts ==
    ASSUME IInv, NEW r \in Request, request[r].at \in Running \ {"fail"}
    PROVE  /\ command.token = r /\ command.status = "processing"
           /\ command.reserved \in Object
           /\ request[r].at \in Provisioning \cup Identified =>
                 request[r].object = command.reserved
  BY DEF IInv, LeaseSound, AttemptSound, Reserved, Attempt

LEMMA ObjectWriteKeepsIInv ==
    ASSUME IInv, NEW r \in Request, request[r].at \in Running \ {"fail"},
           NEW at \in Running, Goto(r, at), faults' \in 0..MaxFaults,
           UNCHANGED command,
           identity' \in IdentityStatus, object' \in [Object -> ObjectRecord],
           passports' \in [Object -> Nat], edges' \in [Object -> EdgeCount],
           identity = "completed" => identity' = "completed",
           \A o \in Object : ObjectSound(o)',
           AttemptSound(r)'
    PROVE  IInv'
  <1>0. /\ command.token = r /\ command.status = "processing"
        /\ command.reserved \in Object
    BY RunningFacts
  <1>1. /\ request'[r].at = at /\ request' \in [Request -> RequestRecord]
        /\ \A q \in Request \ {r} : request'[q] = request[q]
    BY GotoShape DEF IInv
  <1>2. TypeOK'
    BY <1>1 DEF IInv, TypeOK
  <1>3. Reserved' /\ ReceiptTrue' /\ LeaseSound(r)'
    BY <1>0, <1>1 DEF Reserved, ReceiptTrue, LeaseSound, Attempt
  <1>4. \A q \in Request \ {r} : command'.token = q =>
           command.token = q /\ command'.status = command.status
    BY <1>0
  <1>5. QED
    BY <1>0, <1>1, <1>2, <1>3, <1>4, StepKeepsIInv

LEMMA IdentityStepKeepsIInv ==
    ASSUME IInv, NEW r \in Request,
           BeginProvisioning(r) \/ CompleteIdentity(r) \/ FailIdentity(r)
    PROVE  IInv'
  <1>0. /\ request[r].at \in Running \ {"fail"} /\ TypeOK /\ AttemptSound(r)
        /\ UNCHANGED <<command, object, passports, edges, faults>>
        /\ faults' \in 0..MaxFaults
    BY DEF IInv, TypeOK, BeginProvisioning, CompleteIdentity, FailIdentity, Running, Provisioning
  <1>1. /\ command.token = r /\ command.status = "processing"
        /\ command.reserved \in Object
        /\ request[r].at \in Provisioning \cup Identified =>
              request[r].object = command.reserved
    BY <1>0, RunningFacts
  <1>2. \A o \in Object : ObjectSound(o)
    BY DEF IInv
  <1>3. CASE BeginProvisioning(r)
    <2> DEFINE at == IF identity = "completed" THEN "resolve" ELSE "create"
    <2>1. /\ request'[r] = [at |-> at, object |-> command.reserved, recovers |-> FALSE]
          /\ request' \in [Request -> RequestRecord]
          /\ \A q \in Request \ {r} : request'[q] = request[q]
          /\ identity' \in IdentityStatus
          /\ identity = "completed" <=> identity' = "completed"
      BY <1>0, <1>1, <1>3
         DEF BeginProvisioning, TypeOK, RequestRecord, Running, Provisioning, IdentityStatus
    <2>2. TypeOK'
      BY <1>0, <2>1 DEF TypeOK
    <2>3. Reserved' /\ ReceiptTrue' /\ \A o \in Object : ObjectSound(o)'
      BY <1>0, <1>1, <1>2, <2>1 DEF Reserved, ReceiptTrue, ObjectSound
    <2>4. LeaseSound(r)' /\ AttemptSound(r)'
      BY <1>0, <1>1, <2>1
         DEF LeaseSound, AttemptSound, Running, Provisioning, Attempt, Identified
    <2>5. \A q \in Request \ {r} : command'.token = q =>
             command.token = q /\ command'.status = command.status
      BY <1>0
    <2>6. QED
      BY <1>0, <1>1, <2>1, <2>2, <2>3, <2>4, <2>5, StepKeepsIInv
  <1>4. CASE CompleteIdentity(r)
    <2>1. /\ request[r].at = "finish" /\ identity' = "completed" /\ Goto(r, "resolve")
      BY <1>4 DEF CompleteIdentity
    <2>2. object[command.reserved].linked /\ request[r].object = command.reserved
      BY <1>0, <1>1, <2>1 DEF AttemptSound, Provisioning
    <2>3. request'[r].at = "resolve" /\ request'[r].object = request[r].object
      BY <1>0, <2>1, GotoShape DEF Running
    <2>4. AttemptSound(r)' /\ \A o \in Object : ObjectSound(o)'
      BY <1>0, <1>2, <2>1, <2>2, <2>3 DEF AttemptSound, ObjectSound, Provisioning, Identified
    <2>5. "resolve" \in Running /\ identity' \in IdentityStatus
      BY <2>1 DEF Running, IdentityStatus
    <2>6. QED
      BY <1>0, <2>1, <2>4, <2>5, ObjectWriteKeepsIInv DEF TypeOK
  <1>5. CASE FailIdentity(r)
    <2>1. /\ identity' \in IdentityStatus /\ Goto(r, "fail")
          /\ identity = "completed" <=> identity' = "completed"
      BY <1>0, <1>5 DEF FailIdentity, TypeOK, IdentityStatus
    <2>2. request'[r].at = "fail" /\ "fail" \in Running
      BY <1>0, <2>1, GotoShape DEF Running
    <2>3. AttemptSound(r)' /\ \A o \in Object : ObjectSound(o)'
      BY <1>0, <1>2, <2>1, <2>2 DEF AttemptSound, ObjectSound, Provisioning, Identified
    <2>4. QED
      BY <1>0, <2>1, <2>2, <2>3, ObjectWriteKeepsIInv DEF TypeOK
  <1>6. QED
    BY <1>3, <1>4, <1>5
LEMMA ObjectStepKeepsIInv ==
    ASSUME IInv, NEW r \in Request,
           CreateObject(r) \/ EnsurePassport(r) \/ LinkPassport(r)
    PROVE  IInv'
  <1> DEFINE o == request[r].object
  <1>0. /\ request[r].at \in Provisioning /\ request[r].at \in Running \ {"fail"}
        /\ TypeOK /\ AttemptSound(r)
        /\ UNCHANGED <<command, identity, edges, faults>>
        /\ faults' \in 0..MaxFaults
    BY DEF IInv, TypeOK, CreateObject, EnsurePassport, LinkPassport, Running, Provisioning
  <1>1. o = command.reserved /\ o \in Object
    BY <1>0, RunningFacts
  <1>2. \A x \in Object : ObjectSound(x)
    BY DEF IInv
  <1>3. CASE CreateObject(r) /\ object[o].state = "none"
    <2>1. /\ request[r].at = "create" /\ Goto(r, "passport") /\ UNCHANGED passports
          /\ object' = [object EXCEPT ![o] = [state |-> "active", linked |-> FALSE]]
      BY <1>3 DEF CreateObject
    <2>2. /\ object' \in [Object -> ObjectRecord]
          /\ object'[o] = [state |-> "active", linked |-> FALSE]
          /\ \A x \in Object \ {o} : object'[x] = object[x]
      BY <1>0, <1>1, <2>1 DEF TypeOK, ObjectRecord
    <2>3. request'[r].at = "passport" /\ request'[r].object = o
      BY <1>0, <2>1, GotoShape DEF Running, Provisioning
    <2>4. ~object[o].linked
      BY <1>1, <1>2, <1>3 DEF ObjectSound
    <2>5. \A x \in Object : ObjectSound(x)'
      BY <1>0, <1>1, <1>2, <2>1, <2>2, <2>4 DEF ObjectSound
    <2>6. AttemptSound(r)' /\ "passport" \in Running
      BY <1>0, <1>1, <2>2, <2>3 DEF AttemptSound, Provisioning, Identified, Running
    <2>7. QED
      BY <1>0, <2>1, <2>2, <2>5, <2>6, ObjectWriteKeepsIInv DEF TypeOK
  <1>4. CASE CreateObject(r) /\ object[o].state # "none"
    <2>1. Goto(r, "failIdentity") /\ UNCHANGED <<object, passports>>
      BY <1>4 DEF CreateObject
    <2>2. request'[r].at = "failIdentity" /\ "failIdentity" \in Running
      BY <1>0, <2>1, GotoShape DEF Running
    <2>3. AttemptSound(r)' /\ \A x \in Object : ObjectSound(x)'
      BY <1>0, <1>2, <2>1, <2>2 DEF AttemptSound, ObjectSound, Provisioning, Identified
    <2>4. QED
      BY <1>0, <2>1, <2>2, <2>3, ObjectWriteKeepsIInv DEF TypeOK
  <1>5. CASE EnsurePassport(r)
    <2>1. /\ request[r].at = "passport" /\ Goto(r, "link") /\ UNCHANGED object
          /\ passports' = [passports EXCEPT ![o] = IF @ = 0 THEN 1 ELSE @]
      BY <1>5 DEF EnsurePassport
    <2>2. object[o].state # "none" /\ passports[o] \in Nat /\ passports[o] <= 1
      BY <1>0, <1>1, <1>2, <2>1 DEF AttemptSound, Provisioning, ObjectSound, TypeOK
    <2>3. /\ passports' \in [Object -> Nat] /\ passports'[o] = 1
          /\ \A x \in Object \ {o} : passports'[x] = passports[x]
      BY <1>0, <1>1, <2>1, <2>2 DEF TypeOK
    <2>4. request'[r].at = "link" /\ request'[r].object = o
      BY <1>0, <2>1, GotoShape DEF Running, Provisioning
    <2>5. \A x \in Object : ObjectSound(x)'
      BY <1>0, <1>1, <1>2, <2>1, <2>2, <2>3 DEF ObjectSound
    <2>6. AttemptSound(r)' /\ "link" \in Running
      BY <1>0, <1>1, <2>1, <2>2, <2>3, <2>4
         DEF AttemptSound, Provisioning, Identified, Running
    <2>7. QED
      BY <1>0, <2>1, <2>3, <2>5, <2>6, ObjectWriteKeepsIInv DEF TypeOK
  <1>6. CASE LinkPassport(r)
    <2>1. /\ request[r].at = "link" /\ Goto(r, "finish") /\ UNCHANGED passports
          /\ object' = [object EXCEPT ![o].linked = TRUE]
      BY <1>6 DEF LinkPassport
    <2>2. object[o].state # "none" /\ passports[o] = 1
      BY <1>0, <1>1, <2>1 DEF AttemptSound, Provisioning
    <2>3. /\ object' \in [Object -> ObjectRecord]
          /\ object'[o].linked /\ object'[o].state = object[o].state
          /\ \A x \in Object \ {o} : object'[x] = object[x]
      BY <1>0, <1>1, <2>1 DEF TypeOK, ObjectRecord
    <2>4. request'[r].at = "finish" /\ request'[r].object = o
      BY <1>0, <2>1, GotoShape DEF Running, Provisioning
    <2>5. \A x \in Object : ObjectSound(x)'
      BY <1>0, <1>1, <1>2, <2>1, <2>2, <2>3 DEF ObjectSound
    <2>6. AttemptSound(r)' /\ "finish" \in Running
      BY <1>0, <1>1, <2>1, <2>2, <2>3, <2>4
         DEF AttemptSound, Provisioning, Identified, Running
    <2>7. QED
      BY <1>0, <2>1, <2>3, <2>5, <2>6, ObjectWriteKeepsIInv DEF TypeOK
  <1>7. QED
    BY <1>3, <1>4, <1>5, <1>6

LEMMA EdgeStepKeepsIInv ==
    ASSUME IInv, NEW r \in Request, AttachEdge(r) \/ RollBackEdge(r)
    PROVE  IInv'
  <1> DEFINE o == request[r].object
  <1>0. /\ request[r].at \in {"attach", "event"} /\ request[r].at \in Running \ {"fail"}
        /\ request[r].at \in Identified
        /\ TypeOK /\ AttemptSound(r)
        /\ UNCHANGED <<command, identity, object, passports>>
        /\ faults' \in 0..MaxFaults
    BY FaultsAssumption
       DEF IInv, TypeOK, AttachEdge, RollBackEdge, Fault, Running, Identified
  <1>1. o = command.reserved /\ o \in Object /\ command.token = r /\ edges[o] \in EdgeCount
    BY <1>0, RunningFacts DEF TypeOK
  <1>2. \A x \in Object : ObjectSound(x)
    BY DEF IInv
  <1>3. CASE AttachEdge(r) /\ o \notin Found
    BY <1>0, <1>3, GiveUpKeepsIInv DEF AttachEdge, Attempt
  <1>4. CASE AttachEdge(r) /\ o \in Found /\ edges[o].active > 0
    <2>1. Goto(r, "receipt") /\ UNCHANGED edges
      BY <1>4 DEF AttachEdge
    <2>2. /\ request'[r].at = "receipt" /\ request'[r].object = o /\ "receipt" \in Running
      BY <1>0, <2>1, GotoShape DEF Running
    <2>3. edges[o].active + edges[o].ended > 0
      BY <1>1, <1>4 DEF EdgeCount
    <2>4. AttemptSound(r)' /\ \A x \in Object : ObjectSound(x)'
      BY <1>0, <1>2, <2>1, <2>2, <2>3 DEF AttemptSound, ObjectSound, Provisioning, Identified
    <2>5. QED
      BY <1>0, <2>1, <2>2, <2>4, ObjectWriteKeepsIInv DEF TypeOK
  <1>5. ASSUME NEW at \in {"event", "fail"}, Goto(r, at),
               NEW n \in {0, 1}, at = "event" => n = 1,
               edges' = [edges EXCEPT ![o].active = n], object[o].state # "none"
        PROVE  IInv'
    <2>1. /\ edges' \in [Object -> EdgeCount]
          /\ edges'[o].active = n /\ edges'[o].ended = edges[o].ended
          /\ \A x \in Object \ {o} : edges'[x] = edges[x]
      BY <1>0, <1>1, <1>5 DEF TypeOK, EdgeCount
    <2>2. request'[r].at = at /\ request'[r].object = o /\ at \in Running
      BY <1>0, <1>5, GotoShape DEF Running
    <2>3. \A x \in Object : ObjectSound(x)'
      BY <1>0, <1>1, <1>2, <1>5, <2>1 DEF ObjectSound
    <2>4. AttemptSound(r)'
      BY <1>0, <1>1, <1>5, <2>1, <2>2 DEF AttemptSound, Provisioning, Identified
    <2>5. QED
      BY <1>0, <1>5, <2>1, <2>2, <2>3, <2>4, ObjectWriteKeepsIInv DEF TypeOK
  <1>6. CASE AttachEdge(r) /\ o \in Found /\ ~(edges[o].active > 0)
    <2>1. edges[o].active = 0 /\ object[o].state # "none"
      BY <1>1, <1>6 DEF EdgeCount, Found
    <2>2. Goto(r, "event") /\ edges' = [edges EXCEPT ![o].active = 1]
      BY <1>6, <2>1 DEF AttachEdge
    <2>3. QED
      BY <1>5, <2>1, <2>2
  <1>7. CASE RollBackEdge(r)
    <2>1. request[r].at = "event"
      BY <1>7 DEF RollBackEdge
    <2>2. edges[o].active = 1
      BY <1>0, <2>1 DEF AttemptSound
    <2>3. object[o].state # "none" /\ edges[o].ended \in Nat
      BY <1>1, <1>2, <2>2 DEF ObjectSound, EdgeCount
    <2>4. Goto(r, "fail") /\ edges' = [edges EXCEPT ![o].active = 0]
      BY <1>7, <2>2 DEF RollBackEdge
    <2>5. QED
      BY <1>5, <2>3, <2>4
  <1>8. QED
    BY <1>3, <1>4, <1>6, <1>7
(* Writes of the creation record itself.                                     *)
LEMMA CommandStepKeepsIInv ==
    ASSUME IInv, NEW r \in Request,
           \/ PersistIntent(r) \/ TakeLease(r) \/ Acknowledge(r)
           \/ Receipt(r) \/ FailCommand(r)
    PROVE  IInv'
  <1>0. /\ TypeOK /\ Reserved /\ ReceiptTrue /\ LeaseSound(r) /\ AttemptSound(r)
        /\ UNCHANGED <<identity, object, passports, edges, faults>>
        /\ faults' \in 0..MaxFaults
        /\ LoopFree \/ request[r].at \in Running
        /\ \A o \in Object : ObjectSound(o)
    BY DEF IInv, TypeOK, PersistIntent, TakeLease, Acknowledge, Receipt, FailCommand, Running
  <1>1. CASE End(r) /\ UNCHANGED command
    BY <1>0, <1>1, EndShape, GoneSound, MoveKeepsIInv
  <1>2. ASSUME command' \in Command, request' \in [Request -> RequestRecord],
               \A q \in Request \ {r} : request'[q] = request[q],
               command'.member = command.member, command'.reserved = command.reserved,
               command.status # "none", command'.status # "none",
               \A q \in Request \ {r} : command'.token = q =>
                  command.token = q /\ command'.status = command.status,
               command'.status = "completed" => ReceiptTrue',
               LeaseSound(r)', AttemptSound(r)'
        PROVE  IInv'
    <2>1. TypeOK'
      BY <1>0, <1>2 DEF TypeOK
    <2>2. Reserved' /\ ReceiptTrue' /\ \A o \in Object : ObjectSound(o)'
      BY <1>0, <1>2 DEF Reserved, ReceiptTrue, ObjectSound
    <2>3. QED
      BY <1>0, <1>2, <2>1, <2>2, StepKeepsIInv
  <1>3. CASE PersistIntent(r) /\ command.status = "none"
    <2>1. /\ command' = [command EXCEPT !.status = "pending", !.reserved = request[r].object]
          /\ request' = [request EXCEPT ![r] = [Gone EXCEPT !.at = "authorize"]]
      BY <1>3 DEF PersistIntent
    <2>2. /\ request[r].object \in Object /\ command.token = Nobody /\ identity = "none"
          /\ \A o \in Object : object[o].state = "none"
      BY <1>0, <1>3, NobodyAssumption
         DEF PersistIntent, AttemptSound, Reserved, ObjectSound
    <2>3. /\ command' \in Command /\ command'.status = "pending"
          /\ command'.reserved \in Object /\ command'.token = Nobody
          /\ command'.member = command.member
      BY <1>0, <2>1, <2>2 DEF TypeOK, Command, CommandStatus
    <2>4. /\ request' \in [Request -> RequestRecord] /\ request'[r].at = "authorize"
          /\ \A q \in Request \ {r} : request'[q] = request[q]
      BY <1>0, <2>1 DEF TypeOK, RequestRecord, Gone, Awaiting
    <2>5. TypeOK' /\ Reserved' /\ ReceiptTrue'
      BY <1>0, <2>3, <2>4 DEF TypeOK, Reserved, ReceiptTrue
    <2>6. \A o \in Object : ObjectSound(o)'
      BY <1>0, <2>2 DEF ObjectSound
    <2>7. LeaseSound(r)' /\ AttemptSound(r)'
      BY <2>3, <2>4 DEF LeaseSound, AttemptSound, Running, Provisioning, Attempt, Identified
    <2>8. QED
      BY <1>0, <1>3, <2>2, <2>3, <2>4, <2>5, <2>6, <2>7, NobodyAssumption, StepKeepsIInv
  <1>4. CASE TakeLease(r) /\ Leasable
    <2>1. /\ command' = [command EXCEPT !.status = "processing", !.token = r, !.live = TRUE]
          /\ Goto(r, "leased") /\ command.status # "none"
      BY <1>0, <1>4 DEF TakeLease, LeaseSound
    <2>2. /\ command' \in Command /\ command'.status = "processing" /\ command'.token = r
          /\ command'.member = command.member /\ command'.reserved = command.reserved
      BY <1>0, <2>1 DEF TypeOK, Command, CommandStatus
    <2>3. /\ request' \in [Request -> RequestRecord] /\ request'[r].at = "leased"
          /\ \A q \in Request \ {r} : request'[q] = request[q]
      BY <1>0, <2>1, GotoShape DEF Running
    <2>4. LeaseSound(r)' /\ AttemptSound(r)'
      BY <2>2, <2>3 DEF LeaseSound, AttemptSound, Running, Provisioning, Attempt, Identified
    <2>5. QED
      BY <1>2, <2>1, <2>2, <2>3, <2>4
  <1>5. ASSUME End(r), command' \in Command, command.status # "none", command'.status # "none",
               command'.member = command.member, command'.reserved = command.reserved,
               command'.token = command.token,
               command'.status # command.status => command.token = r,
               command'.status = "completed" => ReceiptTrue'
        PROVE  IInv'
    <2>1. /\ request' \in [Request -> RequestRecord]
          /\ \A q \in Request \ {r} : request'[q] = request[q]
          /\ LeaseSound(r)' /\ AttemptSound(r)'
      BY <1>0, <1>5, EndShape, GoneSound
    <2>2. QED
      BY <1>2, <1>5, <2>1
  <1>6. CASE Acknowledge(r)
    <2>1. /\ command' = [command EXCEPT !.acknowledged = TRUE]
          /\ End(r) /\ command.status # "none"
      BY <1>0, <1>6 DEF Acknowledge, LeaseSound
    <2>2. /\ command' \in Command /\ command'.status = command.status
          /\ command'.token = command.token
          /\ command'.member = command.member /\ command'.reserved = command.reserved
      BY <1>0, <2>1 DEF TypeOK, Command
    <2>3. ReceiptTrue'
      BY <1>0, <2>2 DEF ReceiptTrue
    <2>4. QED
      BY <1>5, <2>1, <2>2, <2>3
  <1>7. CASE Receipt(r)
    <2>1. /\ request[r].at = "receipt" /\ request[r].at \in Running \ {"fail"}
          /\ request[r].at \in Identified
      BY <1>7 DEF Receipt, Running, Identified
    <2>2. /\ command.token = r /\ command.status = "processing"
          /\ command.reserved \in Object /\ request[r].object = command.reserved
      BY <2>1, RunningFacts
    <2>3. /\ command' = [command EXCEPT !.status = "completed", !.live = FALSE] /\ End(r)
      BY <1>7, <2>2 DEF Receipt
    <2>4. /\ command' \in Command /\ command'.status = "completed"
          /\ command'.token = command.token
          /\ command'.member = command.member /\ command'.reserved = command.reserved
      BY <1>0, <2>3 DEF TypeOK, Command, CommandStatus
    <2>5. /\ identity = "completed" /\ ObjectSound(command.reserved)
          /\ command.member => edges[command.reserved].active + edges[command.reserved].ended > 0
      BY <1>0, <2>1, <2>2 DEF AttemptSound
    <2>6. ReceiptTrue'
      BY <1>0, <2>2, <2>4, <2>5 DEF ReceiptTrue, ObjectSound
    <2>7. QED
      BY <1>5, <2>2, <2>3, <2>4, <2>6
  <1>8. CASE FailCommand(r) /\ command.token = r
    <2>1. /\ command' = [command EXCEPT !.status = "failed", !.live = FALSE]
          /\ End(r) /\ command.status # "none"
      BY <1>0, <1>8 DEF FailCommand, LeaseSound
    <2>2. /\ command' \in Command /\ command'.status = "failed"
          /\ command'.token = command.token
          /\ command'.member = command.member /\ command'.reserved = command.reserved
      BY <1>0, <2>1 DEF TypeOK, Command, CommandStatus
    <2>3. QED
      BY <1>5, <1>8, <2>1, <2>2
  <1>9. CASE FailCommand(r) /\ command.token # r
    BY <1>1, <1>9 DEF FailCommand
  <1>10. Receipt(r) \/ Acknowledge(r) \/ FailCommand(r) \/ (PersistIntent(r) /\ command.status = "none")
         \/ (TakeLease(r) /\ Leasable) \/ (End(r) /\ UNCHANGED command)
    BY DEF PersistIntent, TakeLease
  <1>11. QED
    BY <1>1, <1>3, <1>4, <1>6, <1>7, <1>8, <1>9, <1>10
-----------------------------------------------------------------------------
(* The process dies, time passes, and other users act.                       *)
LEMMA EnvironmentKeepsIInv ==
    ASSUME IInv,
           \/ Crash \/ DesertedLeaseExpires \/ RunningLeaseExpires
           \/ \E o \in Object : SoftDelete(o) \/ Restore(o) \/ EndEdge(o)
    PROVE  IInv'
  <1>0. /\ TypeOK /\ Reserved /\ ReceiptTrue /\ LoopExclusive
        /\ \A o \in Object : ObjectSound(o)
        /\ \A r \in Request : LeaseSound(r) /\ AttemptSound(r)
    BY DEF IInv
  <1>1. faults' \in 0..MaxFaults
    <2>1. faults \in 0..MaxFaults
      BY <1>0 DEF TypeOK
    <2>2. Fault \/ UNCHANGED faults
      BY DEF Crash, DesertedLeaseExpires, RunningLeaseExpires, SoftDelete, Restore, EndEdge
    <2>3. QED
      BY <2>1, <2>2, FaultsAssumption DEF Fault
  <1>2. CASE Crash
    <2>1. /\ \A r \in Request : request'[r] = Gone
          /\ request' \in [Request -> RequestRecord]
          /\ UNCHANGED <<command, identity, object, passports, edges>>
      BY <1>2 DEF Crash, Gone, RequestRecord
    <2>2. TypeOK' /\ Reserved' /\ ReceiptTrue' /\ \A o \in Object : ObjectSound(o)'
      BY <1>0, <1>1, <2>1 DEF TypeOK, Reserved, ReceiptTrue, ObjectSound
    <2>3. LoopExclusive' /\ \A r \in Request : LeaseSound(r)' /\ AttemptSound(r)'
      BY <2>1, GoneSound DEF LoopExclusive, Running, Provisioning, Gone
    <2>4. QED
      BY <2>2, <2>3 DEF IInv
  <1>3. CASE DesertedLeaseExpires \/ RunningLeaseExpires
    <2>1. /\ command' = [command EXCEPT !.live = FALSE]
          /\ UNCHANGED <<identity, object, passports, edges, request>>
      BY <1>3 DEF DesertedLeaseExpires, RunningLeaseExpires
    <2>2. /\ command' \in Command /\ command'.status = command.status
          /\ command'.token = command.token
          /\ command'.member = command.member /\ command'.reserved = command.reserved
      BY <1>0, <2>1 DEF TypeOK, Command
    <2>3. TypeOK' /\ Reserved' /\ ReceiptTrue' /\ \A o \in Object : ObjectSound(o)'
      BY <1>0, <1>1, <2>1, <2>2 DEF TypeOK, Reserved, ReceiptTrue, ObjectSound
    <2>4. LoopExclusive' /\ \A r \in Request : LeaseSound(r)' /\ AttemptSound(r)'
      BY <1>0, <2>1, <2>2 DEF LoopExclusive, LeaseSound, AttemptSound
    <2>5. QED
      BY <2>3, <2>4 DEF IInv
  <1>4. ASSUME NEW o \in Object, SoftDelete(o) \/ Restore(o)
        PROVE  IInv'
    <2>1. /\ object' \in [Object -> ObjectRecord]
          /\ object'[o].linked = object[o].linked
          /\ object'[o].state # "none" /\ object[o].state # "none"
          /\ \A x \in Object \ {o} : object'[x] = object[x]
          /\ UNCHANGED <<command, identity, passports, edges, request>>
      BY <1>0, <1>4 DEF SoftDelete, Restore, TypeOK, ObjectRecord
    <2>2. TypeOK' /\ Reserved'
      BY <1>0, <1>1, <2>1 DEF TypeOK, Reserved
    <2>3. ReceiptTrue' /\ \A x \in Object : ObjectSound(x)'
      BY <1>0, <2>1 DEF ReceiptTrue, ObjectSound
    <2>4. LoopExclusive' /\ \A r \in Request : LeaseSound(r)'
      BY <1>0, <2>1 DEF LoopExclusive, LeaseSound
    <2>5. \A r \in Request : AttemptSound(r)'
      <3>1. LoopFree
        BY <1>4 DEF SoftDelete, Restore
      <3>2. QED
        BY <1>0, <2>1, <3>1 DEF AttemptSound, LoopFree, Running, Provisioning, Identified
    <2>6. QED
      BY <2>2, <2>3, <2>4, <2>5 DEF IInv
  <1>5. ASSUME NEW o \in Object, EndEdge(o)
        PROVE  IInv'
    <2>1. /\ LoopFree /\ edges[o] \in EdgeCount /\ edges[o].active > 0
          /\ edges' = [edges EXCEPT ![o].active = @ - 1, ![o].ended = @ + 1]
          /\ UNCHANGED <<command, identity, object, passports, request>>
      BY <1>0, <1>5 DEF EndEdge, TypeOK
    <2>2. /\ edges' \in [Object -> EdgeCount]
          /\ edges'[o].active = edges[o].active - 1 /\ edges'[o].ended = edges[o].ended + 1
          /\ \A x \in Object \ {o} : edges'[x] = edges[x]
      BY <1>0, <2>1 DEF TypeOK, EdgeCount
    <2>3. \A x \in Object :
             edges'[x].active + edges'[x].ended = edges[x].active + edges[x].ended
      BY <1>0, <2>1, <2>2 DEF TypeOK, EdgeCount
    <2>4. \A x \in Object : edges'[x].active <= 1
      BY <1>0, <2>1, <2>2 DEF ObjectSound, EdgeCount
    <2>5. TypeOK' /\ Reserved'
      BY <1>0, <1>1, <2>1, <2>2 DEF TypeOK, Reserved
    <2>6. ReceiptTrue'
      BY <1>0, <2>1, <2>3 DEF ReceiptTrue
    <2>7. \A x \in Object : ObjectSound(x)'
      BY <1>0, <2>1, <2>3, <2>4 DEF ObjectSound
    <2>8. LoopExclusive' /\ \A r \in Request : LeaseSound(r)'
      BY <1>0, <2>1 DEF LoopExclusive, LeaseSound
    <2>9. \A r \in Request : AttemptSound(r)'
      BY <1>0, <2>1 DEF AttemptSound, LoopFree, Running, Provisioning, Identified
    <2>10. QED
      BY <2>5, <2>6, <2>7, <2>8, <2>9 DEF IInv
  <1>6. QED
    BY <1>2, <1>3, <1>4, <1>5

LEMMA NextIInv == IInv /\ [Next]_vars => IInv'
  <1> SUFFICES ASSUME IInv, [Next]_vars PROVE IInv'
    OBVIOUS
  <1>1. CASE UNCHANGED vars
    BY <1>1 DEF vars, IInv, TypeOK, Reserved, ObjectSound, LoopExclusive, LeaseSound,
                AttemptSound, ReceiptTrue
  <1>2. CASE \E r \in Request :
               Arrive(r) \/ StartAcknowledge(r) \/ Proceed(r)
               \/ Throw(r) \/ RollBackEdge(r) \/ Refuse(r)
    BY <1>2, ArrivalKeepsIInv, DecisionKeepsIInv, FaultKeepsIInv, IdentityStepKeepsIInv,
       ObjectStepKeepsIInv, EdgeStepKeepsIInv, CommandStepKeepsIInv DEF Arrive, Proceed
  <1>3. CASE \/ Crash \/ DesertedLeaseExpires \/ RunningLeaseExpires
             \/ \E o \in Object : SoftDelete(o) \/ Restore(o) \/ EndEdge(o)
    BY <1>3, EnvironmentKeepsIInv
  <1>4. QED
    BY <1>1, <1>2, <1>3 DEF Next

LEMMA SpecIInv == Spec => []IInv
  BY InitIInv, NextIInv, PTL DEF Spec
-----------------------------------------------------------------------------
(* Records, counts and requests keep their types.                            *)
THEOREM TypeCorrect == Spec => []TypeOK
  <1>1. IInv => TypeOK
    BY DEF IInv
  <1>2. QED
    BY <1>1, SpecIInv, PTL

(* However many requests retry, take over or recover the command, it makes   *)
(* one Object with one Passport at most.                                     *)
THEOREM ObjectIsUnique == Spec => []OneObject
  <1>1. ASSUME IInv PROVE OneObject
    <2> DEFINE Made == {o \in Object : object[o].state # "none"}
    <2>1. /\ Made \subseteq {command.reserved}
          /\ \A o \in Object : passports[o] <= 1
      BY <1>1 DEF IInv, ObjectSound
    <2>2. /\ IsFiniteSet({command.reserved}) /\ Cardinality({command.reserved}) = 1
      BY FS_Singleton
    <2>3. Cardinality(Made) <= 1
      BY <2>1, <2>2, FS_Subset
    <2>4. QED
      BY <2>1, <2>3 DEF OneObject
  <1>2. QED
    BY <1>1, SpecIInv, PTL

(* The parent shows the Object at most once.                                 *)
THEOREM EdgeIsUnique == Spec => []OneActiveEdge
  <1>1. IInv => OneActiveEdge
    BY DEF IInv, ObjectSound, OneActiveEdge
  <1>2. QED
    BY <1>1, SpecIInv, PTL

(* An attempt whose lease was taken over writes no edge and no receipt.      *)
THEOREM LeaseGuardsWrites == Spec => []AttachUnderLease
  <1>1. IInv => AttachUnderLease
    BY DEF IInv, AttachUnderLease, LeaseSound, Running, Attempt
  <1>2. QED
    BY <1>1, SpecIInv, PTL

(* A completed command's receipt tells the truth.                            *)
THEOREM ReceiptIsTrue == Spec => []ReceiptTrue
  <1>1. IInv => ReceiptTrue
    BY DEF IInv
  <1>2. QED
    BY <1>1, SpecIInv, PTL

-----------------------------------------------------------------------------
(* Once the command is completed no attempt can write it or an edge.         *)
LEMMA CompletedQuiesces ==
    ASSUME IInv, NEW r \in Request, command.status = "completed"
    PROVE  /\ request[r].at \notin Running \ {"fail"}
           /\ request[r].at = "fail" => command.token # r
  BY RunningFacts DEF IInv, LeaseSound, Running, Attempt

(* What a step may do to a completed command: acknowledge it, and let other  *)
(* users end its attachment.                                                 *)
LEMMA CompletedStep ==
    ASSUME IInv, Next, command.status = "completed"
    PROVE  /\ command'.status = "completed"
           /\ \A o \in Object : edges'[o].active <= edges[o].active
  <1>0. /\ TypeOK
        /\ \A o \in Object : edges[o].active \in Nat /\ edges[o].active <= edges[o].active
    BY DEF IInv, TypeOK, EdgeCount
  <1>1. ASSUME NEW r \in Request,
               \/ Arrive(r) \/ StartAcknowledge(r) \/ Proceed(r)
               \/ Throw(r) \/ RollBackEdge(r) \/ Refuse(r)
        PROVE  command'.status = "completed" /\ edges' = edges
    <2>1. /\ request[r].at \notin Running \ {"fail"}
          /\ request[r].at = "fail" => command.token # r
      BY CompletedQuiesces
    <2>2. CASE \/ Arrive(r) \/ StartAcknowledge(r) \/ Throw(r) \/ Refuse(r) \/ Replay(r)
      BY <2>2 DEF Arrive, StartNew, Resume, StartAcknowledge, Throw, Refuse, Replay
    <2>3. CASE PersistIntent(r) \/ TakeLease(r)
      BY <2>3 DEF PersistIntent, TakeLease, Leasable
    <2>4. CASE Acknowledge(r)
      BY <1>0, <2>4 DEF Acknowledge, TypeOK, Command
    <2>5. CASE FailCommand(r)
      BY <2>1, <2>5 DEF FailCommand
    <2>6. CASE Confirm(r) \/ Recheck(r)
      BY <2>6 DEF Confirm, Recheck
    <2>7. QED
      BY <1>1, <2>1, <2>2, <2>3, <2>4, <2>5, <2>6
         DEF Proceed, BeginProvisioning, Recover, CannotProvision, CreateObject,
             EnsurePassport, LinkPassport, CompleteIdentity, Resolve, AttachEdge,
             AppendEvent, Receipt, FailIdentity, RollBackEdge, Running, Provisioning
  <1>2. CASE Crash \/ DesertedLeaseExpires \/ RunningLeaseExpires
    BY <1>0, <1>2 DEF Crash, DesertedLeaseExpires, RunningLeaseExpires, TypeOK, Command
  <1>3. ASSUME NEW o \in Object, SoftDelete(o) \/ Restore(o) \/ EndEdge(o)
        PROVE  /\ command'.status = "completed"
               /\ \A x \in Object : edges'[x].active <= edges[x].active
    <2>1. CASE SoftDelete(o) \/ Restore(o)
      BY <1>0, <2>1 DEF SoftDelete, Restore
    <2>2. CASE EndEdge(o)
      BY <1>0, <2>2 DEF EndEdge, TypeOK, EdgeCount
    <2>3. QED
      BY <1>3, <2>1, <2>2
  <1>4. QED
    BY <1>0, <1>1, <1>2, <1>3 DEF Next

(* Completed is final, and an attachment ended after it stays ended.         *)
THEOREM CompletedStays == Spec => CompletedIsFinal
  <1>1. IInv /\ [Next]_vars =>
          [command.status = "completed" =>
             /\ command'.status = "completed"
             /\ \A o \in Object : edges'[o].active <= edges[o].active]_vars
    BY CompletedStep
  <1>2. QED
    BY <1>1, SpecIInv, PTL DEF Spec, CompletedIsFinal

(* A completed identity command is never failed by a later attempt.          *)
THEOREM IdentityStays == Spec => IdentityIsFinal
  <1>1. Next => (identity = "completed" => identity' = "completed")
    <2> SUFFICES ASSUME Next, identity = "completed" PROVE identity' = "completed"
      OBVIOUS
    <2>1. ASSUME NEW r \in Request,
                 \/ Arrive(r) \/ StartAcknowledge(r) \/ Proceed(r)
                 \/ Throw(r) \/ RollBackEdge(r) \/ Refuse(r)
          PROVE  identity' = "completed"
      BY <2>1 DEF Arrive, StartNew, Resume, StartAcknowledge, Throw, RollBackEdge, Refuse,
           Proceed, PersistIntent, TakeLease, Replay, Acknowledge, BeginProvisioning,
           Recover, CannotProvision, CreateObject, EnsurePassport, LinkPassport,
           CompleteIdentity, Resolve, Confirm, Recheck, AttachEdge, AppendEvent,
           Receipt, FailIdentity, FailCommand
    <2>2. QED
      BY <2>1 DEF Next, Crash, DesertedLeaseExpires, RunningLeaseExpires,
                  SoftDelete, Restore, EndEdge
  <1>2. [Next]_vars => [identity = "completed" => identity' = "completed"]_vars
    BY <1>1
  <1>3. QED
    BY <1>2, PTL DEF Spec, IdentityIsFinal

-----------------------------------------------------------------------------
(* The refinement: what of the command's state the promise speaks of.        *)
Intent == CASE command.status = "none" -> "none"
            [] command.status = "completed" -> "receipted"
            [] OTHER -> "saved"
Born == {o \in Object : object[o].state # "none"}
Attachments == [o \in Object |-> edges[o].active + edges[o].ended]
SamePromise == /\ Intent' = Intent /\ command'.member = command.member
               /\ Born' = Born /\ Attachments' = Attachments

LEMMA IntentIs ==
    /\ command.status = "none" => Intent = "none"
    /\ command.status = "completed" => Intent = "receipted"
    /\ command.status \notin {"none", "completed"} => Intent = "saved"
  BY DEF Intent

LEMMA IntentIsNext ==
    /\ command'.status = "none" => Intent' = "none"
    /\ command'.status = "completed" => Intent' = "receipted"
    /\ command'.status \notin {"none", "completed"} => Intent' = "saved"
  BY DEF Intent

LEMMA PromiseIs ==
    /\ Promise!Save <=> /\ Intent = "none" /\ Intent' = "saved"
                        /\ command'.member = command.member
                        /\ Born' = Born /\ Attachments' = Attachments
    /\ Promise!Receipt <=> /\ Intent = "saved" /\ Intent' = "receipted"
                           /\ \E o \in Born : command.member => Attachments[o] > 0
                           /\ command'.member = command.member
                           /\ Born' = Born /\ Attachments' = Attachments
    /\ \A o : Promise!Bear(o) <=> /\ Intent = "saved" /\ Intent' = Intent
                                  /\ Born = {} /\ Born' = {o}
                                  /\ command'.member = command.member
                                  /\ Attachments' = Attachments
    /\ \A o : Promise!Attach(o) <=>
                 /\ Intent = "saved" /\ Intent' = Intent /\ command.member /\ o \in Born
                 /\ Attachments' = [Attachments EXCEPT ![o] = @ + 1]
                 /\ command'.member = command.member /\ Born' = Born
    /\ \A o : Promise!Withdraw(o) <=>
                 /\ Intent = "saved" /\ Intent' = Intent /\ Attachments[o] > 0
                 /\ Attachments' = [Attachments EXCEPT ![o] = @ - 1]
                 /\ command'.member = command.member /\ Born' = Born
  BY DEF Promise!Save, Promise!Receipt, Promise!Bear, Promise!Attach, Promise!Withdraw,
         Intent, Born, Attachments

(* A request that moves, and a lease that runs out, are not seen.            *)
LEMMA UnseenStep ==
    ASSUME TypeOK, UNCHANGED <<object, edges>>, command'.member = command.member,
           \/ command'.status = command.status
           \/ /\ command.status \notin {"none", "completed"}
              /\ command'.status \notin {"none", "completed"}
    PROVE  SamePromise
  <1>1. Born' = Born /\ Attachments' = Attachments
    BY DEF Born, Attachments
  <1>2. command'.status = command.status => Intent' = Intent
    BY DEF Intent
  <1>3. /\ command.status \notin {"none", "completed"}
        /\ command'.status \notin {"none", "completed"}
        => Intent' = Intent
    BY IntentIs, IntentIsNext
  <1>4. Intent' = Intent
    BY <1>2, <1>3
  <1>5. QED
    BY <1>1, <1>4 DEF SamePromise

LEMMA UnseenRequestStep ==
    ASSUME IInv, NEW r \in Request,
           \/ Arrive(r) \/ StartAcknowledge(r) \/ Throw(r) \/ Refuse(r)
           \/ TakeLease(r) \/ Replay(r) \/ Acknowledge(r)
           \/ BeginProvisioning(r) \/ Recover(r) \/ CannotProvision(r)
           \/ EnsurePassport(r) \/ CompleteIdentity(r) \/ Resolve(r)
           \/ Confirm(r) \/ Recheck(r) \/ AppendEvent(r) \/ FailIdentity(r) \/ FailCommand(r)
    PROVE  SamePromise
  <1>0. TypeOK /\ command \in Command
    BY DEF IInv, TypeOK
  <1>1. CASE TakeLease(r)
    <2>1. command.status # "none"
      BY <1>1 DEF TakeLease, IInv, LeaseSound
    <2>2. command' = command \/
          (command' = [command EXCEPT !.status = "processing", !.token = r, !.live = TRUE]
           /\ command.status # "completed")
      BY <1>1 DEF TakeLease, Leasable
    <2>3. command'.member = command.member /\
          (command'.status = command.status \/
           (command'.status = "processing" /\ command.status # "completed"))
      BY <1>0, <2>2 DEF Command
    <2>4. UNCHANGED <<object, edges>>
      BY <1>1 DEF TakeLease
    <2>5. QED
      BY <1>0, <2>1, <2>3, <2>4, UnseenStep
  <1>2. CASE FailCommand(r)
    <2>1. command.status # "none" /\ (command.status = "completed" => command.token # r)
      BY <1>2, CompletedQuiesces DEF FailCommand, IInv, LeaseSound
    <2>2. command' = command \/
          (command' = [command EXCEPT !.status = "failed", !.live = FALSE]
           /\ command.status # "completed")
      BY <1>2, <2>1 DEF FailCommand
    <2>3. command'.member = command.member /\
          (command'.status = command.status \/
           (command'.status = "failed" /\ command.status # "completed"))
      BY <1>0, <2>2 DEF Command
    <2>4. UNCHANGED <<object, edges>>
      BY <1>2 DEF FailCommand
    <2>5. QED
      BY <1>0, <2>1, <2>3, <2>4, UnseenStep
  <1>3. CASE Acknowledge(r)
    <2>1. command' = [command EXCEPT !.acknowledged = TRUE] /\ UNCHANGED <<object, edges>>
      BY <1>3 DEF Acknowledge
    <2>2. command'.member = command.member /\ command'.status = command.status
      BY <1>0, <2>1 DEF Command
    <2>3. QED
      BY <1>0, <2>1, <2>2, UnseenStep
  <1>4. CASE \/ Arrive(r) \/ StartAcknowledge(r) \/ Throw(r) \/ Refuse(r) \/ Replay(r)
    <2>1. UNCHANGED <<command, object, edges>>
      BY <1>4 DEF Arrive, StartNew, Resume, StartAcknowledge, Throw, Refuse, Replay
    <2>2. QED
      BY <1>0, <2>1, UnseenStep
  <1>5. CASE \/ BeginProvisioning(r) \/ Recover(r) \/ CannotProvision(r)
             \/ EnsurePassport(r) \/ CompleteIdentity(r) \/ Resolve(r)
             \/ Confirm(r) \/ Recheck(r) \/ AppendEvent(r) \/ FailIdentity(r)
    <2>1. UNCHANGED <<command, object, edges>>
      BY <1>5 DEF BeginProvisioning, Recover, CannotProvision, EnsurePassport,
                  CompleteIdentity, Resolve, Confirm, Recheck, AppendEvent, FailIdentity
    <2>2. QED
      BY <1>0, <2>1, UnseenStep
  <1>6. QED
    BY <1>1, <1>2, <1>3, <1>4, <1>5

(* The steps the promise speaks of.                                          *)
LEMMA PersistIsSave ==
    ASSUME IInv, NEW r \in Request, PersistIntent(r)
    PROVE  Promise!Save \/ SamePromise
  <1>0. command \in Command /\ TypeOK
    BY DEF IInv, TypeOK
  <1>1. CASE command.status = "none"
    <2>1. /\ command' = [command EXCEPT !.status = "pending", !.reserved = request[r].object]
          /\ UNCHANGED <<object, edges>>
      BY <1>1 DEF PersistIntent
    <2>2. command'.status = "pending" /\ command'.member = command.member
      BY <1>0, <2>1 DEF Command
    <2>3. Intent = "none" /\ Intent' = "saved"
      BY <1>1, <2>2, IntentIs, IntentIsNext
    <2>4. Born' = Born /\ Attachments' = Attachments
      BY <2>1 DEF Born, Attachments
    <2>5. QED
      BY <2>2, <2>3, <2>4, PromiseIs
  <1>2. CASE command.status # "none"
    BY <1>0, <1>2, UnseenStep DEF PersistIntent
  <1>3. QED
    BY <1>1, <1>2

LEMMA CreateIsBear ==
    ASSUME IInv, NEW r \in Request, CreateObject(r)
    PROVE  (\E o \in Object : Promise!Bear(o)) \/ SamePromise
  <1>0. TypeOK /\ request[r].at = "create"
    BY DEF IInv, CreateObject
  <1>1. PICK o : o = request[r].object
    OBVIOUS
  <1>2. /\ command.status = "processing" /\ command.reserved \in Object
        /\ o = command.reserved
    BY <1>0, <1>1, RunningFacts DEF Running, Provisioning
  <1>3. CASE object[o].state = "none"
    <2>1. /\ object' = [object EXCEPT ![o] = [state |-> "active", linked |-> FALSE]]
          /\ UNCHANGED <<command, edges>>
      BY <1>1, <1>3 DEF CreateObject
    <2>2. Born = {}
      BY <1>2, <1>3 DEF Born, IInv, ObjectSound
    <2>3. \A x \in Object : object'[x].state # "none" <=> (x = o \/ object[x].state # "none")
      BY <1>0, <2>1 DEF TypeOK
    <2>4. Born' = {o}
      BY <1>2, <2>2, <2>3 DEF Born
    <2>5. Attachments' = Attachments /\ Intent = "saved" /\ Intent' = Intent
      BY <1>2, <2>1, IntentIs, IntentIsNext DEF Attachments
    <2>6. QED
      BY <1>2, <2>1, <2>2, <2>4, <2>5, PromiseIs
  <1>4. CASE object[o].state # "none"
    BY <1>0, <1>1, <1>4, UnseenStep DEF CreateObject
  <1>5. QED
    BY <1>3, <1>4

LEMMA EdgeCounts ==
    ASSUME TypeOK, NEW o \in Object
    PROVE  edges[o].active \in Nat /\ edges[o].ended \in Nat
  BY DEF TypeOK, EdgeCount

LEMMA AttachIsAttach ==
    ASSUME IInv, NEW r \in Request, AttachEdge(r)
    PROVE  (\E o \in Object : Promise!Attach(o)) \/ SamePromise
  <1>0. TypeOK /\ request[r].at = "attach" /\ UNCHANGED <<command, object>>
    BY DEF IInv, AttachEdge
  <1>1. PICK o : o = request[r].object
    OBVIOUS
  <1>2. /\ command.status = "processing" /\ o \in Object /\ command.member
    BY <1>0, <1>1, RunningFacts DEF Running, Provisioning, Identified, IInv, AttemptSound
  <1>3. CASE edges' = [edges EXCEPT ![o].active = @ + 1] /\ o \in Found
    <2>1. o \in Born
      BY <1>3 DEF Born, Found
    <2>2. edges'[o].active = edges[o].active + 1 /\ edges'[o].ended = edges[o].ended
          /\ \A x \in Object \ {o} : edges'[x] = edges[x]
      BY <1>0, <1>2, <1>3 DEF TypeOK, EdgeCount
    <2>3. edges[o].active \in Nat /\ edges[o].ended \in Nat
      BY <1>0, <1>2, EdgeCounts
    <2>4. Attachments' = [Attachments EXCEPT ![o] = @ + 1]
      <3>1. \A x \in Object : Attachments'[x] = IF x = o THEN Attachments[x] + 1 ELSE Attachments[x]
        BY <2>2, <2>3 DEF Attachments
      <3>2. QED
        BY <3>1 DEF Attachments
    <2>5. Intent = "saved" /\ Intent' = Intent /\ Born' = Born
      BY <1>0, <1>2, IntentIs, IntentIsNext DEF Born
    <2>6. QED
      BY <1>0, <1>2, <2>1, <2>4, <2>5, PromiseIs
  <1>4. CASE edges' = edges
    BY <1>0, <1>4, UnseenStep
  <1>5. QED
    BY <1>1, <1>3, <1>4 DEF AttachEdge

LEMMA RollBackIsWithdraw ==
    ASSUME IInv, NEW r \in Request, RollBackEdge(r)
    PROVE  \E o \in Object : Promise!Withdraw(o)
  <1>0. TypeOK /\ request[r].at = "event" /\ UNCHANGED <<command, object>>
    BY DEF IInv, RollBackEdge
  <1>1. PICK o : o = request[r].object
    OBVIOUS
  <1>2. command.status = "processing" /\ o \in Object /\ edges[o].active = 1
    BY <1>0, <1>1, RunningFacts DEF Running, Provisioning, Identified, IInv, AttemptSound
  <1>3. edges' = [edges EXCEPT ![o].active = @ - 1]
    BY <1>1 DEF RollBackEdge
  <1>4. edges'[o].active = 0 /\ edges'[o].ended = edges[o].ended
        /\ \A x \in Object \ {o} : edges'[x] = edges[x]
    BY <1>0, <1>2, <1>3 DEF TypeOK, EdgeCount
  <1>5. edges[o].ended \in Nat
    BY <1>0, <1>2, EdgeCounts
  <1>6. Attachments[o] > 0 /\ Attachments' = [Attachments EXCEPT ![o] = @ - 1]
    <2>1. \A x \in Object : Attachments'[x] = IF x = o THEN Attachments[x] - 1 ELSE Attachments[x]
      BY <1>2, <1>4, <1>5 DEF Attachments
    <2>2. Attachments' = [Attachments EXCEPT ![o] = @ - 1]
      BY <2>1 DEF Attachments
    <2>3. Attachments[o] > 0
      BY <1>2, <1>5 DEF Attachments
    <2>4. QED
      BY <2>2, <2>3
  <1>7. Intent = "saved" /\ Intent' = Intent /\ Born' = Born
    BY <1>0, <1>2, IntentIs, IntentIsNext DEF Born
  <1>8. QED
    BY <1>0, <1>2, <1>6, <1>7, PromiseIs

LEMMA ReceiptIsReceipt ==
    ASSUME IInv, NEW r \in Request, Receipt(r)
    PROVE  Promise!Receipt \/ SamePromise
  <1>0. TypeOK /\ command \in Command /\ request[r].at = "receipt" /\ UNCHANGED <<object, edges>>
    BY DEF IInv, TypeOK, Receipt
  <1>1. PICK o : o = command.reserved
    OBVIOUS
  <1>2. /\ command.status = "processing" /\ command.token = r /\ o \in Object
        /\ o = request[r].object /\ identity = "completed"
        /\ command.member => edges[o].active + edges[o].ended > 0
    BY <1>0, <1>1, RunningFacts DEF Running, Provisioning, Identified, IInv, AttemptSound
  <1>3. object[o].state # "none"
    BY <1>1, <1>2 DEF IInv, ObjectSound
  <1>4. o \in Born /\ (command.member => Attachments[o] > 0)
    BY <1>2, <1>3 DEF Born, Attachments
  <1>5. command' = [command EXCEPT !.status = "completed", !.live = FALSE]
    BY <1>2 DEF Receipt
  <1>6. command'.status = "completed" /\ command'.member = command.member
    BY <1>0, <1>5 DEF Command
  <1>7. Intent = "saved" /\ Intent' = "receipted"
    BY <1>2, <1>6, IntentIs, IntentIsNext
  <1>8. Born' = Born /\ Attachments' = Attachments
    BY <1>0 DEF Born, Attachments
  <1>9. QED
    BY <1>4, <1>6, <1>7, <1>8, PromiseIs

(* Linking a Passport, deletion, restoration and the end of an edge change   *)
(* neither what was born nor how many attachments were ever made.            *)
LEMMA UnseenObjectStep ==
    ASSUME IInv, \/ \E r \in Request : LinkPassport(r)
                 \/ \E o \in Object : SoftDelete(o) \/ Restore(o) \/ EndEdge(o)
    PROVE  SamePromise
  <1>0. TypeOK /\ UNCHANGED command
    BY DEF IInv, LinkPassport, SoftDelete, Restore, EndEdge
  <1>1. Intent' = Intent /\ command'.member = command.member
    BY <1>0 DEF Intent
  <1>2. ASSUME UNCHANGED edges,
               \A o \in Object : object'[o].state = "none" <=> object[o].state = "none"
        PROVE  SamePromise
    BY <1>1, <1>2 DEF SamePromise, Born, Attachments
  <1>3. ASSUME NEW r \in Request, LinkPassport(r) PROVE SamePromise
    <2>1. /\ UNCHANGED edges
          /\ object' = [object EXCEPT ![request[r].object].linked = TRUE]
      BY <1>3 DEF LinkPassport
    <2>2. \A o \in Object : object'[o].state = object[o].state
      BY <1>0, <2>1 DEF TypeOK, ObjectRecord
    <2>3. QED
      BY <1>2, <2>1, <2>2
  <1>4. ASSUME NEW o \in Object, SoftDelete(o) \/ Restore(o) PROVE SamePromise
    <2>1. \A x \in Object : object'[x].state = "none" <=> object[x].state = "none"
      BY <1>0, <1>4 DEF SoftDelete, Restore, TypeOK, ObjectRecord
    <2>2. QED
      BY <1>2, <1>4, <2>1 DEF SoftDelete, Restore
  <1>5. ASSUME NEW o \in Object, EndEdge(o) PROVE SamePromise
    <2>1. edges' = [edges EXCEPT ![o].active = @ - 1, ![o].ended = @ + 1] /\ UNCHANGED object
          /\ edges[o].active > 0
      BY <1>5 DEF EndEdge
    <2>2. edges[o].active \in Nat /\ edges[o].ended \in Nat
      BY <1>0, EdgeCounts
    <2>3. edges'[o].active = edges[o].active - 1 /\ edges'[o].ended = edges[o].ended + 1
          /\ \A x \in Object \ {o} : edges'[x] = edges[x]
      BY <1>0, <2>1 DEF TypeOK, EdgeCount
    <2>4. \A x \in Object : edges'[x].active + edges'[x].ended = edges[x].active + edges[x].ended
      BY <2>2, <2>3
    <2>5. QED
      BY <1>1, <2>1, <2>4 DEF SamePromise, Born, Attachments
  <1>6. QED
    BY <1>3, <1>4, <1>5

LEMMA UnseenLeaseStep ==
    ASSUME IInv, Crash \/ DesertedLeaseExpires \/ RunningLeaseExpires
    PROVE  SamePromise
  <1>0. TypeOK /\ command \in Command
    BY DEF IInv, TypeOK
  <1>1. command' = command \/ command' = [command EXCEPT !.live = FALSE]
    BY DEF Crash, DesertedLeaseExpires, RunningLeaseExpires
  <1>2. command'.status = command.status /\ command'.member = command.member
    BY <1>0, <1>1 DEF Command
  <1>3. UNCHANGED <<object, edges>>
    BY DEF Crash, DesertedLeaseExpires, RunningLeaseExpires
  <1>4. QED
    BY <1>0, <1>2, <1>3, UnseenStep

(* However often the command is retried, taken over, interrupted or refused, *)
(* it is the simple command its user sees: one Object, then attachments to   *)
(* it, then a receipt, then nothing (aosCreationCommandService.js).          *)
THEOREM PromiseKept == Spec => KeepsPromise
  <1>1. Init => Promise!Init
    <2> SUFFICES ASSUME Init PROVE Promise!Init
      OBVIOUS
    <2>2. command.status = "none" /\ command.member \in BOOLEAN
      <3>1. command \in [status : {"none"}, reserved : {NoObject}, member : BOOLEAN,
                         token : {Nobody}, live : {FALSE}, acknowledged : {FALSE}]
        BY DEF Init
      <3>2. QED
        BY <3>1
    <2>3. Intent = "none"
      BY <2>2, IntentIs
    <2>4. Born = {} /\ Attachments = [o \in Object |-> 0]
      <3>1. /\ object = [o \in Object |-> [state |-> "none", linked |-> FALSE]]
            /\ edges = [o \in Object |-> [active |-> 0, ended |-> 0]]
        BY DEF Init
      <3>2. QED
        BY <3>1 DEF Born, Attachments
    <2>5. QED
      BY <2>2, <2>3, <2>4 DEF Promise!Init, Intent, Born, Attachments
  <1>2. ASSUME IInv, [Next]_vars
        PROVE  Promise!Next \/ SamePromise
    <2>1. ASSUME NEW r \in Request,
                 \/ Arrive(r) \/ StartAcknowledge(r) \/ Proceed(r)
                 \/ Throw(r) \/ RollBackEdge(r) \/ Refuse(r)
          PROVE  Promise!Next \/ SamePromise
      <3>1. CASE PersistIntent(r)
        BY <1>2, <3>1, PersistIsSave DEF Promise!Next
      <3>2. CASE CreateObject(r)
        BY <1>2, <3>2, CreateIsBear DEF Promise!Next
      <3>3. CASE AttachEdge(r)
        BY <1>2, <3>3, AttachIsAttach DEF Promise!Next
      <3>4. CASE RollBackEdge(r)
        BY <1>2, <3>4, RollBackIsWithdraw DEF Promise!Next
      <3>5. CASE Receipt(r)
        BY <1>2, <3>5, ReceiptIsReceipt DEF Promise!Next
      <3>6. CASE LinkPassport(r)
        BY <1>2, <3>6, UnseenObjectStep
      <3>7. CASE ~(PersistIntent(r) \/ CreateObject(r) \/ AttachEdge(r) \/ RollBackEdge(r)
                   \/ Receipt(r) \/ LinkPassport(r))
        BY <1>2, <2>1, <3>7, UnseenRequestStep DEF Proceed
      <3>8. QED
        BY <3>1, <3>2, <3>3, <3>4, <3>5, <3>6, <3>7
    <2>2. CASE Crash \/ DesertedLeaseExpires \/ RunningLeaseExpires
      BY <1>2, <2>2, UnseenLeaseStep
    <2>3. CASE \E o \in Object : SoftDelete(o) \/ Restore(o) \/ EndEdge(o)
      BY <1>2, <2>3, UnseenObjectStep
    <2>4. CASE UNCHANGED vars
      BY <1>2, <2>4, UnseenStep DEF vars, IInv
    <2>5. QED
      BY <1>2, <2>1, <2>2, <2>3, <2>4 DEF Next
  <1>3. IInv /\ [Next]_vars => [Promise!Next]_(Promise!vars)
    BY <1>2 DEF Promise!vars, SamePromise, Intent, Born, Attachments
  <1>4. QED
    BY <1>1, <1>3, SpecIInv, PTL DEF Spec, KeepsPromise, Promise!Spec

=============================================================================
