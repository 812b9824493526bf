----------------------- MODULE PassportRegistry_proofs -----------------------
(***************************************************************************)
(* Proofs about PassportRegistry, for any processes, IDs, sources, Entities *)
(* and any number of faults.  The inductive invariant adds to the checked   *)
(* ones that every copy a process may still write is consistent, and that   *)
(* only claimants hold stale copies.                                        *)
(***************************************************************************)
EXTENDS PassportRegistry, TLAPS

(* What is true of a call by itself: whatever it may still write could be    *)
(* the file, only an owner claim goes through the steps of one, and only a   *)
(* claimant claims or restores.                                              *)
CallSound(p, c) ==
    /\ c \in Call
    /\ Consistent(c.next)
    /\ Consistent(c.backup)
    /\ c.at \in {"snapshot", "reassign", "claimed"} => c.op \in Claim
    /\ p \notin Claimant => c.op.kind \notin {"claim", "restore"}

CallsSound == \A p \in Process : CallSound(p, call[p])

IInv ==
    /\ TypeOK
    /\ FileConsistent
    /\ CallsSound
    /\ ExclusiveUnlessRaced
    /\ FreshMutation

-----------------------------------------------------------------------------
(* The operations on records.                                                *)

LEMMA EmptyConsistent == Consistent({})
  BY DEF Consistent

LEMMA IdleIsCall == Idle \in Call
  BY DEF Idle, Call, NoOperation

LEMMA MutatedTyped ==
  ASSUME NEW op \in Operation, NEW R \in SUBSET Passport, NEW N \in Mutated(op, R)
  PROVE  N \in SUBSET Passport
<1>1. CASE op.kind = "register"
  <2>1. N \in Registered(op, R)
    BY <1>1 DEF Mutated
  <2>2. op \in Registration
    BY <1>1 DEF Operation, Binding, Unbinding, Claim
  <2> QED BY <2>1, <2>2 DEF Registered, Passport, Ids, Registration
<1>2. CASE op.kind = "bind"
  <2>1. N \in Bound(op, R)
    BY <1>2 DEF Mutated
  <2>2. op \in Binding
    BY <1>2 DEF Operation, Registration, Unbinding, Claim
  <2>3. PICK q \in R :
           N = (R \ {q}) \cup {[q EXCEPT !.sources = @ \cup {op.source},
                                         !.entity = IF @ = None THEN op.entity ELSE @]}
    BY <2>1 DEF Bound
  <2>4. [q EXCEPT !.sources = @ \cup {op.source},
                  !.entity = IF @ = None THEN op.entity ELSE @] \in Passport
    BY <2>2 DEF Passport, Binding
  <2> QED BY <2>3, <2>4
<1>3. CASE op.kind = "unbind"
  <2>1. N \in Unbound(op, R)
    BY <1>3 DEF Mutated
  <2>2. op \in Unbinding
    BY <1>3 DEF Operation, Registration, Binding, Claim
  <2> QED BY <2>1, <2>2 DEF Unbound, Passport, Unbinding
<1>4. CASE op.kind \notin {"register", "bind", "unbind"}
  BY <1>4 DEF Mutated
<1> QED BY <1>1, <1>2, <1>3, <1>4

LEMMA MutatedConsistent ==
  ASSUME NEW op \in Operation, NEW R \in SUBSET Passport, NEW N \in Mutated(op, R),
         Consistent(R)
  PROVE  Consistent(N)
<1>1. CASE op.kind = "register"
  <2>1. N \in Registered(op, R)
    BY <1>1 DEF Mutated
  <2>2. CASE \E r \in R : op.source \in r.sources
    BY <2>1, <2>2 DEF Registered
  <2>3. CASE \A r \in R : op.source \notin r.sources
    <3>1. PICK i \in Id \ Ids(R) :
             N = R \cup {[id |-> i, sources |-> {op.source}, entity |-> op.entity,
                          previous |-> {}]}
      BY <2>1, <2>3 DEF Registered
    <3> DEFINE new == [id |-> i, sources |-> {op.source}, entity |-> op.entity,
                       previous |-> {}]
    <3>2. /\ new.id = i /\ new.sources = {op.source}
          /\ \A r \in R : r.id # i
      BY DEF Ids
    <3> HIDE DEF new
    <3>3. N = R \cup {new}
      BY <3>1 DEF new
    <3>4. \A r \in R : r.sources \cap new.sources = {} /\ r.id # new.id
      BY <3>2, <2>3
    <3>5. new.sources # {}
      BY <3>2
    <3> QED BY <3>3, <3>4, <3>5 DEF Consistent
  <2> QED BY <2>2, <2>3
<1>2. CASE op.kind = "bind"
  <2>1. N \in Bound(op, R)
    BY <1>2 DEF Mutated
  <2>2. PICK q \in R :
           /\ \A other \in R \ {q} : op.source \notin other.sources
           /\ N = (R \ {q}) \cup {[q EXCEPT !.sources = @ \cup {op.source},
                                            !.entity = IF @ = None THEN op.entity ELSE @]}
    BY <2>1 DEF Bound
  <2> DEFINE new == [q EXCEPT !.sources = @ \cup {op.source},
                              !.entity = IF @ = None THEN op.entity ELSE @]
  <2>3. new.id = q.id /\ new.sources = q.sources \cup {op.source}
    BY DEF Passport
  <2> HIDE DEF new
  <2>4. N = (R \ {q}) \cup {new}
    BY <2>2 DEF new
  <2>5. \A r \in R \ {q} : r.id # new.id /\ r.sources \cap new.sources = {}
    BY <2>2, <2>3 DEF Consistent
  <2>6. new.sources # {}
    BY <2>3
  <2> QED BY <2>4, <2>5, <2>6 DEF Consistent
<1>3. CASE op.kind = "unbind"
  <2>1. N \in Unbound(op, R)
    BY <1>3 DEF Mutated
  <2>2. CASE \A r \in R : op.source \notin r.sources
    BY <2>1, <2>2 DEF Unbound
  <2>3. CASE \E r \in R : op.source \in r.sources
    <3>1. PICK q \in R :
             /\ q.sources # {op.source}
             /\ N = (R \ {q}) \cup {[q EXCEPT !.sources = @ \ {op.source}]}
      BY <2>1, <2>3 DEF Unbound
    <3> DEFINE new == [q EXCEPT !.sources = @ \ {op.source}]
    <3>2. new.id = q.id /\ new.sources = q.sources \ {op.source}
      BY DEF Passport
    <3>3. q.sources # {} /\ new.sources # {}
      BY <3>1, <3>2 DEF Consistent
    <3> QED BY <3>1, <3>2, <3>3 DEF Consistent
  <2> QED BY <2>2, <2>3
<1>4. CASE op.kind \notin {"register", "bind", "unbind"}
  BY <1>4 DEF Mutated
<1> QED BY <1>1, <1>2, <1>3, <1>4

LEMMA ReassignedSound ==
  ASSUME NEW op \in Claim, NEW R \in SUBSET Passport, NEW N \in Reassigned(op, R),
         Consistent(R)
  PROVE  N \in SUBSET Passport /\ Consistent(N)
<1>1. PICK q \in R :
         /\ q.id = op.id /\ op.wanted \notin Ids(R)
         /\ N = (R \ {q}) \cup {[q EXCEPT !.id = op.wanted, !.previous = @ \cup {op.id}]}
  BY DEF Reassigned
<1> DEFINE new == [q EXCEPT !.id = op.wanted, !.previous = @ \cup {op.id}]
<1>2. /\ new \in Passport
      /\ new.id = op.wanted /\ new.sources = q.sources
  BY <1>1 DEF Passport, Claim
<1>3. \A r \in R : r.id # op.wanted
  BY <1>1 DEF Ids
<1> QED BY <1>1, <1>2, <1>3 DEF Consistent

(* A mutation leaves every Passport there.                                   *)
LEMMA MutatedKeeps ==
  ASSUME NEW op \in Operation, NEW R \in SUBSET Passport, NEW N \in Mutated(op, R),
         NEW r \in R
  PROVE  StillThere(r, N)
<1>0. r \in Passport /\ \A X : r \in X => StillThere(r, X)
  BY DEF StillThere
<1>1. CASE op.kind = "register"
  <2>1. N \in Registered(op, R)
    BY <1>1 DEF Mutated
  <2>2. r \in N
    BY <2>1 DEF Registered
  <2> QED BY <2>2, <1>0
<1>2. CASE op.kind = "bind"
  <2>1. PICK q \in R :
           N = (R \ {q}) \cup {[q EXCEPT !.sources = @ \cup {op.source},
                                         !.entity = IF @ = None THEN op.entity ELSE @]}
    BY <1>2 DEF Bound, Mutated
  <2>2. CASE r = q
    <3> DEFINE new == [q EXCEPT !.sources = @ \cup {op.source},
                                !.entity = IF @ = None THEN op.entity ELSE @]
    <3>1. /\ new.id = q.id /\ new.previous = q.previous
          /\ new.sources = q.sources \cup {op.source}
          /\ q.entity # None => new.entity = q.entity
      BY DEF Passport
    <3> HIDE DEF new
    <3>2. new \in N
      BY <2>1 DEF new
    <3> QED BY <2>2, <3>1, <3>2 DEF StillThere
  <2>3. CASE r # q
    BY <2>1, <2>3, <1>0
  <2> QED BY <2>2, <2>3
<1>3. CASE op.kind = "unbind"
  <2>1. N \in Unbound(op, R)
    BY <1>3 DEF Mutated
  <2>2. CASE N = R
    BY <2>2, <1>0
  <2>3. CASE N # R
    <3>1. PICK q \in R : N = (R \ {q}) \cup {[q EXCEPT !.sources = @ \ {op.source}]}
      BY <2>1, <2>3 DEF Unbound
    <3>2. CASE r = q
      <4> DEFINE new == [q EXCEPT !.sources = @ \ {op.source}]
      <4>1. /\ new.id = q.id /\ new.previous = q.previous /\ new.entity = q.entity
            /\ new.sources = q.sources \ {op.source}
        BY DEF Passport
      <4> HIDE DEF new
      <4>2. new \in N
        BY <3>1 DEF new
      <4> QED BY <3>2, <4>1, <4>2 DEF StillThere
    <3>3. CASE r # q
      BY <3>1, <3>3, <1>0
    <3> QED BY <3>2, <3>3
  <2> QED BY <2>2, <2>3
<1>4. CASE op.kind \notin {"register", "bind", "unbind"}
  BY <1>4 DEF Mutated
<1> QED BY <1>1, <1>2, <1>3, <1>4

-----------------------------------------------------------------------------
(* The steps of a call.                                                      *)

LEMMA IdleSound ==
  ASSUME NEW p \in Process
  PROVE  CallSound(p, Idle) /\ Idle.at \notin Critical
BY IdleIsCall, EmptyConsistent DEF CallSound, Idle, NoOperation, Critical

LEMMA ClaimKind ==
  ASSUME NEW c \in Call, c.op.kind = "claim"
  PROVE  c.op \in Claim
BY DEF Call, Operation, Registration, Binding, Unbinding

LEMMA RestoringSound ==
  ASSUME NEW p \in Process, NEW c, CallSound(p, c), c.op \in Claim
  PROVE  CallSound(p, Restoring(c)) /\ Restoring(c).at \notin Critical
<1> DEFINE d == Restoring(c)
<1>1. c \in Call /\ c.op.kind = "claim"
  BY DEF CallSound, Claim
<1>2. /\ d.at = "lock" /\ d.op = [c.op EXCEPT !.kind = "restore"]
      /\ d.next = c.backup /\ d.backup = c.backup
  BY <1>1 DEF Restoring, Call
<1>3. [c.op EXCEPT !.kind = "restore"] \in
         [kind : {"none", "restore"}, id : Id \cup {None}, source : {None},
          entity : Entity \cup {None}, wanted : Id \cup {None}]
  BY DEF Claim
<1>4. d \in Call
  BY <1>1, <1>3 DEF Restoring, Call
<1>5. p \in Claimant
  BY <1>1 DEF CallSound
<1> HIDE DEF d
<1>6. CallSound(p, d) /\ d.at \notin Critical
  BY <1>2, <1>4, <1>5 DEF CallSound, Critical
<1> QED BY <1>6 DEF d

LEMMA AfterSound ==
  ASSUME NEW p \in Process, NEW c, CallSound(p, c), NEW ok \in BOOLEAN
  PROVE  CallSound(p, After(c, ok)) /\ After(c, ok).at \notin Critical
<1>1. CASE c.op.kind # "claim"
  BY <1>1, IdleSound DEF After
<1>2. CASE c.op.kind = "claim"
  <2>1. c \in Call /\ c.op \in Claim
    BY <1>2, ClaimKind DEF CallSound
  <2>2. CASE ok
    <3> DEFINE d == [c EXCEPT !.at = "claimed"]
    <3>1. /\ d \in Call /\ d.at = "claimed" /\ d.op = c.op
          /\ d.next = c.next /\ d.backup = c.backup
      BY <2>1 DEF Call
    <3> HIDE DEF d
    <3>2. CallSound(p, d) /\ d.at \notin Critical
      BY <3>1, <2>1 DEF CallSound, Critical
    <3> QED BY <3>2, <1>2, <2>2 DEF After, d
  <2>3. CASE ~ok
    BY <1>2, <2>1, <2>3, RestoringSound DEF After
  <2> QED BY <2>2, <2>3
<1> QED BY <1>1, <1>2

(* A call moves to a place that is not one of the claim's.                   *)
LEMMA MoveSound ==
  ASSUME NEW p \in Process, NEW c, CallSound(p, c),
         NEW at \in {"lock", "stale"} \cup Critical,
         NEW N \in SUBSET Passport, Consistent(N), NEW ok \in BOOLEAN
  PROVE  /\ CallSound(p, [c EXCEPT !.at = at, !.next = N, !.ok = ok])
         /\ CallSound(p, [c EXCEPT !.at = at, !.next = N])
         /\ CallSound(p, [c EXCEPT !.at = at])
<1>1. c \in Call
  BY DEF CallSound
<1>2. /\ [c EXCEPT !.at = at, !.next = N, !.ok = ok] \in Call
      /\ [c EXCEPT !.at = at, !.next = N] \in Call
      /\ [c EXCEPT !.at = at] \in Call
  BY <1>1 DEF Call, Critical
<1> QED BY <1>1, <1>2 DEF CallSound, Call, Critical

-----------------------------------------------------------------------------
(* The invariant is inductive.                                               *)

LEMMA InitIInv == Init => IInv
<1> SUFFICES ASSUME Init PROVE IInv
  OBVIOUS
<1>1. TypeOK
  <2>1. call \in [Process -> Call]
    BY IdleIsCall DEF Init
  <2>2. faults \in 0..MaxFaults
    BY RegistryAssumption DEF Init
  <2>4. raced \in BOOLEAN
    BY DEF Init
  <2>3. registry \subseteq Passport
        /\ lock \in [owner : Process, stale : BOOLEAN] \cup {NoLock}
    BY DEF Init
  <2> QED BY <2>1, <2>2, <2>3, <2>4 DEF TypeOK
<1>2. CallsSound
  BY IdleSound DEF Init, CallsSound
<1>3. FileConsistent
  BY EmptyConsistent DEF Init, FileConsistent
<1>4. ExclusiveUnlessRaced /\ FreshMutation
  BY DEF Init, ExclusiveUnlessRaced, FreshMutation, Idle, Critical
<1> QED BY <1>1, <1>2, <1>3, <1>4 DEF IInv

(* The effect of every action but Write and the ageing of the lock: one call *)
(* moves, perhaps the lock changes hands, and the file stays.                *)
LEMMA OneCallMoves ==
  ASSUME IInv, NEW p \in Process, NEW c, CallSound(p, c),
         call' = [call EXCEPT ![p] = c], registry' = registry,
         lock' \in [owner : Process, stale : BOOLEAN] \cup {NoLock},
         raced' \in BOOLEAN, raced => raced', faults' \in 0..MaxFaults,
         ~raced' => \A q \in Process \ {p} :
                       call[q].at \in Critical => lock'.owner = q,
         ~raced' => (c.at \in Critical => lock'.owner = p),
         c.at = "write" /\ c.op.kind \notin {"claim", "restore"}
            => c.next \in Mutated(c.op, registry)
  PROVE  IInv'
<1>1. c \in Call /\ call \in [Process -> Call]
  BY DEF CallSound, IInv, TypeOK
<1>2. call'[p] = c /\ \A q \in Process \ {p} : call'[q] = call[q]
  BY <1>1
<1>3. TypeOK'
  <2>1. call' \in [Process -> Call]
    BY <1>1
  <2> QED BY <2>1 DEF IInv, TypeOK
<1>4. FileConsistent'
  BY DEF IInv, FileConsistent
<1>5. CallsSound'
  BY <1>2 DEF IInv, CallsSound
<1>6. ExclusiveUnlessRaced'
  BY <1>2 DEF ExclusiveUnlessRaced
<1>7. FreshMutation'
  BY <1>2 DEF IInv, FreshMutation
<1> QED BY <1>3, <1>4, <1>5, <1>6, <1>7 DEF IInv

(* The same, when the lock does not change hands.                            *)
LEMMA OneCallMovesOn ==
  ASSUME IInv, NEW p \in Process, NEW c, CallSound(p, c),
         call' = [call EXCEPT ![p] = c],
         registry' = registry, lock' = lock, raced' = raced, faults' \in 0..MaxFaults,
         c.at \in Critical => call[p].at \in Critical,
         c.at = "write" /\ c.op.kind \notin {"claim", "restore"}
            => c.next \in Mutated(c.op, registry)
  PROVE  IInv'
<1>1. ~raced' => \A q \in Process : call[q].at \in Critical => lock'.owner = q
  BY DEF IInv, ExclusiveUnlessRaced
<1>2. lock' \in [owner : Process, stale : BOOLEAN] \cup {NoLock} /\ raced' \in BOOLEAN
  BY DEF IInv, TypeOK
<1> QED BY <1>1, <1>2, OneCallMoves

(* A call begins or goes on without touching the lock file or the records.   *)
LEMMA BeginKeeps ==
  ASSUME IInv, NEW p \in Process, Begin(p)
  PROVE  IInv'
<1>1. PICK op \in Registration \cup Binding \cup Unbinding :
         call' = [call EXCEPT ![p].at = "lock", ![p].op = op]
  BY DEF Begin
<1> DEFINE c == [Idle EXCEPT !.at = "lock", !.op = op]
<1>2. call \in [Process -> Call] /\ call[p] = Idle
  BY DEF Begin, IInv, TypeOK
<1>3. call' = [call EXCEPT ![p] = c]
  BY <1>1, <1>2
<1>4. op \in Operation /\ op.kind \notin {"claim", "restore"}
  BY DEF Operation, Registration, Binding, Unbinding
<1>5. c \in Call /\ c.at = "lock" /\ c.op = op /\ c.next = {} /\ c.backup = {}
  BY <1>4 DEF Idle, Call
<1> HIDE DEF c
<1>6. CallSound(p, c) /\ c.at \notin Critical
  BY <1>4, <1>5, EmptyConsistent DEF CallSound, Critical
<1> QED BY <1>3, <1>5, <1>6, OneCallMovesOn DEF Begin, Critical, IInv, TypeOK

LEMMA BeginClaimKeeps ==
  ASSUME IInv, NEW p \in Process, BeginClaim(p)
  PROVE  IInv'
<1>1. PICK op \in Claim : call' = [call EXCEPT ![p].at = "snapshot", ![p].op = op]
  BY DEF BeginClaim
<1> DEFINE c == [Idle EXCEPT !.at = "snapshot", !.op = op]
<1>2. call \in [Process -> Call] /\ call[p] = Idle
  BY DEF BeginClaim, IInv, TypeOK
<1>3. call' = [call EXCEPT ![p] = c]
  BY <1>1, <1>2
<1>4. op \in Operation
  BY DEF Operation
<1>5. c \in Call /\ c.at = "snapshot" /\ c.op = op /\ c.next = {} /\ c.backup = {}
  BY <1>4 DEF Idle, Call
<1> HIDE DEF c
<1>6. CallSound(p, c) /\ c.at \notin Critical
  BY <1>4, <1>5, EmptyConsistent DEF CallSound, Critical, BeginClaim
<1> QED BY <1>3, <1>5, <1>6, OneCallMovesOn DEF BeginClaim, Critical, IInv, TypeOK

LEMMA TakeSnapshotKeeps ==
  ASSUME IInv, NEW p \in Process, TakeSnapshot(p)
  PROVE  IInv'
<1> DEFINE c == [call[p] EXCEPT !.at = "reassign", !.backup = registry]
<1>1. call \in [Process -> Call] /\ registry \in SUBSET Passport
  BY DEF IInv, TypeOK
<1>2. call' = [call EXCEPT ![p] = c]
  BY <1>1 DEF TakeSnapshot
<1>3. CallSound(p, call[p]) /\ call[p].at = "snapshot"
  BY DEF IInv, CallsSound, TakeSnapshot
<1>4. /\ c \in Call /\ c.at = "reassign" /\ c.op = call[p].op
      /\ c.next = call[p].next /\ c.backup = registry
  BY <1>1, <1>3 DEF Call
<1> HIDE DEF c
<1>5. CallSound(p, c) /\ c.at \notin Critical
  BY <1>3, <1>4 DEF CallSound, Critical, IInv, FileConsistent
<1> QED BY <1>2, <1>4, <1>5, OneCallMovesOn DEF TakeSnapshot, Critical, IInv, TypeOK

LEMMA ReassignKeeps ==
  ASSUME IInv, NEW p \in Process, Reassign(p)
  PROVE  IInv'
<1> DEFINE op == call[p].op
<1>1. /\ call \in [Process -> Call] /\ registry \in SUBSET Passport
      /\ Consistent(registry) /\ CallSound(p, call[p])
      /\ call[p].at = "reassign" /\ op \in Claim
  BY DEF IInv, TypeOK, FileConsistent, CallsSound, CallSound, Reassign
<1>2. /\ UNCHANGED <<registry, lock, raced>> /\ faults' \in 0..MaxFaults
  BY DEF Reassign, IInv, TypeOK
<1>3. CASE \E next \in Reassigned(op, registry) :
             call' = [call EXCEPT ![p].at = "lock", ![p].next = next]
  <2>1. PICK next \in Reassigned(op, registry) :
           call' = [call EXCEPT ![p].at = "lock", ![p].next = next]
    BY <1>3
  <2> DEFINE c == [call[p] EXCEPT !.at = "lock", !.next = next]
  <2>2. next \in SUBSET Passport /\ Consistent(next)
    BY <1>1, ReassignedSound
  <2>3. CallSound(p, c) /\ c.at = "lock"
    BY <1>1, <2>2, MoveSound DEF Call
  <2>4. call' = [call EXCEPT ![p] = c]
    BY <2>1, <1>1
  <2> HIDE DEF c
  <2> QED BY <1>2, <2>3, <2>4, OneCallMovesOn DEF Critical
<1>4. CASE call' = [call EXCEPT ![p] = After(@, op.wanted = op.id /\ op.id \in Ids(registry))]
  <2> DEFINE c == After(call[p], op.wanted = op.id /\ op.id \in Ids(registry))
  <2>1. CallSound(p, c) /\ c.at \notin Critical
    BY <1>1, AfterSound
  <2>2. call' = [call EXCEPT ![p] = c]
    BY <1>4
  <2> HIDE DEF c
  <2> QED BY <1>2, <2>1, <2>2, OneCallMovesOn DEF Critical
<1> QED BY <1>3, <1>4 DEF Reassign

LEMMA EndClaimKeeps ==
  ASSUME IInv, NEW p \in Process, EndClaim(p)
  PROVE  IInv'
BY IdleSound, OneCallMovesOn DEF EndClaim, Critical, IInv, TypeOK

LEMMA BusyKeeps ==
  ASSUME IInv, NEW p \in Process, Busy(p)
  PROVE  IInv'
<1> DEFINE c == After(call[p], FALSE)
<1>1. CallSound(p, c) /\ c.at \notin Critical
  BY AfterSound DEF IInv, CallsSound
<1>2. call' = [call EXCEPT ![p] = c]
  BY DEF Busy
<1> HIDE DEF c
<1> QED BY <1>1, <1>2, OneCallMovesOn DEF Busy, Critical, IInv, TypeOK

LEMMA SeeStaleKeeps ==
  ASSUME IInv, NEW p \in Process, SeeStale(p)
  PROVE  IInv'
<1> DEFINE c == [call[p] EXCEPT !.at = "stale"]
<1>1. call[p] \in Call /\ CallSound(p, call[p])
  BY DEF IInv, TypeOK, CallsSound
<1>2. CallSound(p, c) /\ c.at = "stale"
  BY <1>1, MoveSound DEF Call, CallSound
<1>3. call' = [call EXCEPT ![p] = c]
  BY DEF SeeStale
<1> HIDE DEF c
<1> QED BY <1>2, <1>3, OneCallMovesOn DEF SeeStale, Critical, IInv, TypeOK

(* The lock changes hands.                                                   *)
LEMMA AcquireKeeps ==
  ASSUME IInv, NEW p \in Process, Acquire(p)
  PROVE  IInv'
<1> DEFINE at == IF call[p].op.kind \in {"claim", "restore"} THEN "write" ELSE "read"
           c == [call[p] EXCEPT !.at = at]
<1>1. call[p] \in Call /\ CallSound(p, call[p])
  BY DEF IInv, TypeOK, CallsSound
<1>2. at \in Critical /\ at # "stale"
  BY DEF Critical
<1>3. /\ c.op = call[p].op
      /\ c.at = "write" => c.op.kind \in {"claim", "restore"}
  BY <1>1 DEF Call
<1>4. CallSound(p, c)
  <2>0. {} \in SUBSET Passport
    OBVIOUS
  <2>1. CASE call[p].op.kind \in {"claim", "restore"}
    <3>1. c = [call[p] EXCEPT !.at = "write"]
      BY <2>1
    <3>2. CallSound(p, [call[p] EXCEPT !.at = "write"])
      BY <1>1, <2>0, EmptyConsistent, MoveSound DEF Critical
    <3> QED BY <3>1, <3>2
  <2>2. CASE call[p].op.kind \notin {"claim", "restore"}
    <3>1. c = [call[p] EXCEPT !.at = "read"]
      BY <2>2
    <3>2. CallSound(p, [call[p] EXCEPT !.at = "read"])
      BY <1>1, <2>0, EmptyConsistent, MoveSound DEF Critical
    <3> QED BY <3>1, <3>2
  <2> QED BY <2>1, <2>2
<1>5. call' = [call EXCEPT ![p] = c]
  BY DEF Acquire, Enter
<1>6. ~raced => \A q \in Process : call[q].at \notin Critical
  BY RegistryAssumption DEF Acquire, IInv, ExclusiveUnlessRaced, NoLock
<1>7. lock' = [owner |-> p, stale |-> FALSE] /\ lock'.owner = p
  BY DEF Acquire
<1>8. UNCHANGED <<registry, raced>> /\ raced \in BOOLEAN /\ faults' \in 0..MaxFaults
  BY DEF Acquire, IInv, TypeOK
<1> HIDE DEF c
<1> QED BY <1>3, <1>4, <1>5, <1>6, <1>7, <1>8, OneCallMoves

LEMMA BreakStaleKeeps ==
  ASSUME IInv, NEW p \in Process, BreakStale(p)
  PROVE  IInv'
<1> DEFINE c == [call[p] EXCEPT !.at = "lock"]
<1>1. call[p] \in Call /\ CallSound(p, call[p])
  BY DEF IInv, TypeOK, CallsSound
<1>2. CallSound(p, c) /\ c.at = "lock"
  BY <1>1, MoveSound DEF Call, CallSound
<1>3. call' = [call EXCEPT ![p] = c]
  BY DEF BreakStale
<1>4. ~raced' => \A q \in Process : call[q].at \notin Critical
  <2>1. raced' <=> (raced \/ InUse)
    BY DEF BreakStale
  <2>2. ~raced /\ ~InUse => \A q \in Process : call[q].at \notin Critical
    BY RegistryAssumption DEF InUse, IInv, ExclusiveUnlessRaced, NoLock
  <2> QED BY <2>1, <2>2
<1>5. registry' = registry /\ lock' = NoLock /\ faults' \in 0..MaxFaults
  BY DEF BreakStale, IInv, TypeOK
<1>6. raced' \in BOOLEAN /\ (raced => raced')
  BY DEF BreakStale
<1>7. c.at \notin Critical /\ c.at # "write"
  BY <1>2 DEF Critical
<1>8. lock' \in [owner : Process, stale : BOOLEAN] \cup {NoLock}
  BY <1>5
<1> HIDE DEF c
<1> QED BY <1>2, <1>3, <1>4, <1>5, <1>6, <1>7, <1>8, OneCallMoves

LEMMA ReleaseKeeps ==
  ASSUME IInv, NEW p \in Process, Release(p)
  PROVE  IInv'
<1> DEFINE c == After(call[p], call[p].ok)
<1>1. call[p].ok \in BOOLEAN /\ CallSound(p, call[p])
  BY DEF IInv, TypeOK, CallsSound, Call
<1>2. CallSound(p, c) /\ c.at \notin Critical
  BY <1>1, AfterSound
<1>3. call' = [call EXCEPT ![p] = c]
  BY DEF Release
<1>4. ~raced => \A q \in Process \ {p} : call[q].at \notin Critical
  BY DEF Release, Critical, IInv, ExclusiveUnlessRaced
<1>5. /\ registry' = registry /\ lock' = NoLock /\ raced' = raced
      /\ raced \in BOOLEAN /\ faults' \in 0..MaxFaults
  BY DEF Release, IInv, TypeOK
<1> HIDE DEF c
<1> QED BY <1>2, <1>3, <1>4, <1>5, OneCallMoves DEF Critical

LEMMA AcquireFailsKeeps ==
  ASSUME IInv, NEW p \in Process, AcquireFails(p)
  PROVE  IInv'
<1> DEFINE c == After(call[p], FALSE)
<1>1. CallSound(p, c) /\ c.at \notin Critical
  BY AfterSound DEF IInv, CallsSound
<1>2. call' = [call EXCEPT ![p] = c]
  BY DEF AcquireFails
<1>3. ~raced => \A q \in Process : call[q].at \notin Critical
  BY RegistryAssumption DEF AcquireFails, IInv, ExclusiveUnlessRaced, NoLock
<1>4. /\ registry' = registry /\ lock' = [owner |-> p, stale |-> FALSE]
      /\ raced' = raced /\ raced \in BOOLEAN
  BY DEF AcquireFails, IInv, TypeOK
<1>5. faults' \in 0..MaxFaults
  BY RegistryAssumption DEF AcquireFails, Fault, IInv, TypeOK
<1> HIDE DEF c
<1> QED BY <1>1, <1>2, <1>3, <1>4, <1>5, OneCallMoves DEF Critical

(* Under the lock.                                                           *)
LEMMA ReadAndMutateKeeps ==
  ASSUME IInv, NEW p \in Process, ReadAndMutate(p)
  PROVE  IInv'
<1> DEFINE op == call[p].op
<1>1. /\ call \in [Process -> Call] /\ registry \in SUBSET Passport
      /\ Consistent(registry) /\ CallSound(p, call[p])
      /\ call[p].at = "read"
  BY DEF IInv, TypeOK, FileConsistent, CallsSound, ReadAndMutate
<1>2. UNCHANGED <<registry, lock, raced>> /\ faults' \in 0..MaxFaults
  BY DEF ReadAndMutate, IInv, TypeOK
<1>3. CASE \E next \in Mutated(op, registry) :
             call' = [call EXCEPT ![p].at = "write", ![p].next = next]
  <2>1. PICK next \in Mutated(op, registry) :
           call' = [call EXCEPT ![p].at = "write", ![p].next = next]
    BY <1>3
  <2> DEFINE c == [call[p] EXCEPT !.at = "write", !.next = next]
  <2>2. op \in Operation
    <3>1. op.kind \in {"register", "bind", "unbind"}
      BY DEF Mutated
    <3> QED BY <1>1, <3>1 DEF CallSound, Call
  <2>3. next \in SUBSET Passport /\ Consistent(next)
    BY <1>1, <2>2, MutatedTyped, MutatedConsistent
  <2>4. CallSound(p, c) /\ c.op = op /\ c.next = next
    <3>1. CallSound(p, c)
      BY <1>1, <2>3, MoveSound DEF Critical
    <3>2. call[p] \in Call
      BY <1>1 DEF CallSound
    <3> QED BY <3>1, <3>2 DEF Call
  <2>5. call' = [call EXCEPT ![p] = c]
    BY <2>1, <1>1
  <2>6. c.next \in Mutated(c.op, registry)
    BY <2>4
  <2> HIDE DEF c
  <2> QED BY <1>1, <1>2, <2>4, <2>5, <2>6, OneCallMovesOn DEF Critical
<1>4. CASE call' = [call EXCEPT ![p].at = "release"]
  <2> DEFINE c == [call[p] EXCEPT !.at = "release"]
  <2>1. CallSound(p, c) /\ c.at = "release"
    <3>1. call[p] \in Call /\ {} \in SUBSET Passport
      BY <1>1 DEF CallSound
    <3>2. CallSound(p, c)
      BY <1>1, <3>1, MoveSound, EmptyConsistent DEF Critical
    <3>3. c.at = "release"
      BY <3>1 DEF Call
    <3> QED BY <3>2, <3>3
  <2>2. call' = [call EXCEPT ![p] = c]
    BY <1>4
  <2> HIDE DEF c
  <2> QED BY <1>1, <1>2, <2>1, <2>2, OneCallMovesOn DEF Critical
<1> QED BY <1>3, <1>4 DEF ReadAndMutate

(* The only action that writes the file: nobody else is about to write, or   *)
(* the lock has been raced.                                                  *)
LEMMA WriteKeeps ==
  ASSUME IInv, NEW p \in Process, Write(p)
  PROVE  IInv'
<1> DEFINE c == [call[p] EXCEPT !.at = "release", !.next = {}]
<1>1. /\ call \in [Process -> Call] /\ CallSound(p, call[p]) /\ call[p].at = "write"
  BY DEF IInv, TypeOK, CallsSound, Write
<1>2. CallSound(p, c) /\ c.at = "release"
  <2>1. call[p] \in Call /\ {} \in SUBSET Passport
    BY <1>1 DEF CallSound
  <2>2. CallSound(p, c)
    BY <1>1, <2>1, MoveSound, EmptyConsistent DEF Critical
  <2>3. c.at = "release"
    BY <2>1 DEF Call
  <2> QED BY <2>2, <2>3
<1>3. call' = [call EXCEPT ![p] = c]
  BY <1>1 DEF Write
<1>4. /\ call'[p].at = "release" /\ CallSound(p, call'[p])
      /\ \A q \in Process \ {p} : call'[q] = call[q]
  BY <1>1, <1>2, <1>3
<1>5. TypeOK'
  <2>1. call' \in [Process -> Call]
    BY <1>1, <1>2, <1>3 DEF CallSound
  <2>2. registry' \subseteq Passport
    BY <1>1 DEF Write, CallSound, Call
  <2> QED BY <2>1, <2>2 DEF Write, IInv, TypeOK
<1>6. FileConsistent'
  BY <1>1 DEF Write, CallSound, FileConsistent
<1>7. CallsSound'
  BY <1>4 DEF IInv, CallsSound
<1>8. ~raced => lock.owner = p /\ \A q \in Process \ {p} : call[q].at \notin Critical
  BY <1>1 DEF IInv, ExclusiveUnlessRaced, Critical
<1>9. ExclusiveUnlessRaced'
  BY <1>4, <1>8 DEF Write, ExclusiveUnlessRaced
<1>10. FreshMutation'
  BY <1>4, <1>8 DEF Write, FreshMutation, Critical
<1> QED BY <1>5, <1>6, <1>7, <1>9, <1>10 DEF IInv

(* Faults.                                                                   *)
LEMMA FaultCounted ==
  ASSUME IInv, Fault
  PROVE  faults' \in 0..MaxFaults
BY RegistryAssumption DEF IInv, TypeOK, Fault

LEMMA FailUnderLockKeeps ==
  ASSUME IInv, NEW p \in Process, FailUnderLock(p)
  PROVE  IInv'
<1> DEFINE c == [call[p] EXCEPT !.at = "release", !.next = {}, !.ok = FALSE]
<1>1. /\ call \in [Process -> Call] /\ CallSound(p, call[p]) /\ call[p].at \in Critical
  BY DEF IInv, TypeOK, CallsSound, FailUnderLock, Critical
<1>2. CallSound(p, c) /\ c.at = "release"
  <2>1. call[p] \in Call /\ {} \in SUBSET Passport
    BY <1>1 DEF CallSound
  <2>2. CallSound(p, c)
    BY <1>1, <2>1, MoveSound, EmptyConsistent DEF Critical
  <2>3. c.at = "release"
    BY <2>1 DEF Call
  <2> QED BY <2>2, <2>3
<1>3. call' = [call EXCEPT ![p] = c]
  BY <1>1 DEF FailUnderLock
<1>4. UNCHANGED <<registry, lock, raced>> /\ faults' \in 0..MaxFaults
  BY FaultCounted DEF FailUnderLock
<1> HIDE DEF c
<1> QED BY <1>1, <1>2, <1>3, <1>4, OneCallMovesOn

LEMMA ReleaseFailsKeeps ==
  ASSUME IInv, NEW p \in Process, ReleaseFails(p)
  PROVE  IInv'
<1> DEFINE c == After(call[p], FALSE)
<1>1. CallSound(p, c) /\ c.at \notin Critical
  BY AfterSound DEF IInv, CallsSound
<1>2. call' = [call EXCEPT ![p] = c]
  BY DEF ReleaseFails
<1>3. UNCHANGED <<registry, lock, raced>> /\ faults' \in 0..MaxFaults
  BY FaultCounted DEF ReleaseFails
<1> HIDE DEF c
<1> QED BY <1>1, <1>2, <1>3, OneCallMovesOn DEF Critical

LEMMA ClaimFailsKeeps ==
  ASSUME IInv, NEW p \in Process, ClaimFails(p)
  PROVE  IInv'
<1> DEFINE c == Restoring(call[p])
<1>1. CallSound(p, call[p]) /\ call[p].op \in Claim
  BY DEF IInv, CallsSound, CallSound, ClaimFails
<1>2. CallSound(p, c) /\ c.at \notin Critical
  BY <1>1, RestoringSound
<1>3. call' = [call EXCEPT ![p] = c]
  BY DEF ClaimFails
<1>4. UNCHANGED <<registry, lock, raced>> /\ faults' \in 0..MaxFaults
  BY FaultCounted DEF ClaimFails
<1> HIDE DEF c
<1> QED BY <1>2, <1>3, <1>4, OneCallMovesOn DEF Critical

LEMMA CrashKeeps ==
  ASSUME IInv, NEW p \in Process, Crash(p)
  PROVE  IInv'
<1>1. UNCHANGED <<registry, lock, raced>> /\ faults' \in 0..MaxFaults
  BY FaultCounted DEF Crash
<1> QED BY <1>1, IdleSound, OneCallMovesOn DEF Crash, Critical

(* The lock ages.                                                            *)
LEMMA AgesKeeps ==
  ASSUME IInv, lock # NoLock, lock' = [lock EXCEPT !.stale = TRUE],
         UNCHANGED <<registry, call, raced>>, faults' \in 0..MaxFaults
  PROVE  IInv'
<1>1. lock' \in [owner : Process, stale : BOOLEAN] /\ lock'.owner = lock.owner
  BY DEF IInv, TypeOK
<1>2. TypeOK'
  BY <1>1 DEF IInv, TypeOK
<1>3. ExclusiveUnlessRaced'
  BY <1>1 DEF IInv, ExclusiveUnlessRaced
<1>4. FileConsistent' /\ CallsSound' /\ FreshMutation'
  BY DEF IInv, FileConsistent, CallsSound, FreshMutation
<1> QED BY <1>2, <1>3, <1>4 DEF IInv

LEMMA NextIInv == IInv /\ [Next]_vars => IInv'
<1> SUFFICES ASSUME IInv, [Next]_vars PROVE IInv'
  OBVIOUS
<1>1. ASSUME NEW p \in Process, Begin(p) \/ BeginClaim(p) PROVE IInv'
  BY <1>1, BeginKeeps, BeginClaimKeeps
<1>2. ASSUME NEW p \in Process, Proceed(p) PROVE IInv'
  BY <1>2, TakeSnapshotKeeps, ReassignKeeps, EndClaimKeeps, AcquireKeeps, BusyKeeps,
     SeeStaleKeeps, BreakStaleKeeps, ReadAndMutateKeeps, WriteKeeps, ReleaseKeeps
     DEF Proceed
<1>3. ASSUME NEW p \in Process, FaultOf(p) PROVE IInv'
  BY <1>3, FailUnderLockKeeps, AcquireFailsKeeps, ReleaseFailsKeeps, ClaimFailsKeeps,
     CrashKeeps DEF FaultOf
<1>4. CASE DesertedLockAges
  BY <1>4, AgesKeeps DEF DesertedLockAges, Deserted, IInv, TypeOK
<1>5. CASE HeldLockAges
  BY <1>5, AgesKeeps, FaultCounted DEF HeldLockAges
<1>6. CASE UNCHANGED vars
  BY <1>6 DEF vars, IInv, TypeOK, FileConsistent, CallsSound, ExclusiveUnlessRaced,
     FreshMutation
<1> QED BY <1>1, <1>2, <1>3, <1>4, <1>5, <1>6 DEF Next

-----------------------------------------------------------------------------
LEMMA SpecIInv == Spec => []IInv
BY InitIInv, NextIInv, PTL DEF Spec

(* The file, the lock and the calls stay well formed.                        *)
THEOREM TypeCorrect == Spec => []TypeOK
<1>1. IInv => TypeOK
  BY DEF IInv
<1> QED BY <1>1, SpecIInv, PTL

(* Whatever the lock and the owner claim do, no two Passports have one ID or *)
(* one source.                                                               *)
THEOREM FileStaysConsistent == Spec => []FileConsistent
<1>1. IInv => FileConsistent
  BY DEF IInv
<1> QED BY <1>1, SpecIInv, PTL

(* The lock file excludes, unless one is removed that is fresh or in use.    *)
THEOREM LockExcludes == Spec => []ExclusiveUnlessRaced
<1>1. IInv => ExclusiveUnlessRaced
  BY DEF IInv
<1> QED BY <1>1, SpecIInv, PTL

(* Until such a removal a mutation is made from the records it replaces.     *)
THEOREM MutationIsFresh == Spec => []FreshMutation
<1>1. IInv => FreshMutation
  BY DEF IInv
<1> QED BY <1>1, SpecIInv, PTL

(* Until such a removal, and while no claim writes, every step leaves every  *)
(* Passport there.                                                           *)
LEMMA StepKeepsPassports ==
  ASSUME IInv, Next, ~raced, UNCHANGED [p \in Claimant |-> call[p]], NEW r \in registry
  PROVE  StillThere(r, registry')
<1>0. r \in Passport /\ \A X : r \in X => StillThere(r, X)
  BY DEF StillThere, IInv, TypeOK
<1>1. CASE registry' = registry
  BY <1>0, <1>1
<1>2. CASE registry' # registry
  <2>1. PICK p \in Process : Write(p)
    BY <1>2 DEF Next, Begin, BeginClaim, Proceed, TakeSnapshot, Reassign, EndClaim,
       Acquire, Busy, SeeStale, BreakStale, ReadAndMutate, Release, FaultOf,
       FailUnderLock, AcquireFails, ReleaseFails, ClaimFails, Crash,
       DesertedLockAges, HeldLockAges
  <2>2. p \notin Claimant
    <3>1. call \in [Process -> Call] /\ call[p].at = "write"
      BY <2>1 DEF Write, IInv, TypeOK
    <3>2. call'[p].at = "release"
      BY <2>1, <3>1 DEF Write, Call
    <3>3. [q \in Claimant |-> call'[q]] = [q \in Claimant |-> call[q]]
      OBVIOUS
    <3>4. ASSUME p \in Claimant PROVE call'[p] = call[p]
      <4>1. [q \in Claimant |-> call'[q]][p] = call'[p]
        BY <3>4
      <4>2. [q \in Claimant |-> call[q]][p] = call[p]
        BY <3>4
      <4> QED BY <4>1, <4>2, <3>3
    <3> QED BY <3>1, <3>2, <3>4
  <2>3. call[p].op.kind \notin {"claim", "restore"} /\ call[p].op \in
          Operation \cup [kind : {"none", "restore"}, id : Id \cup {None}, source : {None},
                          entity : Entity \cup {None}, wanted : Id \cup {None}]
    BY <2>2 DEF IInv, CallsSound, CallSound, Call
  <2>4. registry' \in Mutated(call[p].op, registry)
    BY <2>1, <2>3 DEF Write, IInv, FreshMutation
  <2>5. call[p].op \in Operation
    <3>1. call[p].op.kind \in {"register", "bind", "unbind"}
      BY <2>4 DEF Mutated
    <3> QED BY <2>3, <3>1
  <2>6. registry \in SUBSET Passport
    BY DEF IInv, TypeOK
  <2> QED BY <2>4, <2>5, <2>6, MutatedKeeps
<1> QED BY <1>1, <1>2

THEOREM PassportsStay == Spec => PassportsPermanent
<1>1. IInv /\ [Next]_vars
        => [~raced /\ UNCHANGED [p \in Claimant |-> call[p]]
              => \A r \in registry : StillThere(r, registry')]_vars
  BY StepKeepsPassports
<1> QED BY <1>1, SpecIInv, PTL DEF Spec, PassportsPermanent
=============================================================================
