-------------------------- MODULE PassportRegistry --------------------------
(***************************************************************************)
(* The Passport registry (passport/passportRegistry.js): one JSON file of  *)
(* permanent identities, replaced by an atomic rename, that the API server *)
(* and command-line tools change under a lock FILE.  A lock older than 30  *)
(* seconds is taken for stale and removed by whoever finds it.  The owner  *)
(* claim (mos/provisioning/aosOwnerPassportClaimService.js) works from     *)
(* reads made without the lock.                                            *)
(*                                                                          *)
(* The code is synchronous, so a process does one call at a time; calls of *)
(* different processes interleave between any two file system operations.  *)
(***************************************************************************)
EXTENDS Integers

CONSTANTS Process,       \* processes that change the registry
          Claimant,      \* those that run the owner claim; the rest serve requests
          Id,            \* Passport IDs
          Source,        \* source aliases: (sourceType, sourceId) pairs
          Entity,        \* tenants
          None,          \* "no ID", "no source", "no Entity", "nobody"
          MayStall,      \* may a process stall for 30 seconds under the lock?
          MaxFaults      \* bound: crashes, stalls and failed file operations

ASSUME RegistryAssumption ==
    /\ Claimant \subseteq Process
    /\ None \notin Id \cup Source \cup Entity \cup Process
    /\ MayStall \in BOOLEAN
    /\ MaxFaults \in Nat

VARIABLES registry,      \* the Passport records in the file
          lock,          \* the lock file: who made it, and is it 30 seconds old?
          call,          \* where each process stands
          raced,         \* ghost: a lock was removed that was fresh or in use
          faults         \* faults so far

vars == <<registry, lock, call, raced, faults>>

-----------------------------------------------------------------------------
Passport == [id : Id, sources : SUBSET Source, entity : Entity \cup {None}, previous : SUBSET Id]

NoLock == [owner |-> None, stale |-> FALSE]

Registration == [kind : {"register"}, id : {None}, source : Source,
                 entity : Entity \cup {None}, wanted : {None}]
Binding == [kind : {"bind"}, id : Id, source : Source,
            entity : Entity \cup {None}, wanted : {None}]
Unbinding == [kind : {"unbind"}, id : {None}, source : Source,
              entity : {None}, wanted : {None}]
Claim == [kind : {"claim"}, id : Id, source : {None},
          entity : Entity \cup {None}, wanted : Id]
Operation == Registration \cup Binding \cup Unbinding \cup Claim
NoOperation == [kind |-> "none", id |-> None, source |-> None, entity |-> None, wanted |-> None]

(* A process between creating the lock file and removing it.                 *)
Critical == {"read", "write", "release"}

(* next: the records the call will write.  backup: the records a claim would *)
(* put back.  ok: nothing has failed yet.                                    *)
Call == [at : {"idle", "lock", "stale", "snapshot", "reassign", "claimed"} \cup Critical,
         op : Operation \cup [kind : {"none", "restore"}, id : Id \cup {None}, source : {None},
                              entity : Entity \cup {None}, wanted : Id \cup {None}],
         next : SUBSET Passport, backup : SUBSET Passport, ok : BOOLEAN]
Idle == [at |-> "idle", op |-> NoOperation, next |-> {}, backup |-> {}, ok |-> TRUE]

Ids(R) == {r.id : r \in R}
Known(R) == Ids(R) \cup UNION {r.previous : r \in R}
SameEntity(r, e) == r.entity = None \/ e = None \/ r.entity = e

-----------------------------------------------------------------------------
(* What each operation makes of the records it read: the contents it may     *)
(* write.  None of them: it changes nothing, or refuses.                     *)

(* ensurePassportForSource, createPassportRecord: a source that already has  *)
(* a Passport keeps it, and the records are written back as they were read.  *)
Registered(op, R) ==
    IF \E r \in R : op.source \in r.sources THEN {R}
    ELSE {R \cup {[id |-> i, sources |-> {op.source}, entity |-> op.entity, previous |-> {}]} :
             i \in Id \ Ids(R)}

(* Mutant of Bound: another Passport may hold the source.                    *)
BoundToTwo(op, R) ==
    {(R \ {r}) \cup {[r EXCEPT !.sources = @ \cup {op.source},
                               !.entity = IF @ = None THEN op.entity ELSE @]} :
        r \in {q \in R : q.id = op.id /\ SameEntity(q, op.entity)}}

(* bindPassportSource                                                        *)
Bound(op, R) ==
    {(R \ {r}) \cup {[r EXCEPT !.sources = @ \cup {op.source},
                               !.entity = IF @ = None THEN op.entity ELSE @]} :
        r \in {q \in R :
                 /\ q.id = op.id /\ SameEntity(q, op.entity)
                 /\ \A other \in R \ {q} : op.source \notin other.sources
                 /\ ~(op.source \in q.sources /\ (q.entity # None \/ op.entity = None))}}

(* Mutant of Unbound: the Passport goes with its last source.                *)
UnboundOrDeleted(op, R) ==
    {{IF op.source \in r.sources THEN [r EXCEPT !.sources = @ \ {op.source}] ELSE r :
         r \in {q \in R : q.sources # {op.source}}}}

(* unbindPassportSource: never the last one.  An unbound source is no error, *)
(* and the records are written back.                                         *)
Unbound(op, R) ==
    IF \A r \in R : op.source \notin r.sources THEN {R}
    ELSE {(R \ {r}) \cup {[r EXCEPT !.sources = @ \ {op.source}]} :
             r \in {q \in R : op.source \in q.sources /\ q.sources # {op.source}}}

Mutated(op, R) ==
    CASE op.kind = "register" -> Registered(op, R)
      [] op.kind = "bind" -> Bound(op, R)
      [] op.kind = "unbind" -> Unbound(op, R)
      [] OTHER -> {}

(* reassignPassportId                                                        *)
Reassigned(op, R) ==
    {(R \ {r}) \cup {[r EXCEPT !.id = op.wanted, !.previous = @ \cup {op.id}]} :
        r \in {q \in R : q.id = op.id /\ op.wanted \notin Ids(R) /\ SameEntity(q, op.entity)}}

-----------------------------------------------------------------------------
(* A call begins.                                                            *)

(* Mutant of Begin: a Passport may be asked for without a source.            *)
BeginWithoutSource(p) ==
    /\ call[p] = Idle /\ p \notin Claimant
    /\ \E op \in Registration \cup Binding \cup Unbinding, s \in Source \cup {None} :
          call' = [call EXCEPT ![p].at = "lock", ![p].op = [op EXCEPT !.source = s]]
    /\ UNCHANGED <<registry, lock, raced, faults>>

Begin(p) ==
    /\ call[p] = Idle /\ p \notin Claimant
    /\ \E op \in Registration \cup Binding \cup Unbinding :
          call' = [call EXCEPT ![p].at = "lock", ![p].op = op]
    /\ UNCHANGED <<registry, lock, raced, faults>>

(* claimOwnerPassport looks for a collision, copies all records to put them  *)
(* back if it fails, and only then calls reassignPassportId, which reads     *)
(* them again.  None of these reads holds the lock.                          *)
BeginClaim(p) ==
    /\ call[p] = Idle /\ p \in Claimant
    /\ \E op \in Claim :
          /\ op.wanted = op.id \/ op.wanted \notin Ids(registry)
          /\ call' = [call EXCEPT ![p].at = "snapshot", ![p].op = op]
    /\ UNCHANGED <<registry, lock, raced, faults>>

TakeSnapshot(p) ==
    /\ call[p].at = "snapshot"
    /\ call' = [call EXCEPT ![p].at = "reassign", ![p].backup = registry]
    /\ UNCHANGED <<registry, lock, raced, faults>>

(* Where a call goes when it has succeeded or failed: a claim that failed    *)
(* puts its copy back.                                                       *)
Restoring(c) == [c EXCEPT !.at = "lock", !.op.kind = "restore", !.next = c.backup, !.ok = TRUE]
After(c, ok) ==
    IF c.op.kind # "claim" THEN Idle
    ELSE IF ok THEN [c EXCEPT !.at = "claimed"] ELSE Restoring(c)

Reassign(p) ==
    /\ call[p].at = "reassign"
    /\ LET op == call[p].op IN
       \/ /\ op.wanted # op.id
          /\ \E next \in Reassigned(op, registry) :
                call' = [call EXCEPT ![p].at = "lock", ![p].next = next]
       \/ /\ op.wanted = op.id \/ Reassigned(op, registry) = {}
          /\ call' = [call EXCEPT ![p] = After(@, op.wanted = op.id /\ op.id \in Ids(registry))]
    /\ UNCHANGED <<registry, lock, raced, faults>>

(* The Object and the membership of the owner are written, or the claim is   *)
(* rolled back.                                                              *)
EndClaim(p) ==
    /\ call[p].at = "claimed"
    /\ call' = [call EXCEPT ![p] = Idle]
    /\ UNCHANGED <<registry, lock, raced, faults>>

-----------------------------------------------------------------------------
(* The lock file: acquirePassportRegistryLock.                               *)

(* A claim or a restore has its records already: writePassportRecords.       *)
Enter(c) == [c EXCEPT !.at = IF c.op.kind \in {"claim", "restore"} THEN "write" ELSE "read"]

(* Mutant of Acquire: the lock file is opened without "x".                   *)
AcquireAnyway(p) ==
    /\ call[p].at = "lock"
    /\ lock' = [owner |-> p, stale |-> FALSE]
    /\ call' = [call EXCEPT ![p] = Enter(@)]
    /\ UNCHANGED <<registry, raced, faults>>

Acquire(p) ==
    /\ call[p].at = "lock" /\ lock = NoLock
    /\ lock' = [owner |-> p, stale |-> FALSE]
    /\ call' = [call EXCEPT ![p] = Enter(@)]
    /\ UNCHANGED <<registry, raced, faults>>

(* A current lock fails the call at once.                                    *)
Busy(p) ==
    /\ call[p].at = "lock" /\ lock # NoLock /\ ~lock.stale
    /\ call' = [call EXCEPT ![p] = After(@, FALSE)]
    /\ UNCHANGED <<registry, lock, raced, faults>>

(* Mutant of SeeStale: a lock is a lock, however old.                        *)
RefuseStale(p) ==
    /\ call[p].at = "lock" /\ lock.stale
    /\ call' = [call EXCEPT ![p] = After(@, FALSE)]
    /\ UNCHANGED <<registry, lock, raced, faults>>

SeeStale(p) ==
    /\ call[p].at = "lock" /\ lock.stale
    /\ call' = [call EXCEPT ![p].at = "stale"]
    /\ UNCHANGED <<registry, lock, raced, faults>>

(* unlinkSync removes whatever file has the name by now.                     *)
InUse == lock # NoLock /\ (~lock.stale \/ call[lock.owner].at \in Critical)

BreakStale(p) ==
    /\ call[p].at = "stale"
    /\ lock' = NoLock
    /\ raced' = (raced \/ InUse)
    /\ call' = [call EXCEPT ![p].at = "lock"]
    /\ UNCHANGED <<registry, faults>>

-----------------------------------------------------------------------------
(* Under the lock: mutatePassportRecords, writePassportRecordsUnlocked.      *)

(* Mutant of ReadAndMutate: the lock is given back after the read.           *)
ReadAndUnlock(p) ==
    /\ call[p].at = "read"
    /\ \E next \in Mutated(call[p].op, registry) :
          call' = [call EXCEPT ![p].at = "write", ![p].next = next]
    /\ lock' = NoLock
    /\ UNCHANGED <<registry, raced, faults>>

ReadAndMutate(p) ==
    /\ call[p].at = "read"
    /\ \/ \E next \in Mutated(call[p].op, registry) :
             call' = [call EXCEPT ![p].at = "write", ![p].next = next]
       \/ /\ Mutated(call[p].op, registry) = {}
          /\ call' = [call EXCEPT ![p].at = "release"]
    /\ UNCHANGED <<registry, lock, raced, faults>>

Write(p) ==
    /\ call[p].at = "write"
    /\ registry' = call[p].next
    /\ call' = [call EXCEPT ![p].at = "release", ![p].next = {}]
    /\ UNCHANGED <<lock, raced, faults>>

(* Again unlinkSync removes whatever is there.                               *)
Release(p) ==
    /\ call[p].at = "release"
    /\ lock' = NoLock
    /\ call' = [call EXCEPT ![p] = After(@, call[p].ok)]
    /\ UNCHANGED <<registry, raced, faults>>

-----------------------------------------------------------------------------
(* Faults.                                                                   *)
Fault == faults < MaxFaults /\ faults' = faults + 1

(* The read or the write under the lock throws; the old file stays.          *)
FailUnderLock(p) ==
    /\ call[p].at \in {"read", "write"} /\ Fault
    /\ call' = [call EXCEPT ![p].at = "release", ![p].next = {}, ![p].ok = FALSE]
    /\ UNCHANGED <<registry, lock, raced>>

(* The lock file is created but its content cannot be written; or it cannot  *)
(* be removed.  Either way the call fails and the file stays behind.         *)
AcquireFails(p) ==
    /\ call[p].at = "lock" /\ lock = NoLock /\ Fault
    /\ lock' = [owner |-> p, stale |-> FALSE]
    /\ call' = [call EXCEPT ![p] = After(@, FALSE)]
    /\ UNCHANGED <<registry, raced>>

ReleaseFails(p) ==
    /\ call[p].at = "release" /\ Fault
    /\ call' = [call EXCEPT ![p] = After(@, FALSE)]
    /\ UNCHANGED <<registry, lock, raced>>

ClaimFails(p) ==
    /\ call[p].at = "claimed" /\ Fault
    /\ call' = [call EXCEPT ![p] = Restoring(@)]
    /\ UNCHANGED <<registry, lock, raced>>

Crash(p) ==
    /\ call[p] # Idle /\ Fault
    /\ call' = [call EXCEPT ![p] = Idle]
    /\ UNCHANGED <<registry, lock, raced>>

(* 30 seconds pass over the lock file.  If its owner still works under it,   *)
(* the owner has stalled.                                                    *)
Deserted == lock # NoLock /\ call[lock.owner].at \notin Critical

DesertedLockAges ==
    /\ Deserted /\ ~lock.stale
    /\ lock' = [lock EXCEPT !.stale = TRUE]
    /\ UNCHANGED <<registry, call, raced, faults>>

HeldLockAges ==
    /\ MayStall /\ lock # NoLock /\ ~Deserted /\ ~lock.stale /\ Fault
    /\ lock' = [lock EXCEPT !.stale = TRUE]
    /\ UNCHANGED <<registry, call, raced>>

-----------------------------------------------------------------------------
Init ==
    /\ registry = {}
    /\ lock = NoLock
    /\ call = [p \in Process |-> Idle]
    /\ raced = FALSE
    /\ faults = 0

Proceed(p) ==
    \/ TakeSnapshot(p) \/ Reassign(p) \/ EndClaim(p)
    \/ Acquire(p) \/ Busy(p) \/ SeeStale(p) \/ BreakStale(p)
    \/ ReadAndMutate(p) \/ Write(p) \/ Release(p)

FaultOf(p) ==
    \/ FailUnderLock(p) \/ AcquireFails(p) \/ ReleaseFails(p)
    \/ ClaimFails(p) \/ Crash(p)

Next ==
    \/ \E p \in Process : Begin(p) \/ BeginClaim(p) \/ Proceed(p) \/ FaultOf(p)
    \/ DesertedLockAges \/ HeldLockAges

Spec == Init /\ [][Next]_vars

(* Processes run, time passes, and requests keep coming.                     *)
FairSpec ==
    /\ Spec
    /\ \A p \in Process : WF_vars(Proceed(p))
    /\ WF_vars(DesertedLockAges)
    /\ WF_vars(\E p \in Process : Begin(p))

-----------------------------------------------------------------------------
(* The file, the lock and the calls are well formed.                         *)
TypeOK ==
    /\ registry \subseteq Passport
    /\ lock \in [owner : Process, stale : BOOLEAN] \cup {NoLock}
    /\ call \in [Process -> Call]
    /\ raced \in BOOLEAN
    /\ faults \in 0..MaxFaults

(* Whatever the lock does, and whoever writes an old copy back, the file is  *)
(* one that some serial history could have left: no two Passports with one   *)
(* ID, no source bound to two Passports, none without a source.              *)
Consistent(R) ==
    /\ \A r \in R : r.sources # {}
    /\ \A r, q \in R : r # q => r.id # q.id /\ r.sources \cap q.sources = {}
FileConsistent == Consistent(registry)

(* Exclusion fails in one way only: a lock is removed that is fresh or in    *)
(* use.  Otherwise a process under the lock owns the lock file, and so no    *)
(* other is under it.                                                        *)
ExclusiveUnlessRaced ==
    ~raced => \A p \in Process : call[p].at \in Critical => lock.owner = p

(* Until then no update is lost: a mutation about to be written was made     *)
(* from the records as they still stand -- even beside an owner claim, whose *)
(* reads hold no lock but whose write does.                                  *)
FreshMutation ==
    ~raced => \A p \in Process :
        call[p].at = "write" /\ call[p].op.kind \notin {"claim", "restore"} =>
            call[p].next \in Mutated(call[p].op, registry)

(* Until then, and as long as no claim writes, Passports are permanent: each *)
(* keeps its ID, its former IDs and its Entity, and at most the one source   *)
(* that is being unbound leaves it.                                          *)
StillThere(r, R) ==
    \E q \in R :
        /\ q.id = r.id /\ q.previous = r.previous
        /\ r.entity # None => q.entity = r.entity
        /\ \A s, t \in r.sources \ q.sources : s = t
PassportsPermanent ==
    [][~raced /\ UNCHANGED [p \in Claimant |-> call[p]]
          => \A r \in registry : StillThere(r, registry')]_vars

(* A lock that nobody holds any more does not block the registry for good.   *)
DesertedLockRecovered == Deserted ~> ~Deserted

(* "The hardened behavior retains exclusive atomic writes and stale-lock     *)
(* recovery" (docs/IX_CORE_RUNTIME_HARDENING_2026-09.md).                    *)
ExclusiveWrites ==
    \A p, q \in Process : call[p].at \in Critical /\ call[q].at \in Critical => p = q

(* "Permanent Passport deletion is prohibited both at HTTP and registry      *)
(* service layers" (docs/IXI_CORE_NAMELESS_CONTRACT_V1_1.md).                *)
NoPassportLost == [][Known(registry) \subseteq Known(registry')]_vars
=============================================================================
