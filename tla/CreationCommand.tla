-------------------------- MODULE CreationCommand --------------------------
(***************************************************************************)
(* Create-and-attach: one user command that creates an Object, gives it a  *)
(* Passport, and attaches it to a parent by an edge                        *)
(* (mos/provisioning/aosCreationCommandService.js and the provisioning,    *)
(* recovery, Passport, Object and relationship services it calls).         *)
(*                                                                          *)
(* The steps write different stores, so there is no transaction around     *)
(* them.  The command is a durable record with a lease; a retry of the     *)
(* same command resumes it.  Requests interleave only where one awaits an  *)
(* authorization: between two awaits a request holds the event loop.  But  *)
(* the process may die, and any write may throw, between any two writes.   *)
(***************************************************************************)
EXTENDS Integers, FiniteSets

CONSTANTS Request,       \* requests that carry the command, first or retried
          Object,        \* identifiers prepareObjectForCreation can draw
          Nobody,        \* "no lease token"
          NoObject,      \* "no identifier"
          MaxFaults,     \* bound: crashes, failed writes, refusals, stalls
          MaxEnded       \* bound: times a user ends the attachment

ASSUME NobodyAssumption == Nobody \notin Request /\ NoObject \notin Object
ASSUME FaultsAssumption == MaxFaults \in Nat /\ MaxEnded \in Nat

VARIABLES command,       \* the creation record in the idempotency collection
          identity,      \* status of its "<commandId>:identity" record
          object,        \* the Objects that carry the identity command's id
          passports,     \* how many Passports are registered for each Object
          edges,         \* edges from each Object to the parent
          request,       \* where each request stands
          faults         \* faults so far

vars == <<command, identity, object, passports, edges, request, faults>>

-----------------------------------------------------------------------------
CommandStatus == {"none", "pending", "processing", "failed", "completed"}
Command == [status : CommandStatus, reserved : Object \cup {NoObject}, member : BOOLEAN,
            token : Request \cup {Nobody}, live : BOOLEAN, acknowledged : BOOLEAN]
IdentityStatus == {"none", "processing", "failed", "completed"}
ObjectRecord == [state : {"none", "active", "deleted"}, linked : BOOLEAN]
EdgeCount == [active : Nat, ended : Nat]

(* A request awaits, or holds the event loop, or is gone.                    *)
Awaiting == {"intent", "authorize", "confirm", "recheck", "replay", "acknowledge"}
Provisioning == {"create", "passport", "link", "finish"}
Running == Provisioning \cup
           {"leased", "resolve", "attach", "event", "receipt", "failIdentity", "fail"}
Attempt == Running \cup {"confirm", "recheck"}   \* after its lease was taken

(* object: the Object it works on.  recovers: it found the Object already    *)
(* created and completes its identity.                                       *)
RequestRecord == [at : {"idle"} \cup Awaiting \cup Running,
                  object : Object \cup {NoObject}, recovers : BOOLEAN]
Gone == [at |-> "idle", object |-> NoObject, recovers |-> FALSE]

LoopFree == \A r \in Request : request[r].at \notin Running

(* findProvisioningObject looks at active Objects only.                      *)
Found == {o \in Object : object[o].state = "active"}

(* assertLease                                                               *)
HoldsLease(r) ==
    command.token = r /\ command.status = "processing" /\ command.live

Goto(r, at) == request' = [request EXCEPT ![r].at = at]
End(r) == request' = [request EXCEPT ![r] = Gone]

-----------------------------------------------------------------------------
(* A request arrives.                                                        *)

(* createAndAttachAosObject of a command not yet recorded: draw an Object id *)
(* and ask for authority over the parent.                                    *)
StartNew(r) ==
    /\ request[r] = Gone /\ LoopFree
    /\ command.status = "none"
    /\ \E o \in Object :
          /\ object[o].state = "none"
          /\ \A q \in Request : request[q].object # o
          /\ request' = [request EXCEPT ![r] = [at |-> "intent", object |-> o, recovers |-> FALSE]]
    /\ UNCHANGED <<command, identity, object, passports, edges, faults>>

(* The command is recorded: a retry or resumeAosCreation.                    *)
Resume(r) ==
    /\ request[r] = Gone /\ LoopFree
    /\ command.status # "none"
    /\ Goto(r, IF command.status = "completed" THEN "replay" ELSE "authorize")
    /\ UNCHANGED <<command, identity, object, passports, edges, faults>>

StartAcknowledge(r) ==
    /\ request[r] = Gone /\ LoopFree
    /\ command.status = "completed" /\ ~command.acknowledged
    /\ Goto(r, "acknowledge")
    /\ UNCHANGED <<command, identity, object, passports, edges, faults>>

-----------------------------------------------------------------------------
(* Before the lease.                                                         *)

(* The intent is persisted before any identity write, unless another request *)
(* recorded the command meanwhile.                                           *)
PersistIntent(r) ==
    /\ request[r].at = "intent" /\ LoopFree
    /\ IF command.status = "none"
       THEN /\ command' = [command EXCEPT !.status = "pending", !.reserved = request[r].object]
            /\ request' = [request EXCEPT ![r] = [Gone EXCEPT !.at = "authorize"]]
       ELSE End(r) /\ UNCHANGED command
    /\ UNCHANGED <<identity, object, passports, edges, faults>>

(* Mutants of Leasable: a command completed meanwhile is leased again; an    *)
(* expired lease is not taken over.                                          *)
LeasableAgain == ~(command.status = "processing" /\ command.live)
LeasableOnce == command.status \notin {"completed", "processing"}
Leasable == command.status # "completed" /\ ~(command.status = "processing" /\ command.live)

TakeLease(r) ==
    /\ request[r].at = "authorize" /\ LoopFree
    /\ IF Leasable
       THEN /\ command' = [command EXCEPT !.status = "processing", !.token = r, !.live = TRUE]
            /\ Goto(r, "leased")
       ELSE End(r) /\ UNCHANGED command
    /\ UNCHANGED <<identity, object, passports, edges, faults>>

(* A completed command is answered from its result.                          *)
Replay(r) ==
    /\ request[r].at = "replay" /\ LoopFree
    /\ End(r)
    /\ UNCHANGED <<command, identity, object, passports, edges, faults>>

Acknowledge(r) ==
    /\ request[r].at = "acknowledge" /\ LoopFree
    /\ command' = [command EXCEPT !.acknowledged = TRUE]
    /\ End(r)
    /\ UNCHANGED <<identity, object, passports, edges, faults>>

-----------------------------------------------------------------------------
(* The identity: provision, or recover what an earlier attempt began.        *)

(* Mutants of BeginProvisioning: an identifier is drawn afresh; a completed   *)
(* identity command is begun again.                                          *)
BeginWithFreshObject(r) ==
    /\ request[r].at = "leased" /\ HoldsLease(r) /\ Found = {}
    /\ identity' = IF identity = "none" THEN "processing" ELSE identity
    /\ \E o \in {n \in Object : object[n].state = "none"} :
          request' = [request EXCEPT ![r] = [at |-> "create", object |-> o, recovers |-> FALSE]]
    /\ UNCHANGED <<command, object, passports, edges, faults>>
BeginAgain(r) ==
    /\ request[r].at = "leased" /\ HoldsLease(r) /\ Found = {}
    /\ identity' = "processing"
    /\ request' = [request EXCEPT ![r] =
                      [at |-> "create", object |-> command.reserved, recovers |-> FALSE]]
    /\ UNCHANGED <<command, object, passports, edges, faults>>

(* No active Object yet: begin (or resume) the identity command.  If it is   *)
(* completed, its saved result is used.                                      *)
BeginProvisioning(r) ==
    /\ request[r].at = "leased" /\ HoldsLease(r) /\ Found = {}
    /\ identity' = IF identity = "none" THEN "processing" ELSE identity
    /\ request' = [request EXCEPT ![r] =
                      [at |-> IF identity = "completed" THEN "resolve" ELSE "create",
                       object |-> command.reserved, recovers |-> FALSE]]
    /\ UNCHANGED <<command, object, passports, edges, faults>>

(* One active Object: complete its identity.                                 *)
Recover(r) ==
    /\ request[r].at = "leased" /\ HoldsLease(r)
    /\ \E o \in Object :
          /\ Found = {o}
          /\ request' = [request EXCEPT ![r] =
                [at |-> CASE identity = "none" -> "fail"
                          [] identity = "completed" -> "resolve"
                          [] OTHER -> IF ~object[o].linked THEN "passport"
                                      ELSE IF passports[o] > 0 THEN "finish" ELSE "fail",
                 object |-> o, recovers |-> TRUE]]
    /\ UNCHANGED <<command, identity, object, passports, edges, faults>>

CannotProvision(r) ==
    /\ request[r].at = "leased"
    /\ ~HoldsLease(r) \/ Cardinality(Found) > 1
    /\ Goto(r, "fail")
    /\ UNCHANGED <<command, identity, object, passports, edges, faults>>

(* createObject never replaces the Object it reserved.                       *)
CreateObject(r) ==
    /\ request[r].at = "create"
    /\ LET o == request[r].object IN
       IF object[o].state = "none"
       THEN /\ object' = [object EXCEPT ![o] = [state |-> "active", linked |-> FALSE]]
            /\ Goto(r, "passport")
       ELSE Goto(r, "failIdentity") /\ UNCHANGED object
    /\ UNCHANGED <<command, identity, passports, edges, faults>>

(* ensurePassportForAosObject registers one only if there is none.           *)
EnsurePassport(r) ==
    /\ request[r].at = "passport"
    /\ passports' = [passports EXCEPT ![request[r].object] = IF @ = 0 THEN 1 ELSE @]
    /\ Goto(r, "link")
    /\ UNCHANGED <<command, identity, object, edges, faults>>

LinkPassport(r) ==
    /\ request[r].at = "link"
    /\ object' = [object EXCEPT ![request[r].object].linked = TRUE]
    /\ Goto(r, "finish")
    /\ UNCHANGED <<command, identity, passports, edges, faults>>

CompleteIdentity(r) ==
    /\ request[r].at = "finish"
    /\ identity' = "completed"
    /\ Goto(r, "resolve")
    /\ UNCHANGED <<command, object, passports, edges, faults>>

(* resolveCanonicalObjectIdentity wants exactly one active Object with the   *)
(* Passport; then the request awaits authority over it.                      *)
Resolve(r) ==
    /\ request[r].at = "resolve"
    /\ LET o == request[r].object IN
       Goto(r, IF o \in Found /\ object[o].linked /\ passports[o] = 1
               THEN "confirm" ELSE "fail")
    /\ UNCHANGED <<command, identity, object, passports, edges, faults>>

-----------------------------------------------------------------------------
(* The attachment.  The lease is checked again after the last await.         *)

Confirm(r) ==
    /\ request[r].at = "confirm" /\ LoopFree
    /\ Goto(r, IF command.member THEN "recheck"
               ELSE IF HoldsLease(r) THEN "receipt" ELSE "fail")
    /\ UNCHANGED <<command, identity, object, passports, edges, faults>>

(* Mutant of Recheck: the lease is not looked at again after the await.      *)
RecheckWithoutLease(r) ==
    /\ request[r].at = "recheck" /\ LoopFree
    /\ Goto(r, "attach")
    /\ UNCHANGED <<command, identity, object, passports, edges, faults>>

Recheck(r) ==
    /\ request[r].at = "recheck" /\ LoopFree
    /\ Goto(r, IF HoldsLease(r) THEN "attach" ELSE "fail")
    /\ UNCHANGED <<command, identity, object, passports, edges, faults>>

(* Mutant of AttachEdge: the active edge is not looked for.                  *)
AttachAnotherEdge(r) ==
    /\ request[r].at = "attach"
    /\ IF request[r].object \notin Found THEN Goto(r, "fail") /\ UNCHANGED edges
       ELSE Goto(r, "event") /\ edges' = [edges EXCEPT ![request[r].object].active = @ + 1]
    /\ UNCHANGED <<command, identity, object, passports, faults>>

(* createObjectRelationship answers with an active edge that already exists. *)
AttachEdge(r) ==
    /\ request[r].at = "attach"
    /\ LET o == request[r].object IN
       IF o \notin Found THEN Goto(r, "fail") /\ UNCHANGED edges
       ELSE IF edges[o].active > 0 THEN Goto(r, "receipt") /\ UNCHANGED edges
       ELSE Goto(r, "event") /\ edges' = [edges EXCEPT ![o].active = @ + 1]
    /\ UNCHANGED <<command, identity, object, passports, faults>>

AppendEvent(r) ==
    /\ request[r].at = "event"
    /\ Goto(r, "receipt")
    /\ UNCHANGED <<command, identity, object, passports, edges, faults>>

-----------------------------------------------------------------------------
(* The end of an attempt.  changeOwnedLease writes only for the token.       *)

Receipt(r) ==
    /\ request[r].at = "receipt"
    /\ IF command.token = r
       THEN /\ command' = [command EXCEPT !.status = "completed", !.live = FALSE]
            /\ End(r)
       ELSE Goto(r, "fail") /\ UNCHANGED command
    /\ UNCHANGED <<identity, object, passports, edges, faults>>

(* failProvisioning leaves a completed identity alone.                       *)
FailIdentity(r) ==
    /\ request[r].at = "failIdentity"
    /\ identity' = IF identity \in {"none", "completed"} THEN identity ELSE "failed"
    /\ Goto(r, "fail")
    /\ UNCHANGED <<command, object, passports, edges, faults>>

(* Mutant of FailCommand: the failure is written whoever holds the lease.    *)
FailAnyCommand(r) ==
    /\ request[r].at = "fail"
    /\ command' = [command EXCEPT !.status = "failed", !.live = FALSE]
    /\ End(r)
    /\ UNCHANGED <<identity, object, passports, edges, faults>>

FailCommand(r) ==
    /\ request[r].at = "fail"
    /\ command' = IF command.token = r
                  THEN [command EXCEPT !.status = "failed", !.live = FALSE]
                  ELSE command
    /\ End(r)
    /\ UNCHANGED <<identity, object, passports, edges, faults>>

-----------------------------------------------------------------------------
(* Faults.                                                                   *)
Fault == faults < MaxFaults /\ faults' = faults + 1

(* A write, a read or a check throws where the request stands.               *)
Throw(r) ==
    /\ request[r].at \in Running /\ Fault
    /\ IF request[r].at = "fail" THEN End(r)
       ELSE Goto(r, IF request[r].at \in Provisioning /\ ~request[r].recovers
                    THEN "failIdentity" ELSE "fail")
    /\ UNCHANGED <<command, identity, object, passports, edges>>

(* Mutants of RollBackEdge: the error is swallowed; the rollback is retried.  *)
RollBackSilently(r) ==
    /\ request[r].at = "event" /\ Fault
    /\ edges' = [edges EXCEPT ![request[r].object].active = @ - 1]
    /\ Goto(r, "receipt")
    /\ UNCHANGED <<command, identity, object, passports>>
RollBackTwice(r) ==
    /\ request[r].at = "event" /\ Fault
    /\ edges' = [edges EXCEPT ![request[r].object].active = @ - 1]
    /\ UNCHANGED <<command, identity, object, passports, request>>

(* The relationship's event cannot be appended: the edge is taken back.      *)
RollBackEdge(r) ==
    /\ request[r].at = "event" /\ Fault
    /\ edges' = [edges EXCEPT ![request[r].object].active = @ - 1]
    /\ Goto(r, "fail")
    /\ UNCHANGED <<command, identity, object, passports>>

(* authorize, or the parent's recheck, refuses.                              *)
Refuse(r) ==
    /\ request[r].at \in Awaiting /\ LoopFree /\ Fault
    /\ IF request[r].at \in Attempt THEN Goto(r, "fail") ELSE End(r)
    /\ UNCHANGED <<command, identity, object, passports, edges>>

Crash ==
    /\ Fault
    /\ request' = [r \in Request |-> Gone]
    /\ UNCHANGED <<command, identity, object, passports, edges>>

(* 120 seconds pass.  A lease whose attempt is over always runs out; one     *)
(* whose attempt still runs does when an authorization stalls.               *)
LeaseHeld == command.status = "processing" /\ command.live
Deserted == \A r \in Request : command.token = r => request[r].at \notin Attempt

DesertedLeaseExpires ==
    /\ LeaseHeld /\ Deserted
    /\ command' = [command EXCEPT !.live = FALSE]
    /\ UNCHANGED <<identity, object, passports, edges, request, faults>>

RunningLeaseExpires ==
    /\ LeaseHeld /\ ~Deserted /\ Fault
    /\ command' = [command EXCEPT !.live = FALSE]
    /\ UNCHANGED <<identity, object, passports, edges, request>>

-----------------------------------------------------------------------------
(* Other users, through the Object and relationship services.                *)
SoftDelete(o) ==
    /\ LoopFree /\ object[o].state = "active"
    /\ object' = [object EXCEPT ![o].state = "deleted"]
    /\ UNCHANGED <<command, identity, passports, edges, request, faults>>

Restore(o) ==
    /\ LoopFree /\ object[o].state = "deleted"
    /\ object' = [object EXCEPT ![o].state = "active"]
    /\ UNCHANGED <<command, identity, passports, edges, request, faults>>

EndEdge(o) ==
    /\ LoopFree /\ edges[o].active > 0 /\ edges[o].ended < MaxEnded
    /\ edges' = [edges EXCEPT ![o].active = @ - 1, ![o].ended = @ + 1]
    /\ UNCHANGED <<command, identity, object, passports, request, faults>>

-----------------------------------------------------------------------------
Init ==
    /\ command \in [status : {"none"}, reserved : {NoObject}, member : BOOLEAN,
                    token : {Nobody}, live : {FALSE}, acknowledged : {FALSE}]
    /\ identity = "none"
    /\ object = [o \in Object |-> [state |-> "none", linked |-> FALSE]]
    /\ passports = [o \in Object |-> 0]
    /\ edges = [o \in Object |-> [active |-> 0, ended |-> 0]]
    /\ request = [r \in Request |-> Gone]
    /\ faults = 0

Arrive(r) == StartNew(r) \/ Resume(r)

Proceed(r) ==
    \/ PersistIntent(r) \/ TakeLease(r) \/ Replay(r) \/ Acknowledge(r)
    \/ BeginProvisioning(r) \/ Recover(r) \/ CannotProvision(r)
    \/ CreateObject(r) \/ EnsurePassport(r) \/ LinkPassport(r)
    \/ CompleteIdentity(r) \/ Resolve(r)
    \/ Confirm(r) \/ Recheck(r) \/ AttachEdge(r) \/ AppendEvent(r)
    \/ Receipt(r) \/ FailIdentity(r) \/ FailCommand(r)

Next ==
    \/ \E r \in Request :
          \/ Arrive(r) \/ StartAcknowledge(r) \/ Proceed(r)
          \/ Throw(r) \/ RollBackEdge(r) \/ Refuse(r)
    \/ Crash \/ DesertedLeaseExpires \/ RunningLeaseExpires
    \/ \E o \in Object : SoftDelete(o) \/ Restore(o) \/ EndEdge(o)

Spec == Init /\ [][Next]_vars

(* The event loop serves every request it has begun, time passes, and the    *)
(* user's client resumes what it finds unfinished (listAosCreationCommands). *)
Fairness ==
    /\ \A r \in Request : WF_vars(Proceed(r))
    /\ WF_vars(DesertedLeaseExpires)
    /\ WF_vars(\E r \in Request : Arrive(r))

FairSpec == Spec /\ Fairness

-----------------------------------------------------------------------------
(* Every record of the command, and every request, is well formed.           *)
TypeOK ==
    /\ command \in Command
    /\ identity \in IdentityStatus
    /\ object \in [Object -> ObjectRecord]
    /\ passports \in [Object -> Nat]
    /\ edges \in [Object -> EdgeCount]
    /\ request \in [Request -> RequestRecord]
    /\ faults \in 0..MaxFaults

(* Retries, takeovers and recoveries of one command never make a second      *)
(* Object, and never a second Passport for the Object -- not even when the   *)
(* first one has been deleted meanwhile.                                     *)
OneObject ==
    /\ Cardinality({o \in Object : object[o].state # "none"}) <= 1
    /\ \A o \in Object : passports[o] <= 1

(* The parent never shows the same Object twice.                             *)
OneActiveEdge == \A o \in Object : edges[o].active <= 1

(* Only the request that owns the live or last lease is past the checks that *)
(* precede the writes of an attachment and a receipt: a stale attempt that   *)
(* wakes up after a takeover writes neither.                                 *)
AttachUnderLease ==
    \A r \in Request :
        request[r].at \in {"attach", "event", "receipt"} =>
            command.token = r /\ command.status = "processing"

(* A receipt tells the truth: the reserved Object was created, its Passport  *)
(* is registered and linked, the identity command is completed, and the      *)
(* attachment the user asked for was made.                                   *)
ReceiptTrue ==
    command.status = "completed" =>
        LET o == command.reserved IN
        /\ o \in Object /\ object[o].state # "none" /\ object[o].linked
        /\ passports[o] = 1
        /\ identity = "completed"
        /\ command.member => edges[o].active + edges[o].ended > 0

(* A completed command stays completed whatever a slower attempt reports,    *)
(* and a replay never restores an attachment that was ended later.           *)
CompletedIsFinal ==
    [][command.status = "completed" =>
          /\ command'.status = "completed"
          /\ \A o \in Object : edges'[o].active <= edges[o].active]_vars

(* The saved identity result is never turned back into a failure.            *)
IdentityIsFinal == [][identity = "completed" => identity' = "completed"]_vars

(* Once the intent is saved the command completes, unless the Object it      *)
(* created is deleted: no crash, failed write, refusal or stall -- finitely  *)
(* many of them -- leaves it stuck behind its own lease or identity record.  *)
SavedIntentCompletes ==
    command.status # "none" ~>
        (command.status = "completed" \/ \E o \in Object : object[o].state = "deleted")

(* The command keeps what it promises the user.                              *)
Promise == INSTANCE CreationPromise WITH
    intent <- CASE command.status = "none" -> "none"
                [] command.status = "completed" -> "receipted"
                [] OTHER -> "saved",
    member <- command.member,
    born <- {o \in Object : object[o].state # "none"},
    attachments <- [o \in Object |-> edges[o].active + edges[o].ended]
KeepsPromise == Promise!Spec
=============================================================================
