---------------------------- MODULE MosStructure ----------------------------
(***************************************************************************)
(* The structure over Objects: technical (rail) edges, exclusive            *)
(* containment, and the container projections derived from it               *)
(* (mos/relationships, mos/containers, mos/projections, and the deletion    *)
(* and restoration of Objects in mos/objects).                              *)
(*                                                                          *)
(* Several processes run service calls against one store.  A call reads the *)
(* collections it needs one after the other, decides, and writes them one   *)
(* after the other.  Of the store (MosStore) only this is kept: a write is  *)
(* refused if another process has written that collection since this call   *)
(* read it.  A process dies, a write fails for its own reasons, and an event*)
(* is not appended, at any point.                                           *)
(***************************************************************************)
EXTENDS StructuralGraph, Naturals

CONSTANTS Process,      \* the API server and operational tools
          Container,    \* Objects with capabilities.canContain
          None,         \* no container
          Labelled,     \* bound: Objects customers draw "contained-in" edges from
          MaxCalls      \* bound: structural calls in a behaviour

ASSUME ContainerAssumption == Container \subseteq Object
ASSUME LabelledAssumption == Labelled \subseteq Object
ASSUME NoneAssumption == None \notin Object
ASSUME MaxCallsAssumption == MaxCalls \in Nat

VARIABLES object,       \* status and directContainerId of every Object
          edges,        \* the active relationships
          projection,   \* active direct children recorded per container
          call,         \* the service call each process is in
          calls,        \* structural calls begun so far
          mixed,        \* ghost: Objects whose containment was half written, or
                        \* whose containment edge was changed as a plain edge
          lapsed        \* ghost: a rebuild that was due has failed, was never
                        \* made, or wrote what another process had overtaken

vars == <<object, edges, projection, call, calls, mixed, lapsed>>

----------------------------------------------------------------------------
Objects == [Object -> [active : BOOLEAN, container : Object \cup {None}]]
Edge == [kind : {"rail", "contained"}, source : Object, target : Object]
Projections == [Container -> SUBSET Object]
Collection == {"objects", "relationships", "projections"}

(* at: where the call stands.  subject: the Object it is about.  will: the   *)
(* Objects it is going to write.  was: the Objects a rebuild read.  before,  *)
(* after: the relationships it read and will write.  rebuilds: the handler   *)
(* rebuilds the projections after the change.  stale: the collections that   *)
(* another process has written since this call read them.  Fields not in use *)
(* are blank.                                                                *)
Blank == [o \in Object |-> [active |-> TRUE, container |-> None]]
Place == {"idle", "endpoints", "ready", "event", "takeBack", "moving", "move",
          "halfway", "undo", "change", "announce", "derive", "derived", "project"}
Call == [at : Place, rebuilds : BOOLEAN,
         subject : Object \cup {None}, edge : Edge \cup {None},
         was : Objects, will : Objects,
         before : SUBSET Edge, after : SUBSET Edge, stale : SUBSET Collection]
Idle == [at |-> "idle", rebuilds |-> FALSE, subject |-> None, edge |-> None,
         was |-> Blank, will |-> Blank, before |-> {}, after |-> {}, stale |-> {}]

Active(o, objs) == objs[o].active
RailEdges(es) == {e \in es : e.kind = "rail"}
Rails(es) == {<<e.source, e.target>> : e \in RailEdges(es)}
Pointers(objs) == {e \in Object \X Object : objs[e[1]].container = e[2]}
ContainedIn(o, es) == {t \in Object : [kind |-> "contained", source |-> o, target |-> t] \in es}

(* What a rebuild derives.  A deleted container has no projection; totals of *)
(* descendants are a function of the direct children.                        *)
ProjectionOf(objs) ==
    [c \in Container |->
        IF Active(c, objs) THEN {o \in Object : Active(o, objs) /\ objs[o].container = c}
        ELSE {}]

----------------------------------------------------------------------------
(* The cycle checks.                                                         *)

(* Mutant of RailAllowed: only the direct opposite edge is looked for.       *)
RailAllowedDirect(s, t, es) == s # t /\ <<t, s>> \notin Rails(es)

(* Mutant of PlaceAllowed: the ancestors of the destination are not walked.  *)
PlaceAllowedUnchecked(o, c, objs) ==
    /\ o # c /\ c \in Container /\ Active(o, objs) /\ Active(c, objs)

(* Structural edges: no self-reference, and the target must not already lead *)
(* back to the source.                                                       *)
RailAllowed(s, t, es) == s # t /\ ~Reaches(Rails(es), t, s)

PlaceAllowed(o, c, objs) ==
    /\ o # c /\ c \in Container /\ Active(o, objs) /\ Active(c, objs)
    /\ ~Reaches(Pointers(objs), c, o)

----------------------------------------------------------------------------
(* Steps common to the calls.                                                *)
Goto(p, place) == call' = [call EXCEPT ![p].at = place]
End(p) == call' = [call EXCEPT ![p] = Idle]

(* p has written collection k and goes on as c; the other calls that read it *)
(* are overtaken.                                                            *)
Overtake(p, k, c) ==
    call' = [q \in Process |->
                IF q = p THEN c
                ELSE IF call[q].at = "idle" THEN call[q]
                ELSE [call[q] EXCEPT !.stale = @ \cup {k}]]

Fresh(p, k) == k \notin call[p].stale

Begin(p, c) ==
    /\ call[p].at = "idle"
    /\ calls < MaxCalls
    /\ calls' = calls + 1
    /\ call' = [call EXCEPT ![p] = c]
    /\ UNCHANGED <<object, edges, projection, mixed, lapsed>>

----------------------------------------------------------------------------
(* createObjectRelationship: rail edges, or edges under a customer's label,  *)
(* of which only the label "contained-in" matters here.                      *)
Connect(p, e) ==
    /\ e.kind = "contained" => e.source \in Labelled
    /\ Active(e.source, object) /\ Active(e.target, object)
    /\ Begin(p, [Idle EXCEPT !.at = "endpoints", !.edge = e])

ConnectRead(p) ==
    LET e == call[p].edge IN
    /\ call[p].at = "endpoints"
    /\ IF e \in edges \/ (e.kind = "rail" /\ ~RailAllowed(e.source, e.target, edges))
       THEN End(p)
       ELSE call' = [call EXCEPT ![p].at = "ready", ![p].before = edges,
                                 ![p].after = edges \cup {e},
                                 ![p].stale = @ \ {"relationships"}]
    /\ UNCHANGED <<object, edges, projection, calls, mixed, lapsed>>

(* endObjectRelationship, and updateObjectRelationshipOrder, which writes    *)
(* the edge anew and leaves the structure alone.  The caller's revision is   *)
(* the current one; a call with another is refused.                          *)
EndEdge(p, e) ==
    /\ e \in edges
    /\ Begin(p, [Idle EXCEPT !.at = "ready", !.edge = e,
                             !.before = edges, !.after = edges \ {e}])
Reorder(p, e) ==
    /\ e \in edges /\ e.kind = "rail"
    /\ Begin(p, [Idle EXCEPT !.at = "ready", !.edge = e,
                             !.before = edges, !.after = edges])

WriteEdges(p) ==
    LET c == call[p] IN
    /\ c.at = "ready"
    /\ Fresh(p, "relationships")
    /\ edges' = c.after
    /\ Overtake(p, "relationships", [c EXCEPT !.at = "event"])
    /\ mixed' = IF c.edge.kind = "contained" THEN mixed \cup {c.edge.source} ELSE mixed
    /\ UNCHANGED <<object, projection, calls, lapsed>>

(* The event could not be appended: the collection read before is written    *)
(* back, if no other process has written since.                              *)
TakeBack(p) ==
    /\ call[p].at = "takeBack"
    /\ Fresh(p, "relationships")
    /\ edges' = call[p].before
    /\ Overtake(p, "relationships", Idle)
    /\ UNCHANGED <<object, projection, calls, mixed, lapsed>>

EventAppended(p) ==
    /\ call[p].at = "event"
    /\ End(p)
    /\ UNCHANGED <<object, edges, projection, calls, mixed, lapsed>>
EventLost(p) ==
    /\ call[p].at = "event"
    /\ Goto(p, "takeBack")
    /\ UNCHANGED <<object, edges, projection, calls, mixed, lapsed>>

----------------------------------------------------------------------------
(* placeObjectInContainer and removeObjectFromContainer: Objects are read    *)
(* and checked, then the relationships are read.                             *)
PlaceObject(p, o, c) ==
    /\ PlaceAllowed(o, c, object)
    /\ object[o].container # c
    /\ Begin(p, [Idle EXCEPT !.at = "moving", !.subject = o,
                             !.will = [object EXCEPT ![o].container = c]])
RemoveObject(p, o) ==
    /\ object[o].container # None
    /\ Begin(p, [Idle EXCEPT !.at = "moving", !.subject = o,
                             !.will = [object EXCEPT ![o].container = None]])

(* Mutant of Rehung: a removal records an edge too, to nowhere.              *)
RehungAlways(o, c, es) ==
    {e \in es : ~(e.kind = "contained" /\ e.source = o)}
    \cup {[kind |-> "contained", source |-> o, target |-> c]}

(* Every active containment edge of the Object ends; a placement adds one.   *)
Rehung(o, c, es) ==
    {e \in es : ~(e.kind = "contained" /\ e.source = o)}
    \cup {e \in Edge : e.kind = "contained" /\ e.source = o /\ e.target = c}

MoveRead(p) ==
    LET c == call[p] IN
    /\ c.at = "moving"
    /\ call' = [call EXCEPT ![p].at = "move", ![p].before = edges,
                            ![p].after = Rehung(c.subject, c.will[c.subject].container, edges),
                            ![p].stale = @ \ {"relationships"}]
    /\ UNCHANGED <<object, edges, projection, calls, mixed, lapsed>>

MoveEdges(p) ==
    LET c == call[p] IN
    /\ c.at = "move"
    /\ Fresh(p, "relationships")
    /\ edges' = c.after
    /\ Overtake(p, "relationships", [c EXCEPT !.at = "halfway"])
    /\ UNCHANGED <<object, projection, calls, mixed, lapsed>>

MoveObjects(p) ==
    LET c == call[p] IN
    /\ c.at = "halfway"
    /\ Fresh(p, "objects")
    /\ object' = c.will
    /\ Overtake(p, "objects", [Idle EXCEPT !.at = "announce", !.rebuilds = TRUE])
    /\ UNCHANGED <<edges, projection, calls, mixed, lapsed>>

MoveFails(p) ==
    /\ call[p].at = "halfway"
    /\ Goto(p, "undo")
    /\ UNCHANGED <<object, edges, projection, calls, mixed, lapsed>>

(* Mutant of Undo: the relationships are left as they were written.          *)
UndoNothing(p) ==
    /\ call[p].at = "undo"
    /\ End(p)
    /\ UNCHANGED <<object, edges, projection, calls, mixed, lapsed>>

(* The roll-back: relationships, then Objects.  The Objects were not         *)
(* written, so writing them back is refused or changes nothing.              *)
Undo(p) ==
    LET c == call[p] IN
    /\ c.at = "undo"
    /\ Fresh(p, "relationships")
    /\ edges' = c.before
    /\ Overtake(p, "relationships", Idle)
    /\ UNCHANGED <<object, projection, calls, mixed, lapsed>>

----------------------------------------------------------------------------
(* Mutant of DeleteAllowed: children are not looked for.                     *)
DeleteAllowedWithChildren(o, objs) == Active(o, objs)

(* softDeleteObject: not while an active Object is directly inside.          *)
DeleteAllowed(o, objs) ==
    Active(o, objs) /\ \A x \in Object : Active(x, objs) => objs[x].container # o

DeleteObject(p, o) ==
    /\ DeleteAllowed(o, object)
    /\ Begin(p, [Idle EXCEPT !.at = "change", !.rebuilds = TRUE, !.subject = o,
                             !.will = [object EXCEPT ![o].active = FALSE]])

(* restoreObject: whatever has become of its container.                      *)
RestoreObject(p, o) ==
    /\ ~Active(o, object)
    /\ Begin(p, [Idle EXCEPT !.at = "change", !.rebuilds = FALSE, !.subject = o,
                             !.will = [object EXCEPT ![o].active = TRUE]])

(* updateObject: other fields, the same structure.                           *)
EditObject(p, o) ==
    /\ Active(o, object)
    /\ Begin(p, [Idle EXCEPT !.at = "change", !.rebuilds = TRUE, !.subject = o,
                             !.will = object])

WriteObjects(p) ==
    LET c == call[p] IN
    /\ c.at = "change"
    /\ Fresh(p, "objects")
    /\ object' = c.will
    /\ Overtake(p, "objects", [Idle EXCEPT !.at = "announce", !.rebuilds = c.rebuilds])
    /\ UNCHANGED <<edges, projection, calls, mixed, lapsed>>

(* Mutant of Announce: the handler answers without a rebuild.                *)
AnnounceOnly(p) ==
    /\ call[p].at = "announce"
    /\ End(p)
    /\ UNCHANGED <<object, edges, projection, calls, mixed, lapsed>>

(* The event of the change, and then the rebuild by the handler.  Restoring  *)
(* has no handler that rebuilds.  If the event fails, so does the handler.   *)
Announce(p) ==
    /\ call[p].at = "announce"
    /\ \/ /\ call[p].rebuilds
          /\ call' = [call EXCEPT ![p] = [Idle EXCEPT !.at = "derive"]]
          /\ UNCHANGED lapsed
       \/ /\ End(p)
          /\ lapsed' = TRUE
    /\ UNCHANGED <<object, edges, projection, calls, mixed>>

----------------------------------------------------------------------------
(* rebuildEntityProjections, on behalf of a change or of a read.             *)
Assure(p) ==
    /\ call[p].at = "idle"
    /\ call' = [call EXCEPT ![p] = [Idle EXCEPT !.at = "derive"]]
    /\ UNCHANGED <<object, edges, projection, calls, mixed, lapsed>>
DeriveRead(p) ==
    /\ call[p].at = "derive"
    /\ call' = [call EXCEPT ![p].at = "derived", ![p].was = object]
    /\ UNCHANGED <<object, edges, projection, calls, mixed, lapsed>>
ProjectionsRead(p) ==
    /\ call[p].at = "derived"
    /\ call' = [call EXCEPT ![p].at = "project", ![p].stale = @ \ {"projections"}]
    /\ UNCHANGED <<object, edges, projection, calls, mixed, lapsed>>
(* An unchanged projection is written too, but the store keeps the row, and  *)
(* no other call is overtaken.                                               *)
WriteProjections(p) ==
    LET next == ProjectionOf(call[p].was) IN
    /\ call[p].at = "project"
    /\ Fresh(p, "projections")
    /\ projection' = next
    /\ IF next = projection THEN End(p) ELSE Overtake(p, "projections", Idle)
    /\ lapsed' = (call[p].was # object)
    /\ UNCHANGED <<object, edges, calls, mixed>>

----------------------------------------------------------------------------
(* A write is refused or fails, or the process dies: nothing more is done.   *)
(* Where a call stops tells what it leaves behind.  (If the first write of a *)
(* move fails, the roll-back has nothing to take back.)                      *)
Stop(p) ==
    /\ call[p].at \notin {"idle", "event", "endpoints"}
    /\ End(p)
    /\ mixed' = IF call[p].at \in {"halfway", "undo"}
                THEN mixed \cup {call[p].subject} ELSE mixed
    /\ lapsed' = (lapsed \/ call[p].at \in {"announce", "derive", "derived", "project"})
    /\ UNCHANGED <<object, edges, projection, calls>>

Init ==
    /\ object = Blank
    /\ edges = {}
    /\ projection = ProjectionOf(Blank)
    /\ call = [p \in Process |-> Idle]
    /\ calls = 0
    /\ mixed = {}
    /\ lapsed = FALSE

EdgeCall(p) ==
    \/ \E e \in Edge : Connect(p, e) \/ EndEdge(p, e) \/ Reorder(p, e)
    \/ ConnectRead(p) \/ WriteEdges(p) \/ EventAppended(p) \/ EventLost(p) \/ TakeBack(p)
ContainmentCall(p) ==
    \/ \E o \in Object : RemoveObject(p, o) \/ \E c \in Container : PlaceObject(p, o, c)
    \/ MoveRead(p) \/ MoveEdges(p) \/ MoveObjects(p) \/ MoveFails(p) \/ Undo(p)
ObjectCall(p) ==
    \/ \E o \in Object : DeleteObject(p, o) \/ RestoreObject(p, o) \/ EditObject(p, o)
    \/ WriteObjects(p) \/ Announce(p)
Rebuild(p) == Assure(p) \/ DeriveRead(p) \/ ProjectionsRead(p) \/ WriteProjections(p)

Next == \E p \in Process :
    EdgeCall(p) \/ ContainmentCall(p) \/ ObjectCall(p) \/ Rebuild(p) \/ Stop(p)

Spec == Init /\ [][Next]_vars

----------------------------------------------------------------------------
TypeOK ==
    /\ object \in Objects
    /\ edges \subseteq Edge
    /\ projection \in Projections
    /\ call \in [Process -> Call]
    /\ calls \in 0..MaxCalls
    /\ mixed \subseteq Object
    /\ lapsed \in BOOLEAN

(* Technical edges never close a cycle, although the check and the write are *)
(* two steps, and a failed event writes old edges back                       *)
(* (relationshipService.js).                                                 *)
StructureAcyclic == Acyclic(Rails(edges))

(* No Object is inside itself, through any number of containers, deleted     *)
(* ones included: the walk over directContainerId ends (containerService.js).*)
ContainmentAcyclic == Acyclic(Pointers(object))

(* The Object's directContainerId and its active containment edges say the   *)
(* same, except while a call is between its two writes, and once one stopped *)
(* there or its roll-back was refused (containerService.js).                 *)
ContainmentAgrees ==
    \A o \in Object :
        \/ o \in mixed
        \/ \E p \in Process : call[p].at \in {"halfway", "undo"} /\ call[p].subject = o
        \/ ContainedIn(o, edges) = {object[o].container} \ {None}

(* Once every call that owed a rebuild has made it, the projections are what *)
(* a rebuild from the present Objects gives, unless a rebuild failed or two  *)
(* processes' overlapped (projectionService.js).                             *)
ProjectionCurrent ==
    \/ lapsed
    \/ \E p \in Process : call[p].at \in {"announce", "derive", "derived", "project"}
    \/ projection = ProjectionOf(object)

(* An active Object comes to lie in a deleted container only by being        *)
(* restored itself: neither deleting the container nor placing the Object    *)
(* does it, whatever runs beside them (objectService.js).                    *)
Orphaned(o, objs) ==
    Active(o, objs) /\ objs[o].container # None /\ ~Active(objs[o].container, objs)
NoOrphaning ==
    [][\A o \in Object :
          Orphaned(o, object') /\ ~Orphaned(o, object) => ~Active(o, object)]_vars
=============================================================================
