------------------------ MODULE MosStructure_proofs ------------------------
(***************************************************************************)
(* Theorems about the structure over Objects, for any processes, Objects    *)
(* and number of calls.                                                     *)
(***************************************************************************)
EXTENDS MosStructure, TLAPS

-----------------------------------------------------------------------------
(* Graphs.                                                                   *)

LEMMA FewerEdges ==
    ASSUME NEW E, NEW F, F \subseteq E, Acyclic(E)
    PROVE  Acyclic(F)
  BY DEF Acyclic

(* An edge from s to t closes no cycle if s cannot be reached from t.  The   *)
(* witness is a set C that is closed, holds t and not s: a set S that meets  *)
(* C has its sink among S \cap C, which has no edge out of C and not the new *)
(* one; a set that misses C has the sink it had, for t is not in it.         *)
LEMMA NewEdge ==
    ASSUME NEW E, Acyclic(E), NEW s \in Object, NEW t \in Object, ~Reaches(E, t, s)
    PROVE  Acyclic(E \cup {<<s, t>>})
  <1>1. PICK C \in SUBSET Object : t \in C /\ Closed(E, C) /\ s \notin C
    BY DEF Reaches
  <1>2. SUFFICES ASSUME NEW S \in SUBSET Object, S # {}
                 PROVE  \E x \in S : \A y \in S : <<x, y>> \notin E \cup {<<s, t>>}
    BY DEF Acyclic
  <1>3. CASE S \cap C # {}
    <2>1. PICK x \in S \cap C : \A y \in S \cap C : <<x, y>> \notin E
      BY <1>3 DEF Acyclic
    <2>2. ASSUME NEW y \in S, <<x, y>> \in E  PROVE FALSE
      <3>1. y \in C
        BY <1>1, <2>1, <2>2 DEF Closed
      <3> QED
        BY <2>1, <2>2, <3>1
    <2>3. x # s
      BY <1>1, <2>1
    <2> QED
      BY <2>1, <2>2, <2>3
  <1>4. CASE S \cap C = {}
    <2>1. PICK x \in S : \A y \in S : <<x, y>> \notin E
      BY <1>2 DEF Acyclic
    <2>2. t \notin S
      BY <1>1, <1>4
    <2> QED
      BY <2>1, <2>2
  <1> QED
    BY <1>3, <1>4

LEMMA NoEdges == Acyclic({})
  BY DEF Acyclic

(* A new rail edge, one edge fewer, and a containment change, as the calls   *)
(* compute them.                                                             *)
LEMMA RailAdded ==
    ASSUME NEW es \in SUBSET Edge, Acyclic(Rails(es)), NEW e \in Edge,
           e.kind = "rail" => RailAllowed(e.source, e.target, es)
    PROVE  Acyclic(Rails(es \cup {e}))
  <1>0. e.source \in Object /\ e.target \in Object
    BY DEF Edge
  <1>1. CASE e.kind = "rail"
    <2>1. Rails(es \cup {e}) \subseteq Rails(es) \cup {<<e.source, e.target>>}
      BY DEF Rails, RailEdges
    <2>2. Acyclic(Rails(es) \cup {<<e.source, e.target>>})
      BY <1>0, <1>1, NewEdge DEF RailAllowed
    <2> QED
      BY <2>1, <2>2, FewerEdges
  <1>2. CASE e.kind # "rail"
    <2>1. Rails(es \cup {e}) \subseteq Rails(es)
      BY <1>2 DEF Rails, RailEdges
    <2> QED
      BY <2>1, FewerEdges
  <1> QED
    BY <1>1, <1>2

LEMMA RailsFewer ==
    ASSUME NEW es, NEW fs, Acyclic(Rails(es)),
           \A f \in fs : f.kind = "rail" => f \in es
    PROVE  Acyclic(Rails(fs))
  <1>1. Rails(fs) \subseteq Rails(es)
    BY DEF Rails, RailEdges
  <1> QED
    BY <1>1, FewerEdges

LEMMA Placed ==
    ASSUME NEW objs \in Objects, Acyclic(Pointers(objs)), NEW o \in Object, NEW c \in Object,
           ~Reaches(Pointers(objs), c, o)
    PROVE  Acyclic(Pointers([objs EXCEPT ![o].container = c]))
  <1> DEFINE new == [objs EXCEPT ![o].container = c]
  <1>1. Pointers(new) \subseteq Pointers(objs) \cup {<<o, c>>}
    <2> SUFFICES ASSUME NEW x \in Object, NEW y \in Object, new[x].container = y
                 PROVE  objs[x].container = y \/ <<x, y>> = <<o, c>>
      BY DEF Pointers
    <2> QED
      BY DEF Objects
  <1>2. Acyclic(Pointers(objs) \cup {<<o, c>>})
    BY NewEdge
  <1> HIDE DEF new
  <1>3. Acyclic(Pointers(new))
    BY <1>1, <1>2, FewerEdges
  <1> QED
    BY <1>3 DEF new

LEMMA PointersFewer ==
    ASSUME NEW objs, NEW new, Acyclic(Pointers(objs)),
           \A x \in Object : new[x].container \in {objs[x].container, None}
    PROVE  Acyclic(Pointers(new))
  <1>1. Pointers(new) \subseteq Pointers(objs)
    BY NoneAssumption DEF Pointers
  <1> QED
    BY <1>1, FewerEdges

-----------------------------------------------------------------------------
(* What a call holds.  Every copy of the relationships and of the Objects a  *)
(* call may write is acyclic.  A call whose Objects are not stale will       *)
(* change one Object of those that stand, by the rule of its operation.      *)
OneMove(o, objs, will) ==
    \E c \in Object \cup {None} :
        /\ will = [objs EXCEPT ![o].container = c]
        /\ c # None => Active(c, objs)
OneStatus(o, objs, will) ==
    \/ DeleteAllowed(o, objs) /\ will = [objs EXCEPT ![o].active = FALSE]
    \/ ~Active(o, objs) /\ will = [objs EXCEPT ![o].active = TRUE]
    \/ will = objs

Sound(c) ==
    /\ Acyclic(Rails(c.before))
    /\ Acyclic(Rails(c.after))
    /\ Acyclic(Pointers(c.will))
    /\ c.at \in {"moving", "move", "halfway", "undo", "change"} => c.subject \in Object
    /\ c.at \in {"endpoints", "ready"} => c.edge \in Edge
Current(c) ==
    "objects" \notin c.stale =>
        /\ c.at \in {"moving", "move", "halfway"} => OneMove(c.subject, object, c.will)
        /\ c.at = "change" => OneStatus(c.subject, object, c.will)

IInv ==
    /\ TypeOK
    /\ StructureAcyclic
    /\ ContainmentAcyclic
    /\ ProjectionCurrent
    /\ \A p \in Process : Sound(call[p]) /\ Current(call[p])

LEMMA IdleSound ==
    /\ Idle \in Call
    /\ Sound(Idle)
    /\ Idle.at = "idle"
  <1>1. Idle \in Call
    BY SMTT(30) DEF Idle, Call, Blank, Objects, Place, Edge, Collection
  <1>2. Rails({}) = {}
    BY DEF Rails, RailEdges
  <1>3. Pointers(Blank) = {}
    BY NoneAssumption DEF Pointers, Blank
  <1> QED
    BY <1>1, <1>2, <1>3, NoEdges DEF Idle, Sound

LEMMA InitHolds == Init => IInv
  <1> SUFFICES ASSUME Init PROVE IInv
    OBVIOUS
  <1>1. Blank \in Objects
    BY DEF Blank, Objects
  <1>2. Rails({}) = {} /\ Pointers(Blank) = {}
    BY NoneAssumption DEF Rails, RailEdges, Pointers, Blank
  <1>3. ProjectionOf(Blank) \in Projections
    BY ContainerAssumption DEF ProjectionOf, Projections
  <1>4. \A p \in Process : Sound(call[p]) /\ Current(call[p])
    BY IdleSound DEF Init, Current, Idle
  <1>5. TypeOK
    <2>1. call \in [Process -> Call]
      BY IdleSound DEF Init
    <2>2. calls \in 0..MaxCalls
      BY MaxCallsAssumption DEF Init
    <2> QED
      BY <1>1, <1>3, <2>1, <2>2 DEF Init, TypeOK
  <1>6. StructureAcyclic /\ ContainmentAcyclic /\ ProjectionCurrent
    BY <1>2, NoEdges DEF Init, StructureAcyclic, ContainmentAcyclic, ProjectionCurrent
  <1> QED
    BY <1>4, <1>5, <1>6 DEF IInv

-----------------------------------------------------------------------------
(* Steps in which one call goes on and nothing is written.                   *)
Due == {"announce", "derive", "derived", "project"}

LEMMA CallMoves ==
    ASSUME IInv, NEW p \in Process, NEW c \in Call, Sound(c), Current(c),
           call' = [call EXCEPT ![p] = c],
           UNCHANGED <<object, edges, projection>>,
           calls' \in 0..MaxCalls, mixed' \subseteq Object, lapsed' \in BOOLEAN,
           lapsed => lapsed',
           call[p].at \in Due => c.at \in Due \/ lapsed'
    PROVE  IInv'
  <1>1. call \in [Process -> Call]
    BY DEF IInv, TypeOK
  <1>2. call' \in [Process -> Call]
    BY <1>1
  <1>3. TypeOK'
    BY <1>2 DEF IInv, TypeOK
  <1>4. \A q \in Process : Sound(call'[q]) /\ Current(call'[q])
    BY <1>1 DEF IInv
  <1>5. \A q \in Process : Sound(call[q])' /\ Current(call[q])'
    BY <1>4 DEF Sound, Current, OneMove, OneStatus
  <1>6. StructureAcyclic' /\ ContainmentAcyclic'
    BY DEF IInv, StructureAcyclic, ContainmentAcyclic
  <1>7. ProjectionCurrent'
    <2>1. CASE lapsed
      BY <2>1 DEF ProjectionCurrent
    <2>2. ASSUME NEW q \in Process, call[q].at \in Due  PROVE ProjectionCurrent'
      <3>1. CASE q = p
        <4>1. call'[p] = c
          BY <1>1
        <4> QED
          BY <2>2, <3>1, <4>1 DEF ProjectionCurrent, Due
      <3>2. CASE q # p
        <4>1. call'[q] = call[q]
          BY <1>1, <3>2
        <4> QED
          BY <2>2, <4>1 DEF ProjectionCurrent, Due
      <3> QED
        BY <3>1, <3>2
    <2>3. CASE projection = ProjectionOf(object)
      BY <2>3 DEF ProjectionCurrent, ProjectionOf, Active
    <2> QED
      BY <2>1, <2>2, <2>3 DEF IInv, ProjectionCurrent, Due
  <1> QED
    BY <1>3, <1>5, <1>6, <1>7 DEF IInv

(* Steps that write a collection: what becomes of the other calls.           *)
LEMMA Overtaken ==
    ASSUME IInv, NEW p \in Process, NEW k \in Collection, NEW c \in Call, Sound(c),
           Overtake(p, k, c)
    PROVE  /\ call' \in [Process -> Call]
           /\ call'[p] = c
           /\ \A q \in Process : Sound(call'[q])
           /\ \A q \in Process \ {p} :
                  \/ call[q].at = "idle" /\ call'[q] = call[q]
                  \/ call'[q] = [call[q] EXCEPT !.stale = @ \cup {k}]
  <1>1. call \in [Process -> Call]
    BY DEF IInv, TypeOK
  <1>2. \A q \in Process : [call[q] EXCEPT !.stale = @ \cup {k}] \in Call
    <2> TAKE q \in Process
    <2>1. call[q] \in Call
      BY <1>1
    <2> QED
      BY <2>1 DEF Call
  <1>3. \A q \in Process : Sound([call[q] EXCEPT !.stale = @ \cup {k}])
    <2> TAKE q \in Process
    <2>1. call[q] \in Call /\ Sound(call[q])
      BY <1>1 DEF IInv
    <2> QED
      BY <2>1 DEF Call, Sound
  <1> QED
    BY <1>1, <1>2, <1>3 DEF Overtake, IInv

LEMMA EdgesWritten ==
    ASSUME IInv, NEW p \in Process, NEW c \in Call, Sound(c), Current(c),
           Overtake(p, "relationships", c), call[p].at \notin Due,
           edges' \subseteq Edge, Acyclic(Rails(edges')), mixed' \subseteq Object,
           UNCHANGED <<object, projection, calls, lapsed>>
    PROVE  IInv'
  <1>0. "relationships" \in Collection
    BY DEF Collection
  <1>1. /\ call' \in [Process -> Call]
        /\ call'[p] = c
        /\ \A q \in Process : Sound(call'[q])
        /\ \A q \in Process \ {p} :
              \/ call[q].at = "idle" /\ call'[q] = call[q]
              \/ call'[q] = [call[q] EXCEPT !.stale = @ \cup {"relationships"}]
    BY <1>0, Overtaken
  <1>2. \A q \in Process : Current(call'[q])
    <2> TAKE q \in Process
    <2>1. CASE q = p
      BY <1>1, <2>1
    <2>2. CASE q # p
      <3>1. call[q] \in Call /\ Current(call[q])
        BY DEF IInv, TypeOK
      <3>2. /\ call'[q].at = call[q].at /\ call'[q].will = call[q].will
            /\ call'[q].subject = call[q].subject
            /\ "objects" \notin call'[q].stale => "objects" \notin call[q].stale
        BY <1>1, <2>2, <3>1 DEF Call
      <3> QED
        BY <3>1, <3>2 DEF Current
    <2> QED
      BY <2>1, <2>2
  <1>3. \A q \in Process : Sound(call[q])' /\ Current(call[q])'
    BY <1>1, <1>2 DEF Sound, Current, OneMove, OneStatus
  <1>4. TypeOK'
    BY <1>1 DEF IInv, TypeOK
  <1>5. ProjectionCurrent'
    <2>1. ASSUME NEW q \in Process, call[q].at \in Due
          PROVE  call'[q].at \in Due
      <3>1. q # p /\ call[q] \in Call
        BY <2>1 DEF IInv, TypeOK
      <3> QED
        BY <1>1, <2>1, <3>1 DEF Call, Due
    <2> QED
      BY <2>1 DEF IInv, ProjectionCurrent, Due, ProjectionOf, Active
  <1> QED
    BY <1>3, <1>4, <1>5 DEF IInv, StructureAcyclic, ContainmentAcyclic

LEMMA ObjectsWritten ==
    ASSUME IInv, NEW p \in Process, NEW c \in Call, Sound(c), c.at = "announce",
           object' = call[p].will, Overtake(p, "objects", c),
           UNCHANGED <<edges, projection, calls, mixed, lapsed>>
    PROVE  IInv'
  <1>0. "objects" \in Collection
    BY DEF Collection
  <1>1. /\ call' \in [Process -> Call]
        /\ call'[p] = c
        /\ \A q \in Process : Sound(call'[q])
        /\ \A q \in Process \ {p} :
              \/ call[q].at = "idle" /\ call'[q] = call[q]
              \/ call'[q] = [call[q] EXCEPT !.stale = @ \cup {"objects"}]
    BY <1>0, Overtaken
  <1>2. call[p] \in Call /\ Sound(call[p])
    BY DEF IInv, TypeOK
  <1>3. \A q \in Process : Current(call[q])'
    <2> TAKE q \in Process
    <2>1. CASE q = p
      BY <1>1, <2>1 DEF Current
    <2>2. CASE q # p /\ call'[q] = call[q] /\ call[q].at = "idle"
      BY <2>2 DEF Current
    <2>3. CASE q # p /\ call'[q] = [call[q] EXCEPT !.stale = @ \cup {"objects"}]
      <3>1. call[q] \in Call
        BY DEF IInv, TypeOK
      <3>2. "objects" \in call'[q].stale
        BY <2>3, <3>1 DEF Call
      <3> QED
        BY <3>2 DEF Current
    <2> QED
      BY <1>1, <2>1, <2>2, <2>3
  <1>4. \A q \in Process : Sound(call[q])'
    BY <1>1 DEF Sound
  <1>5. TypeOK'
    BY <1>1, <1>2 DEF IInv, TypeOK, Call
  <1>6. ContainmentAcyclic'
    BY <1>2 DEF ContainmentAcyclic, Sound
  <1>7. ProjectionCurrent'
    BY <1>1 DEF ProjectionCurrent
  <1> QED
    BY <1>3, <1>4, <1>5, <1>6, <1>7 DEF IInv, StructureAcyclic

-----------------------------------------------------------------------------
(* The steps, one lemma per group of actions.                                *)

LEMMA Facts ==
    ASSUME IInv, NEW p \in Process
    PROVE  /\ call[p] \in Call /\ Sound(call[p]) /\ Current(call[p])
           /\ object \in Objects /\ edges \in SUBSET Edge /\ mixed \in SUBSET Object
           /\ calls \in 0..MaxCalls /\ lapsed \in BOOLEAN
           /\ Acyclic(Rails(edges)) /\ Acyclic(Pointers(object))
  BY DEF IInv, TypeOK, StructureAcyclic, ContainmentAcyclic

LEMMA Begins ==
    ASSUME IInv, NEW p \in Process, NEW c \in Call, Sound(c), Current(c), Begin(p, c)
    PROVE  IInv'
  <1>1. calls' \in 0..MaxCalls
    BY MaxCallsAssumption DEF Begin, IInv, TypeOK
  <1>2. call[p].at \notin Due
    BY DEF Begin, Due
  <1> QED
    BY <1>1, <1>2, CallMoves DEF Begin, IInv, TypeOK

LEMMA Ends ==
    ASSUME IInv, NEW p \in Process, End(p), UNCHANGED <<object, edges, projection, calls>>,
           mixed' \subseteq Object, lapsed' \in BOOLEAN, lapsed => lapsed',
           call[p].at \in Due => lapsed'
    PROVE  IInv'
  <1>1. Current(Idle)
    BY IdleSound DEF Current
  <1> QED
    BY <1>1, IdleSound, CallMoves DEF End, IInv, TypeOK

(* A call that moves on and keeps what it will write.                        *)
LEMMA Goes ==
    ASSUME IInv, NEW p \in Process, NEW place \in Place, Goto(p, place),
           UNCHANGED <<object, edges, projection, calls, mixed, lapsed>>,
           place \in {"takeBack", "undo"}, call[p].at \notin Due,
           place = "undo" => call[p].at = "halfway"
    PROVE  IInv'
  <1> DEFINE c == [call[p] EXCEPT !.at = place]
  <1>1. call[p] \in Call /\ Sound(call[p])
    BY Facts
  <1>2. c \in Call /\ Sound(c) /\ Current(c)
    BY <1>1 DEF Call, Sound, Current
  <1>3. call' = [call EXCEPT ![p] = c]
    BY DEF Goto
  <1> HIDE DEF c
  <1> QED
    BY <1>2, <1>3, CallMoves, Facts DEF Due

LEMMA EdgeSteps ==
    ASSUME IInv, NEW p \in Process, EdgeCall(p)
    PROVE  IInv'
  <1>0. /\ call[p] \in Call /\ Sound(call[p]) /\ Current(call[p])
        /\ object \in Objects /\ edges \in SUBSET Edge /\ mixed \in SUBSET Object
        /\ lapsed \in BOOLEAN
        /\ Acyclic(Rails(edges)) /\ Acyclic(Pointers(object))
    BY Facts
  <1>I. Idle \in Call /\ Sound(Idle)
    BY IdleSound
  <1>1. ASSUME NEW e \in Edge, Connect(p, e)  PROVE IInv'
    <2> DEFINE c == [Idle EXCEPT !.at = "endpoints", !.edge = e]
    <2>1. c \in Call /\ Sound(c) /\ Current(c)
      BY <1>I DEF Call, Idle, Sound, Current, Place
    <2> HIDE DEF c
    <2> QED
      BY <1>1, <2>1, Begins DEF Connect, c
  <1>2. ASSUME NEW e \in Edge, EndEdge(p, e)  PROVE IInv'
    <2> DEFINE c == [Idle EXCEPT !.at = "ready", !.edge = e,
                                 !.before = edges, !.after = edges \ {e}]
    <2>1. Acyclic(Rails(edges \ {e}))
      BY <1>0, RailsFewer
    <2>2. c \in Call /\ Current(c)
      BY <1>0, <1>I DEF Call, Idle, Current, Place
    <2>3. Sound(c)
      BY <1>0, <1>I, <2>1 DEF Idle, Sound
    <2> HIDE DEF c
    <2> QED
      BY <1>2, <2>2, <2>3, Begins DEF EndEdge, c
  <1>3. ASSUME NEW e \in Edge, Reorder(p, e)  PROVE IInv'
    <2> DEFINE c == [Idle EXCEPT !.at = "ready", !.edge = e,
                                 !.before = edges, !.after = edges]
    <2>2. c \in Call /\ Current(c)
      BY <1>0, <1>I DEF Call, Idle, Current, Place
    <2>3. Sound(c)
      BY <1>0, <1>I DEF Idle, Sound
    <2> HIDE DEF c
    <2> QED
      BY <1>3, <2>2, <2>3, Begins DEF Reorder, c
  <1>4. CASE ConnectRead(p)
    <2> DEFINE e == call[p].edge
               c == [call[p] EXCEPT !.at = "ready", !.before = edges,
                                    !.after = edges \cup {e},
                                    !.stale = @ \ {"relationships"}]
    <2>1. CASE e \in edges \/ (e.kind = "rail" /\ ~RailAllowed(e.source, e.target, edges))
      BY <1>0, <1>4, <2>1, Ends DEF ConnectRead, Due
    <2>2. CASE ~(e \in edges \/ (e.kind = "rail" /\ ~RailAllowed(e.source, e.target, edges)))
      <3>1. e \in Edge
        BY <1>0, <1>4 DEF ConnectRead, Sound
      <3>2. Acyclic(Rails(edges \cup {e}))
        BY <1>0, <2>2, <3>1, RailAdded
      <3>3. c \in Call
        BY <1>0, <3>1 DEF Call, Place
      <3>4. Sound(c) /\ Current(c)
        BY <1>0, <3>1, <3>2 DEF Call, Sound, Current
      <3>5. call' = [call EXCEPT ![p] = c]
        BY <1>4, <2>2 DEF ConnectRead
      <3>6. call[p].at \notin Due /\ UNCHANGED <<object, edges, projection, calls, mixed, lapsed>>
        BY <1>4 DEF ConnectRead, Due
      <3> HIDE DEF c
      <3> QED
        BY <3>3, <3>4, <3>5, <3>6, CallMoves, Facts
    <2> QED
      BY <2>1, <2>2
  <1>5. CASE WriteEdges(p)
    <2> DEFINE c == [call[p] EXCEPT !.at = "event"]
    <2>1. c \in Call /\ Sound(c) /\ Current(c)
      BY <1>0 DEF Call, Place, Sound, Current
    <2>2. edges' \subseteq Edge /\ Acyclic(Rails(edges'))
      BY <1>0, <1>5 DEF WriteEdges, Call, Sound
    <2>3. mixed' \subseteq Object
      <3>1. call[p].edge \in Edge
        BY <1>0, <1>5 DEF WriteEdges, Sound
      <3>2. call[p].edge.source \in Object
        BY <3>1 DEF Edge
      <3> QED
        BY <1>0, <1>5, <3>2 DEF WriteEdges
    <2>4. call[p].at \notin Due /\ UNCHANGED <<object, projection, calls, lapsed>>
          /\ Overtake(p, "relationships", c)
      BY <1>5 DEF WriteEdges, Due
    <2> HIDE DEF c
    <2> QED
      BY <2>1, <2>2, <2>3, <2>4, EdgesWritten
  <1>6. CASE TakeBack(p)
    <2>1. edges' \subseteq Edge /\ Acyclic(Rails(edges'))
      BY <1>0, <1>6 DEF TakeBack, Call, Sound
    <2>2. call[p].at \notin Due /\ UNCHANGED <<object, projection, calls, lapsed, mixed>>
          /\ Overtake(p, "relationships", Idle)
      BY <1>6 DEF TakeBack, Due
    <2>3. Current(Idle)
      BY IdleSound DEF Current
    <2> QED
      BY <1>0, <1>I, <2>1, <2>2, <2>3, EdgesWritten
  <1>7. CASE EventAppended(p)
    BY <1>0, <1>7, Ends DEF EventAppended, Due
  <1>8. CASE EventLost(p)
    BY <1>0, <1>8, Goes DEF EventLost, Due, Place
  <1> QED
    BY <1>1, <1>2, <1>3, <1>4, <1>5, <1>6, <1>7, <1>8 DEF EdgeCall

LEMMA RehungRails ==
    ASSUME NEW es \in SUBSET Edge, Acyclic(Rails(es)), NEW o, NEW c
    PROVE  Acyclic(Rails(Rehung(o, c, es))) /\ Rehung(o, c, es) \in SUBSET Edge
  <1>1. \A f \in Rehung(o, c, es) : f.kind = "rail" => f \in es
    BY DEF Rehung
  <1>2. Rehung(o, c, es) \in SUBSET Edge
    BY DEF Rehung
  <1> QED
    BY <1>1, <1>2, RailsFewer

LEMMA ContainmentSteps ==
    ASSUME IInv, NEW p \in Process, ContainmentCall(p)
    PROVE  IInv'
  <1>0. /\ call[p] \in Call /\ Sound(call[p]) /\ Current(call[p])
        /\ object \in Objects /\ edges \in SUBSET Edge /\ mixed \in SUBSET Object
        /\ lapsed \in BOOLEAN
        /\ Acyclic(Rails(edges)) /\ Acyclic(Pointers(object))
    BY Facts
  <1>I. Idle \in Call /\ Sound(Idle)
    BY IdleSound
  <1>1. ASSUME NEW o \in Object, RemoveObject(p, o)  PROVE IInv'
    <2> DEFINE new == [object EXCEPT ![o].container = None]
               c == [Idle EXCEPT !.at = "moving", !.subject = o, !.will = new]
    <2>1. new \in Objects
      BY <1>0 DEF Objects
    <2>2. \A x \in Object : new[x].container \in {object[x].container, None}
      BY <1>0 DEF Objects
    <2> HIDE DEF new
    <2>3. Acyclic(Pointers(new))
      BY <1>0, <2>2, PointersFewer
    <2>4. c \in Call
      BY <1>I, <2>1 DEF Call, Idle, Place
    <2>5. Sound(c)
      BY <1>I, <2>3 DEF Idle, Sound
    <2>6. OneMove(o, object, new)
      BY DEF OneMove, new
    <2>7. Current(c)
      BY <2>6 DEF Idle, Current
    <2> HIDE DEF c
    <2> QED
      BY <1>1, <2>4, <2>5, <2>7, Begins DEF RemoveObject, c, new
  <1>2. ASSUME NEW o \in Object, NEW d \in Container, PlaceObject(p, o, d)  PROVE IInv'
    <2> DEFINE new == [object EXCEPT ![o].container = d]
               c == [Idle EXCEPT !.at = "moving", !.subject = o, !.will = new]
    <2>0. d \in Object /\ Active(d, object) /\ ~Reaches(Pointers(object), d, o)
      BY <1>2, ContainerAssumption DEF PlaceObject, PlaceAllowed
    <2>1. new \in Objects
      BY <1>0, <2>0 DEF Objects
    <2>3. Acyclic(Pointers(new))
      BY <1>0, <2>0, Placed
    <2>6. OneMove(o, object, new)
      BY <2>0 DEF OneMove
    <2> HIDE DEF new
    <2>4. c \in Call
      BY <1>I, <2>1 DEF Call, Idle, Place
    <2>5. Sound(c)
      BY <1>I, <2>3 DEF Idle, Sound
    <2>7. Current(c)
      BY <2>6 DEF Idle, Current
    <2> HIDE DEF c
    <2> QED
      BY <1>2, <2>4, <2>5, <2>7, Begins DEF PlaceObject, c, new
  <1>3. CASE MoveRead(p)
    <2> DEFINE new == Rehung(call[p].subject, call[p].will[call[p].subject].container, edges)
               c == [call[p] EXCEPT !.at = "move", !.before = edges, !.after = new,
                                    !.stale = @ \ {"relationships"}]
    <2>1. Acyclic(Rails(new)) /\ new \in SUBSET Edge
      BY <1>0, RehungRails
    <2>2. call' = [call EXCEPT ![p] = c]
      BY <1>3 DEF MoveRead
    <2> HIDE DEF new
    <2>3. c \in Call
      BY <1>0, <2>1 DEF Call, Place
    <2>4. Sound(c) /\ Current(c)
      BY <1>0, <1>3, <2>1 DEF Call, Sound, Current, MoveRead
    <2>5. call[p].at \notin Due /\ UNCHANGED <<object, edges, projection, calls, mixed, lapsed>>
      BY <1>3 DEF MoveRead, Due
    <2> HIDE DEF c
    <2> QED
      BY <2>2, <2>3, <2>4, <2>5, CallMoves, Facts
  <1>4. CASE MoveEdges(p)
    <2> DEFINE c == [call[p] EXCEPT !.at = "halfway"]
    <2>1. c \in Call /\ Sound(c) /\ Current(c)
      BY <1>0, <1>4 DEF Call, Place, Sound, Current, MoveEdges
    <2>2. edges' \subseteq Edge /\ Acyclic(Rails(edges'))
      BY <1>0, <1>4 DEF MoveEdges, Call, Sound
    <2>3. /\ call[p].at \notin Due /\ UNCHANGED <<object, projection, calls, lapsed, mixed>>
          /\ Overtake(p, "relationships", c)
      BY <1>4 DEF MoveEdges, Due
    <2> HIDE DEF c
    <2> QED
      BY <1>0, <2>1, <2>2, <2>3, EdgesWritten
  <1>5. CASE MoveObjects(p)
    <2> DEFINE c == [Idle EXCEPT !.at = "announce", !.rebuilds = TRUE]
    <2>1. c \in Call
      BY <1>I DEF Call, Idle, Place
    <2>2. Sound(c) /\ c.at = "announce"
      BY <1>I DEF Sound, Idle
    <2>3. /\ object' = call[p].will /\ Overtake(p, "objects", c)
          /\ UNCHANGED <<edges, projection, calls, mixed, lapsed>>
      BY <1>5 DEF MoveObjects
    <2> HIDE DEF c
    <2> QED
      BY <2>1, <2>2, <2>3, ObjectsWritten
  <1>6. CASE MoveFails(p)
    BY <1>6, Goes DEF MoveFails, Place, Due
  <1>7. CASE Undo(p)
    <2>1. edges' \subseteq Edge /\ Acyclic(Rails(edges'))
      BY <1>0, <1>7 DEF Undo, Call, Sound
    <2>2. /\ call[p].at \notin Due /\ UNCHANGED <<object, projection, calls, lapsed, mixed>>
          /\ Overtake(p, "relationships", Idle)
      BY <1>7 DEF Undo, Due
    <2>3. Current(Idle)
      BY IdleSound DEF Current
    <2> QED
      BY <1>0, <1>I, <2>1, <2>2, <2>3, EdgesWritten
  <1> QED
    BY <1>1, <1>2, <1>3, <1>4, <1>5, <1>6, <1>7 DEF ContainmentCall

LEMMA ObjectSteps ==
    ASSUME IInv, NEW p \in Process, ObjectCall(p)
    PROVE  IInv'
  <1>0. /\ call[p] \in Call /\ Sound(call[p]) /\ Current(call[p])
        /\ object \in Objects /\ mixed \in SUBSET Object /\ lapsed \in BOOLEAN
        /\ Acyclic(Pointers(object))
    BY Facts
  <1>I. Idle \in Call /\ Sound(Idle)
    BY IdleSound
  (* A status changes, and no container.                                     *)
  <1>1. ASSUME NEW o \in Object, NEW new, NEW b \in BOOLEAN,
               \/ new = object
               \/ \E s \in BOOLEAN : new = [object EXCEPT ![o].active = s],
               OneStatus(o, object, new),
               Begin(p, [Idle EXCEPT !.at = "change", !.rebuilds = b, !.subject = o, !.will = new])
        PROVE  IInv'
    <2> DEFINE c == [Idle EXCEPT !.at = "change", !.rebuilds = b, !.subject = o, !.will = new]
    <2>1. new \in Objects
      BY <1>0, <1>1 DEF Objects
    <2>2. \A x \in Object : new[x].container \in {object[x].container, None}
      <3>1. ASSUME NEW s \in BOOLEAN, new = [object EXCEPT ![o].active = s]
            PROVE  \A x \in Object : new[x].container = object[x].container
        BY <1>0, <3>1 DEF Objects
      <3> QED
        BY <1>1, <3>1
    <2>3. Acyclic(Pointers(new))
      BY <1>0, <2>2, PointersFewer
    <2>4. c \in Call
      BY <1>I, <2>1 DEF Call, Idle, Place
    <2>5. Sound(c)
      BY <1>I, <2>3 DEF Idle, Sound
    <2>6. Current(c)
      BY <1>1 DEF Idle, Current
    <2>7. Begin(p, c)
      BY <1>1
    <2> HIDE DEF c
    <2> QED
      BY <2>4, <2>5, <2>6, <2>7, Begins
  <1>2. ASSUME NEW o \in Object, DeleteObject(p, o)  PROVE IInv'
    <2> DEFINE new == [object EXCEPT ![o].active = FALSE]
    <2>1. OneStatus(o, object, new)
      BY <1>2 DEF DeleteObject, OneStatus
    <2>2. Begin(p, [Idle EXCEPT !.at = "change", !.rebuilds = TRUE, !.subject = o, !.will = new])
      BY <1>2 DEF DeleteObject
    <2> QED
      BY <1>1, <2>1, <2>2
  <1>3. ASSUME NEW o \in Object, RestoreObject(p, o)  PROVE IInv'
    <2> DEFINE new == [object EXCEPT ![o].active = TRUE]
    <2>1. OneStatus(o, object, new)
      BY <1>3 DEF RestoreObject, OneStatus
    <2>3. Begin(p, [Idle EXCEPT !.at = "change", !.rebuilds = FALSE, !.subject = o, !.will = new])
      BY <1>3 DEF RestoreObject
    <2>4. \E s \in BOOLEAN : new = [object EXCEPT ![o].active = s]
      OBVIOUS
    <2> HIDE DEF new
    <2> QED
      BY <1>1, <2>1, <2>3, <2>4
  <1>4. ASSUME NEW o \in Object, EditObject(p, o)  PROVE IInv'
    <2>1. OneStatus(o, object, object)
      BY DEF OneStatus
    <2>2. Begin(p, [Idle EXCEPT !.at = "change", !.rebuilds = TRUE, !.subject = o, !.will = object])
      BY <1>4 DEF EditObject
    <2> QED
      BY <1>1, <2>1, <2>2
  <1>5. CASE WriteObjects(p)
    <2> DEFINE c == [Idle EXCEPT !.at = "announce", !.rebuilds = call[p].rebuilds]
    <2>1. c \in Call
      BY <1>0, <1>I DEF Call, Idle, Place
    <2>2. Sound(c) /\ c.at = "announce"
      BY <1>I DEF Sound, Idle
    <2>3. /\ object' = call[p].will /\ Overtake(p, "objects", c)
          /\ UNCHANGED <<edges, projection, calls, mixed, lapsed>>
      BY <1>5 DEF WriteObjects
    <2> HIDE DEF c
    <2> QED
      BY <2>1, <2>2, <2>3, ObjectsWritten
  <1>6. CASE Announce(p)
    <2>1. CASE End(p) /\ lapsed' = TRUE
      <3>1. UNCHANGED <<object, edges, projection, calls>> /\ mixed' \subseteq Object
        BY <1>0, <1>6 DEF Announce
      <3>2. lapsed' \in BOOLEAN /\ lapsed'
        BY <2>1
      <3> QED
        BY <2>1, <3>1, <3>2, Ends
    <2>2. CASE call' = [call EXCEPT ![p] = [Idle EXCEPT !.at = "derive"]] /\ UNCHANGED lapsed
      <3> DEFINE c == [Idle EXCEPT !.at = "derive"]
      <3>1. c \in Call
        BY <1>I DEF Call, Idle, Place
      <3>2. Sound(c) /\ Current(c) /\ c.at \in Due
        BY <1>I DEF Sound, Idle, Current, Due
      <3>3. call' = [call EXCEPT ![p] = c] /\ UNCHANGED <<object, edges, projection, calls, mixed>>
        BY <1>6, <2>2 DEF Announce
      <3> HIDE DEF c
      <3> QED
        BY <2>2, <3>1, <3>2, <3>3, CallMoves, Facts
    <2> QED
      BY <1>6, <2>1, <2>2 DEF Announce
  <1> QED
    BY <1>2, <1>3, <1>4, <1>5, <1>6 DEF ObjectCall

LEMMA RebuildSteps ==
    ASSUME IInv, NEW p \in Process, Rebuild(p)
    PROVE  IInv'
  <1>0. /\ call[p] \in Call /\ Sound(call[p]) /\ Current(call[p])
        /\ object \in Objects /\ lapsed \in BOOLEAN /\ calls \in 0..MaxCalls
        /\ mixed \in SUBSET Object
    BY Facts
  <1>I. Idle \in Call /\ Sound(Idle)
    BY IdleSound
  <1>1. CASE Assure(p)
    <2> DEFINE c == [Idle EXCEPT !.at = "derive"]
    <2>1. c \in Call /\ Sound(c) /\ Current(c) /\ c.at \in Due
      BY <1>I DEF Call, Idle, Place, Sound, Current, Due
    <2>2. call' = [call EXCEPT ![p] = c]
          /\ UNCHANGED <<object, edges, projection, calls, mixed, lapsed>>
      BY <1>1 DEF Assure
    <2> HIDE DEF c
    <2> QED
      BY <1>0, <2>1, <2>2, CallMoves
  <1>2. CASE DeriveRead(p)
    <2> DEFINE c == [call[p] EXCEPT !.at = "derived", !.was = object]
    <2>1. c \in Call
      BY <1>0 DEF Call, Place
    <2>2. Sound(c) /\ Current(c) /\ c.at \in Due
      BY <1>0 DEF Call, Sound, Current, Due
    <2>3. call' = [call EXCEPT ![p] = c]
          /\ UNCHANGED <<object, edges, projection, calls, mixed, lapsed>>
      BY <1>2 DEF DeriveRead
    <2> HIDE DEF c
    <2> QED
      BY <1>0, <2>1, <2>2, <2>3, CallMoves
  <1>3. CASE ProjectionsRead(p)
    <2> DEFINE c == [call[p] EXCEPT !.at = "project", !.stale = @ \ {"projections"}]
    <2>1. c \in Call
      BY <1>0 DEF Call, Place
    <2>2. Sound(c) /\ Current(c) /\ c.at \in Due
      BY <1>0 DEF Call, Sound, Current, Due
    <2>3. call' = [call EXCEPT ![p] = c]
          /\ UNCHANGED <<object, edges, projection, calls, mixed, lapsed>>
      BY <1>3 DEF ProjectionsRead
    <2> HIDE DEF c
    <2> QED
      BY <1>0, <2>1, <2>2, <2>3, CallMoves
  <1>4. CASE WriteProjections(p)
    <2>1. call[p].was \in Objects
      BY <1>0 DEF Call
    <2>2. projection' \in Projections
      BY <1>4, <2>1 DEF WriteProjections, ProjectionOf, Projections
    <2>3. UNCHANGED <<object, edges, calls, mixed>> /\ lapsed' \in BOOLEAN
      BY <1>4 DEF WriteProjections
    <2>4. ProjectionCurrent'
      BY <1>4, <2>3 DEF WriteProjections, ProjectionCurrent, ProjectionOf, Active
    <2>5. /\ call' \in [Process -> Call]
          /\ \A q \in Process :
               \/ call'[q] = call[q] \/ call'[q] = Idle
               \/ call'[q] = [call[q] EXCEPT !.stale = @ \cup {"projections"}]
      <3>0. call \in [Process -> Call]
        BY DEF IInv, TypeOK
      <3>1. CASE End(p)
        BY <1>I, <3>0, <3>1 DEF End
      <3>2. CASE Overtake(p, "projections", Idle)
        <4>1. "projections" \in Collection
          BY DEF Collection
        <4> QED
          BY <1>I, <3>2, <4>1, Overtaken
      <3> QED
        BY <1>4, <3>1, <3>2 DEF WriteProjections
    <2>6. \A q \in Process : Sound(call'[q]) /\ Current(call'[q])
      <3> TAKE q \in Process
      <3>1. call[q] \in Call /\ Sound(call[q]) /\ Current(call[q])
        BY DEF IInv, TypeOK
      <3>2. Current(Idle)
        BY IdleSound DEF Current
      <3>3. CASE call'[q] = [call[q] EXCEPT !.stale = @ \cup {"projections"}]
        BY <3>1, <3>3 DEF Call, Sound, Current
      <3> QED
        BY <1>I, <2>5, <3>1, <3>2, <3>3
    <2>7. \A q \in Process : Sound(call[q])' /\ Current(call[q])'
      BY <2>3, <2>6 DEF Sound, Current, OneMove, OneStatus
    <2> QED
      BY <2>2, <2>3, <2>4, <2>5, <2>7 DEF IInv, TypeOK, StructureAcyclic, ContainmentAcyclic
  <1> QED
    BY <1>1, <1>2, <1>3, <1>4 DEF Rebuild

LEMMA StopStep ==
    ASSUME IInv, NEW p \in Process, Stop(p)
    PROVE  IInv'
  <1>1. mixed' \subseteq Object
    <2>1. call[p] \in Call /\ mixed \subseteq Object
      BY DEF IInv, TypeOK
    <2>2. CASE call[p].at \in {"halfway", "undo"}
      <3>1. call[p].subject \in Object
        BY <2>2, Facts DEF Sound
      <3> QED
        BY <2>1, <3>1 DEF Stop
    <2>3. CASE call[p].at \notin {"halfway", "undo"}
      BY <2>1, <2>3 DEF Stop
    <2> QED
      BY <2>2, <2>3
  <1>2. /\ lapsed' \in BOOLEAN /\ lapsed => lapsed'
        /\ call[p].at \in Due => lapsed'
    BY Facts DEF Stop, Due
  <1> QED
    BY <1>1, <1>2, Ends DEF Stop

LEMMA NextKeeps == IInv /\ [Next]_vars => IInv'
  <1> SUFFICES ASSUME IInv, [Next]_vars PROVE IInv'
    OBVIOUS
  <1>1. ASSUME NEW p \in Process,
               EdgeCall(p) \/ ContainmentCall(p) \/ ObjectCall(p) \/ Rebuild(p) \/ Stop(p)
        PROVE  IInv'
    BY <1>1, EdgeSteps, ContainmentSteps, ObjectSteps, RebuildSteps, StopStep
  <1>2. CASE UNCHANGED vars
    BY <1>2 DEF vars, IInv, TypeOK, StructureAcyclic, ContainmentAcyclic, ProjectionCurrent,
                Sound, Current, OneMove, OneStatus, ProjectionOf, Active
  <1> QED
    BY <1>1, <1>2 DEF Next

LEMMA Inductive == Spec => []IInv
  BY InitHolds, NextKeeps, PTL DEF Spec

-----------------------------------------------------------------------------
(* Objects, edges, projections and calls stay well formed.                   *)
THEOREM TypeCorrect == Spec => []TypeOK
  <1>1. IInv => TypeOK
    BY DEF IInv
  <1> QED
    BY <1>1, Inductive, PTL

(* Technical edges never close a cycle, for any number of processes.         *)
THEOREM StructureStaysAcyclic == Spec => []StructureAcyclic
  <1>1. IInv => StructureAcyclic
    BY DEF IInv
  <1> QED
    BY <1>1, Inductive, PTL

(* No Object comes to be inside itself.                                      *)
THEOREM ContainmentStaysAcyclic == Spec => []ContainmentAcyclic
  <1>1. IInv => ContainmentAcyclic
    BY DEF IInv
  <1> QED
    BY <1>1, Inductive, PTL

(* A projection that no call owes and no failure explains is current.        *)
THEOREM ProjectionStaysCurrent == Spec => []ProjectionCurrent
  <1>1. IInv => ProjectionCurrent
    BY DEF IInv
  <1> QED
    BY <1>1, Inductive, PTL

-----------------------------------------------------------------------------
(* Orphans.                                                                  *)

(* A change of one container, or of one status, by the rules of the calls,   *)
(* orphans no Object but one it makes active.                                *)
LEMMA ChangeOrphansNone ==
    ASSUME NEW objs \in Objects, NEW s \in Object, NEW will \in Objects,
           OneMove(s, objs, will) \/ OneStatus(s, objs, will),
           NEW o \in Object, Orphaned(o, will), ~Orphaned(o, objs)
    PROVE  ~Active(o, objs)
  <1>1. CASE OneMove(s, objs, will)
    BY <1>1, NoneAssumption DEF OneMove, Orphaned, Active, Objects
  <1>2. CASE OneStatus(s, objs, will)
    <2>1. CASE DeleteAllowed(s, objs) /\ will = [objs EXCEPT ![s].active = FALSE]
      BY <2>1, NoneAssumption DEF DeleteAllowed, Orphaned, Active, Objects
    <2>2. CASE ~Active(s, objs) /\ will = [objs EXCEPT ![s].active = TRUE]
      BY <2>2, NoneAssumption DEF Orphaned, Active, Objects
    <2>3. CASE will = objs
      BY <2>3
    <2> QED
      BY <1>2, <2>1, <2>2, <2>3 DEF OneStatus
  <1> QED
    BY <1>1, <1>2

(* An active Object comes to lie in a deleted container only by being        *)
(* restored.                                                                 *)
THEOREM NeverOrphaned == Spec => NoOrphaning
  <1> DEFINE Step == \A o \in Object :
                        Orphaned(o, object') /\ ~Orphaned(o, object) => ~Active(o, object)
  <1>1. ASSUME IInv, [Next]_vars  PROVE [Step]_vars
    <2>1. ASSUME NEW p \in Process, MoveObjects(p) \/ WriteObjects(p)  PROVE Step
      <3>1. /\ call[p] \in Call /\ Sound(call[p]) /\ Current(call[p]) /\ object \in Objects
        BY <1>1, Facts
      <3>2. /\ "objects" \notin call[p].stale /\ object' = call[p].will
            /\ call[p].at \in {"halfway", "change"}
        BY <2>1 DEF MoveObjects, WriteObjects, Fresh
      <3>3. call[p].subject \in Object /\ call[p].will \in Objects
        BY <3>1, <3>2 DEF Sound, Call
      <3>4. OneMove(call[p].subject, object, call[p].will)
            \/ OneStatus(call[p].subject, object, call[p].will)
        BY <3>1, <3>2 DEF Current
      <3> QED
        BY <3>1, <3>2, <3>3, <3>4, ChangeOrphansNone
    <2>2. ASSUME UNCHANGED object  PROVE Step
      BY <2>2 DEF Orphaned, Active
    <2>3. ASSUME NEW p \in Process, EdgeCall(p) \/ Rebuild(p) \/ Stop(p)
          PROVE  UNCHANGED object
      BY <2>3 DEF EdgeCall, Rebuild, Stop, Connect, EndEdge, Reorder, Begin, ConnectRead,
           WriteEdges, EventAppended, EventLost, TakeBack, Assure, DeriveRead,
           ProjectionsRead, WriteProjections
    <2>4. ASSUME NEW p \in Process, ContainmentCall(p)
          PROVE  UNCHANGED object \/ MoveObjects(p)
      BY <2>4 DEF ContainmentCall, RemoveObject, PlaceObject, Begin, MoveRead, MoveEdges,
           MoveFails, Undo
    <2>5. ASSUME NEW p \in Process, ObjectCall(p)
          PROVE  UNCHANGED object \/ WriteObjects(p)
      BY <2>5 DEF ObjectCall, DeleteObject, RestoreObject, EditObject, Begin, Announce
    <2>6. CASE UNCHANGED vars
      BY <2>6
    <2> QED
      BY <1>1, <2>1, <2>2, <2>3, <2>4, <2>5, <2>6 DEF Next
  <1> QED
    BY <1>1, Inductive, PTL DEF Spec, NoOrphaning


-----------------------------------------------------------------------------
(* Containment agrees.  An edge is hung first and the Object written second, *)
(* and the roll-back puts back the edges read before: between the two writes *)
(* others may hang, write and roll back the same Object.  What keeps them in *)
(* step are the versions: only the last writer of the edges can roll back,   *)
(* only a call whose Objects are current can write them, and a call that can *)
(* do neither has to stop, and leaves its subject mixed.  So it is enough to *)
(* know what the edges say for the calls that are alone with the Object, or  *)
(* two of them: what one of them leaves is what the other found.             *)
Written == {"event", "takeBack", "halfway", "undo"}
Between(c, o) == c.at \in {"halfway", "undo"} /\ c.subject = o
CanUndo(c) == "relationships" \notin c.stale
CanMove(c) == c.at = "halfway" /\ "objects" \notin c.stale
Into(o, objs) == {objs[o].container} \ {None}

Known(c) ==
    /\ c.at \in {"ready", "move"} /\ CanUndo(c) => c.before = edges
    /\ c.at \in Written /\ CanUndo(c) => c.after = edges
    /\ c.at \in {"ready", "event", "takeBack"} =>
          \A e \in Edge : e # c.edge => (e \in c.before <=> e \in c.after)
    /\ c.at \in {"event", "takeBack"} /\ c.edge.kind = "contained" => c.edge.source \in mixed
    /\ c.at \in {"move", "halfway", "undo"} =>
          c.after = Rehung(c.subject, c.will[c.subject].container, c.before)

OneWriter ==
    \A p, q \in Process :
        ~ /\ p # q
          /\ call[p].at \in Written /\ CanUndo(call[p])
          /\ call[q].at \in Written /\ CanUndo(call[q])

GivenUp(o) ==
    \/ o \in mixed
    \/ \E p \in Process : Between(call[p], o) /\ ~CanUndo(call[p]) /\ ~CanMove(call[p])
Among(P, o) == \A r \in Process : Between(call[r], o) => r \in P

NobodyMoves(o) == Among({}, o) => ContainedIn(o, edges) = Into(o, object)
OneMoves(o) ==
    \A p \in Process : Between(call[p], o) /\ Among({p}, o) =>
        /\ CanUndo(call[p]) => ContainedIn(o, call[p].before) = Into(o, object)
        /\ CanMove(call[p]) => ContainedIn(o, edges) = Into(o, call[p].will)
TwoMove(o) ==
    \A p, q \in Process :
        /\ p # q /\ Between(call[p], o) /\ Between(call[q], o) /\ Among({p, q}, o)
        /\ CanMove(call[p]) /\ CanUndo(call[q])
        => ContainedIn(o, call[q].before) = Into(o, call[p].will)
Settles(o) == GivenUp(o) \/ (NobodyMoves(o) /\ OneMoves(o) /\ TwoMove(o))

Hung ==
    /\ \A p \in Process : Known(call[p])
    /\ OneWriter
    /\ \A o \in Object : Settles(o)

----------------------------------------------------------------------------
(* A step makes the call of p into c and overtakes the readers of k.         *)
Turns(p, k, c) ==
    /\ call'[p] = c
    /\ \A r \in Process \ {p} :
          /\ call'[r].at = call[r].at /\ call'[r].subject = call[r].subject
          /\ call'[r].edge = call[r].edge /\ call'[r].will = call[r].will
          /\ call'[r].before = call[r].before /\ call'[r].after = call[r].after
          /\ call[r].stale \subseteq call'[r].stale
          /\ k # "nothing" /\ call[r].at # "idle" => k \in call'[r].stale

LEMMA CallTurns ==
    ASSUME IInv, NEW p \in Process, NEW c, call' = [call EXCEPT ![p] = c]
    PROVE  Turns(p, "nothing", c)
  <1>1. call \in [Process -> Call]
    BY DEF IInv, TypeOK
  <1>2. call'[p] = c /\ \A r \in Process \ {p} : call'[r] = call[r]
    BY <1>1
  <1> QED
    BY <1>2 DEF Turns

LEMMA OvertakeTurns ==
    ASSUME IInv, NEW p \in Process, NEW k \in Collection, NEW c, Overtake(p, k, c)
    PROVE  Turns(p, k, c)
  <1>1. call'[p] = c
    BY DEF Overtake
  <1>2. ASSUME NEW r \in Process \ {p}
        PROVE  /\ call'[r].at = call[r].at /\ call'[r].subject = call[r].subject
               /\ call'[r].edge = call[r].edge /\ call'[r].will = call[r].will
               /\ call'[r].before = call[r].before /\ call'[r].after = call[r].after
               /\ call[r].stale \subseteq call'[r].stale
               /\ call[r].at # "idle" => k \in call'[r].stale
    <2>1. PICK d : d = call[r]
      OBVIOUS
    <2>2. d \in Call
      BY <2>1 DEF IInv, TypeOK
    <2>3. CASE d.at = "idle"
      <3>1. call'[r] = call[r]
        BY <2>1, <2>3 DEF Overtake
      <3> QED
        BY <2>1, <2>3, <3>1
    <2>4. CASE d.at # "idle"
      <3>1. call'[r] = [d EXCEPT !.stale = @ \cup {k}]
        BY <2>1, <2>4 DEF Overtake
      <3>2. PICK f : f = [d EXCEPT !.stale = @ \cup {k}]
        OBVIOUS
      <3>3. /\ f.at = d.at /\ f.subject = d.subject /\ f.edge = d.edge /\ f.will = d.will
            /\ f.before = d.before /\ f.after = d.after /\ f.stale = d.stale \cup {k}
        BY <2>2, <3>2 DEF Call
      <3> QED
        BY <2>1, <3>1, <3>2, <3>3
    <2> QED
      BY <2>3, <2>4
  <1> QED
    BY <1>1, <1>2 DEF Turns

(* What the other calls can still do.                                        *)
LEMMA OthersKept ==
    ASSUME NEW p \in Process, NEW k, NEW c, Turns(p, k, c), NEW o,
           NEW r \in Process \ {p}
    PROVE  /\ Between(call'[r], o) <=> Between(call[r], o)
           /\ CanUndo(call'[r]) => CanUndo(call[r])
           /\ CanMove(call'[r]) => CanMove(call[r])
           /\ k = "relationships" /\ call[r].at # "idle" => ~CanUndo(call'[r])
           /\ k = "objects" /\ call[r].at # "idle" => ~CanMove(call'[r])
  BY DEF Turns, Between, CanUndo, CanMove

LEMMA KnownKept ==
    ASSUME Hung, NEW p \in Process, NEW k, NEW c, Turns(p, k, c),
           edges' = edges \/ k = "relationships", mixed \subseteq mixed', Known(c)'
    PROVE  \A r \in Process : Known(call[r])'
  <1>1. ASSUME NEW r \in Process
        PROVE  Known(call[r])'
    <2>1. CASE r = p
      BY <2>1 DEF Turns, Known
    <2>2. CASE r # p
      <3>1. PICK d : d = call[r]
        OBVIOUS
      <3>2. PICK f : f = call'[r]
        OBVIOUS
      <3>3. /\ f.at = d.at /\ f.subject = d.subject /\ f.edge = d.edge /\ f.will = d.will
            /\ f.before = d.before /\ f.after = d.after
            /\ CanUndo(f) => CanUndo(d)
            /\ k = "relationships" /\ d.at # "idle" => ~CanUndo(f)
        BY <2>2, <3>1, <3>2 DEF Turns, CanUndo
      <3>4. Known(d)
        BY <3>1 DEF Hung
      <3>5. Known(f)'
        BY <3>3, <3>4 DEF Known, Written
      <3> QED
        BY <3>2, <3>5 DEF Known
    <2> QED
      BY <2>1, <2>2
  <1> QED
    BY <1>1

LEMMA WriterKept ==
    ASSUME Hung, NEW p \in Process, NEW k, NEW c, Turns(p, k, c),
           c.at \in Written /\ CanUndo(c) =>
              k = "relationships" \/ (call[p].at \in Written /\ CanUndo(call[p]))
    PROVE  OneWriter'
  <1>1. ASSUME NEW q \in Process, NEW r \in Process, q # r,
               call'[q].at \in Written, CanUndo(call'[q]),
               call'[r].at \in Written, CanUndo(call'[r])
        PROVE  FALSE
    <2>1. \A s \in Process \ {p} :
             /\ call'[s].at = call[s].at
             /\ CanUndo(call'[s]) => CanUndo(call[s])
             /\ k = "relationships" /\ call[s].at # "idle" => ~CanUndo(call'[s])
      BY DEF Turns, CanUndo
    <2>2. CASE q # p /\ r # p
      BY <1>1, <2>1, <2>2 DEF Hung, OneWriter
    <2>3. CASE q = p
      BY <1>1, <2>1, <2>3 DEF Hung, OneWriter, Turns, Written
    <2>4. CASE r = p
      BY <1>1, <2>1, <2>4 DEF Hung, OneWriter, Turns, Written
    <2> QED
      BY <2>2, <2>3, <2>4
  <1> QED
    BY <1>1 DEF OneWriter, CanUndo


(* An Object that was given up stays so, and one whose calls only lose their *)
(* ways out stays in step.                                                   *)
Same(c, d, o) ==
    /\ Between(d, o) <=> Between(c, o)
    /\ Between(c, o) => /\ d.before = c.before /\ d.will = c.will
                        /\ CanUndo(d) => CanUndo(c)
                        /\ CanMove(d) => CanMove(c)

LEMMA GivenUpKept ==
    ASSUME NEW p \in Process, NEW k, NEW c, Turns(p, k, c), NEW o, GivenUp(o),
           mixed \subseteq mixed',
           o \in mixed' \/ Same(call[p], c, o) \/ CanUndo(call[p]) \/ CanMove(call[p])
    PROVE  GivenUp(o)'
  <1>1. CASE o \in mixed'
    BY <1>1 DEF GivenUp
  <1>2. CASE o \notin mixed'
    <2>1. PICK r \in Process : Between(call[r], o) /\ ~CanUndo(call[r]) /\ ~CanMove(call[r])
      BY <1>2 DEF GivenUp
    <2>2. CASE r # p
      <3>1. Between(call'[r], o) /\ ~CanUndo(call'[r]) /\ ~CanMove(call'[r])
        BY <2>1, <2>2, OthersKept
      <3> QED
        BY <3>1 DEF GivenUp, Between, CanUndo, CanMove
    <2>3. CASE r = p
      <3>1. call'[r] = c /\ Same(call[r], c, o)
        BY <1>2, <2>1, <2>3 DEF Turns
      <3>2. Between(call'[r], o) /\ ~CanUndo(call'[r]) /\ ~CanMove(call'[r])
        BY <2>1, <3>1 DEF Same
      <3> QED
        BY <3>2 DEF GivenUp, Between, CanUndo, CanMove
    <2> QED
      BY <2>2, <2>3
  <1> QED
    BY <1>1, <1>2

LEMMA SettlesKept ==
    ASSUME NEW p \in Process, NEW k, NEW c, Turns(p, k, c), NEW o \in Object, Settles(o),
           mixed \subseteq mixed', o \in mixed' \/ Same(call[p], c, o),
           o \notin mixed' => ContainedIn(o, edges') = ContainedIn(o, edges),
           object'[o].container = object[o].container
    PROVE  Settles(o)'
  <1>1. CASE o \in mixed'
    BY <1>1 DEF Settles, GivenUp
  <1>2. CASE GivenUp(o)
    BY <1>2, GivenUpKept DEF Settles
  <1>3. CASE o \notin mixed' /\ NobodyMoves(o) /\ OneMoves(o) /\ TwoMove(o)
    <2>1. \A r \in Process :
             /\ Between(call'[r], o) <=> Between(call[r], o)
             /\ Between(call[r], o) => /\ call'[r].before = call[r].before
                                       /\ call'[r].will = call[r].will
                                       /\ CanUndo(call'[r]) => CanUndo(call[r])
                                       /\ CanMove(call'[r]) => CanMove(call[r])
      <3> TAKE r \in Process
      <3>1. CASE r = p
        BY <1>3, <3>1 DEF Turns, Same
      <3>2. CASE r # p
        BY <3>2, OthersKept DEF Turns
      <3> QED
        BY <3>1, <3>2
    <2>2. \A P : Among(P, o)' <=> Among(P, o)
      BY <2>1 DEF Among, Between
    <2>3. PICK E : E = ContainedIn(o, edges)
      OBVIOUS
    <2>4. PICK I : I = Into(o, object)
      OBVIOUS
    <2>5. ContainedIn(o, edges') = E /\ Into(o, object') = I
      BY <1>3, <2>3, <2>4 DEF Into
    <2>6. NobodyMoves(o)'
      <3>1. NobodyMoves(o)' <=> (Among({}, o)' => ContainedIn(o, edges') = Into(o, object'))
        BY DEF NobodyMoves, ContainedIn, Into
      <3> QED
        BY <1>3, <2>2, <2>3, <2>4, <2>5, <3>1 DEF NobodyMoves
    <2>7. ASSUME NEW q \in Process, Between(call'[q], o), Among({q}, o)'
          PROVE  /\ CanUndo(call'[q]) => ContainedIn(o, call'[q].before) = Into(o, object')
                 /\ CanMove(call'[q]) => ContainedIn(o, edges') = Into(o, call'[q].will)
      <3>1. Between(call[q], o) /\ Among({q}, o)
        BY <2>1, <2>2, <2>7
      <3>2. /\ CanUndo(call[q]) => ContainedIn(o, call[q].before) = I
            /\ CanMove(call[q]) => E = Into(o, call[q].will)
        BY <1>3, <2>3, <2>4, <3>1 DEF OneMoves
      <3>3. /\ call'[q].before = call[q].before /\ call'[q].will = call[q].will
            /\ CanUndo(call'[q]) => CanUndo(call[q])
            /\ CanMove(call'[q]) => CanMove(call[q])
        BY <2>1, <3>1
      <3> QED
        BY <2>5, <3>2, <3>3
    <2>8. OneMoves(o)'
      BY <2>7 DEF OneMoves, Between, CanUndo, CanMove, ContainedIn, Into
    <2>9. ASSUME NEW q \in Process, NEW r \in Process, q # r,
                 Between(call'[q], o), Between(call'[r], o), Among({q, r}, o)',
                 CanMove(call'[q]), CanUndo(call'[r])
          PROVE  ContainedIn(o, call'[r].before) = Into(o, call'[q].will)
      <3>1. /\ Between(call[q], o) /\ Between(call[r], o) /\ Among({q, r}, o)
            /\ CanMove(call[q]) /\ CanUndo(call[r])
            /\ call'[r].before = call[r].before /\ call'[q].will = call[q].will
        BY <2>1, <2>2, <2>9
      <3> QED
        BY <1>3, <2>9, <3>1 DEF TwoMove
    <2>10. TwoMove(o)'
      BY <2>9 DEF TwoMove, Between, CanUndo, CanMove, ContainedIn, Into
    <2> QED
      BY <2>6, <2>8, <2>10 DEF Settles
  <1> QED
    BY <1>1, <1>2, <1>3 DEF Settles


(* A step that leaves what the edges and the Objects say of the Objects that *)
(* are not mixed.                                                            *)
LEMMA QuietStep ==
    ASSUME Hung, NEW p \in Process, NEW k, NEW c, Turns(p, k, c), Known(c)',
           edges' = edges \/ k = "relationships", mixed \subseteq mixed',
           \A o \in Object : /\ o \notin mixed' => ContainedIn(o, edges') = ContainedIn(o, edges)
                             /\ object'[o].container = object[o].container
                             /\ o \in mixed' \/ Same(call[p], c, o),
           c.at \in Written /\ CanUndo(c) =>
              k = "relationships" \/ (call[p].at \in Written /\ CanUndo(call[p]))
    PROVE  Hung'
  <1>1. \A r \in Process : Known(call[r])'
    BY KnownKept
  <1>2. OneWriter'
    BY WriterKept
  <1>3. \A o \in Object : Settles(o)'
    BY SettlesKept DEF Hung
  <1> QED
    BY <1>1, <1>2, <1>3 DEF Hung

Loose == {"idle", "endpoints", "moving", "change", "announce", "derive", "derived", "project"}

LEMMA LooseStep ==
    ASSUME Hung, NEW p \in Process, NEW k, NEW c, Turns(p, k, c), c.at \in Loose,
           edges' = edges, mixed \subseteq mixed',
           \A o \in Object : object'[o].container = object[o].container,
           call[p].at \in {"halfway", "undo"} => call[p].subject \in mixed'
    PROVE  Hung'
  <1>1. Known(c)' /\ c.at \notin Written
    BY DEF Loose, Known, Written
  <1>2. \A o \in Object : o \in mixed' \/ Same(call[p], c, o)
    BY DEF Same, Between, Loose
  <1> QED
    BY <1>1, <1>2, QuietStep

LEMMA EdgeCallsHung ==
    ASSUME IInv, Hung, NEW p \in Process, EdgeCall(p)
    PROVE  Hung'
  <1>0. call[p] \in Call /\ Sound(call[p]) /\ object \in Objects /\ edges \in SUBSET Edge
    BY Facts
  <1>I. Idle \in Call /\ Idle.at \in Loose
    BY IdleSound DEF Loose
  <1>K. Known(call[p])
    BY DEF Hung
  <1>1. ASSUME NEW e \in Edge, Connect(p, e)  PROVE Hung'
    <2>1. PICK c : c = [Idle EXCEPT !.at = "endpoints", !.edge = e]
      OBVIOUS
    <2>2. c.at \in Loose
      BY <1>I, <2>1 DEF Call, Loose
    <2>3. Turns(p, "nothing", c) /\ UNCHANGED <<object, edges, mixed>> /\ call[p].at = "idle"
      BY <1>1, <2>1, CallTurns DEF Connect, Begin
    <2> QED
      BY <2>2, <2>3, LooseStep
  <1>2. ASSUME NEW e \in Edge, NEW es \in SUBSET Edge, es = edges \ {e} \/ es = edges,
               Begin(p, [Idle EXCEPT !.at = "ready", !.edge = e,
                                     !.before = edges, !.after = es])
        PROVE Hung'
    <2>1. PICK c : c = [Idle EXCEPT !.at = "ready", !.edge = e,
                                    !.before = edges, !.after = es]
      OBVIOUS
    <2>2. c.at = "ready" /\ c.edge = e /\ c.before = edges /\ c.after = es
      BY <1>I, <2>1 DEF Call
    <2>3. Turns(p, "nothing", c) /\ UNCHANGED <<object, edges, mixed>> /\ call[p].at = "idle"
      BY <1>2, <2>1, CallTurns DEF Begin
    <2>4. Known(c)' /\ c.at \notin Written
      BY <1>2, <2>2, <2>3 DEF Known, Written
    <2>5. \A o \in Object : Same(call[p], c, o)
      BY <2>2, <2>3 DEF Same, Between
    <2> QED
      BY <2>3, <2>4, <2>5, QuietStep
  <1>3. ASSUME NEW e \in Edge, EndEdge(p, e) \/ Reorder(p, e)  PROVE Hung'
    <2>1. CASE EndEdge(p, e)
      <3>1. PICK es : es = edges \ {e}
        OBVIOUS
      <3> QED
        BY <1>0, <1>2, <2>1, <3>1 DEF EndEdge
    <2>2. CASE Reorder(p, e)
      BY <1>0, <1>2, <2>2 DEF Reorder
    <2> QED
      BY <1>3, <2>1, <2>2
  <1>4. CASE ConnectRead(p)
    <2>0. call[p].at = "endpoints" /\ UNCHANGED <<object, edges, mixed>>
      BY <1>4 DEF ConnectRead
    <2>1. CASE End(p)
      BY <1>I, <2>0, <2>1, CallTurns, LooseStep DEF End
    <2>2. CASE ~End(p)
      <3>1. PICK e : e = call[p].edge
        OBVIOUS
      <3>2. PICK c : c = [call[p] EXCEPT !.at = "ready", !.before = edges,
                                         !.after = edges \cup {e},
                                         !.stale = @ \ {"relationships"}]
        OBVIOUS
      <3>3. c.at = "ready" /\ c.edge = e /\ c.before = edges /\ c.after = edges \cup {e}
        BY <1>0, <3>1, <3>2 DEF Call
      <3>4. call' = [call EXCEPT ![p] = c]
        BY <1>4, <2>2, <3>1, <3>2 DEF ConnectRead
      <3>5. Turns(p, "nothing", c)
        BY <3>4, CallTurns
      <3>6. Known(c)' /\ c.at \notin Written
        BY <2>0, <3>3 DEF Known, Written
      <3>7. \A o \in Object : Same(call[p], c, o)
        BY <2>0, <3>3 DEF Same, Between
      <3> QED
        BY <2>0, <3>5, <3>6, <3>7, QuietStep
    <2> QED
      BY <2>1, <2>2
  <1>5. CASE WriteEdges(p)
    <2>1. PICK d : d = call[p]
      OBVIOUS
    <2>2. /\ d.at = "ready" /\ CanUndo(d) /\ edges' = d.after /\ UNCHANGED object
          /\ Overtake(p, "relationships", [d EXCEPT !.at = "event"])
          /\ mixed' = IF d.edge.kind = "contained" THEN mixed \cup {d.edge.source} ELSE mixed
      BY <1>5, <2>1 DEF WriteEdges, Fresh, CanUndo
    <2>3. PICK c : c = [d EXCEPT !.at = "event"]
      OBVIOUS
    <2>4. /\ c.at = "event" /\ c.edge = d.edge /\ c.before = d.before /\ c.after = d.after
          /\ d.edge \in Edge
      BY <1>0, <2>1, <2>2, <2>3 DEF Call, Sound
    <2>5. "relationships" \in Collection
      BY DEF Collection
    <2>6. Turns(p, "relationships", c)
      BY <2>2, <2>3, <2>5, OvertakeTurns
    <2>7. d.before = edges /\ \A e \in Edge : e # d.edge => (e \in edges <=> e \in edges')
      BY <1>K, <2>1, <2>2 DEF Known
    <2>8. d.edge.kind = "contained" => d.edge.source \in mixed'
      BY <2>2
    <2>9. Known(c)'
      BY <2>2, <2>4, <2>7, <2>8 DEF Known, Written
    <2>10. \A o \in Object : o \notin mixed' => ContainedIn(o, edges') = ContainedIn(o, edges)
      <3> TAKE o \in Object
      <3>1. ASSUME o \notin mixed', NEW t \in Object
            PROVE  [kind |-> "contained", source |-> o, target |-> t] \in edges
                     <=> [kind |-> "contained", source |-> o, target |-> t] \in edges'
        <4>1. PICK f : f = [kind |-> "contained", source |-> o, target |-> t]
          OBVIOUS
        <4>2. f \in Edge /\ f.kind = "contained" /\ f.source = o
          BY <4>1 DEF Edge
        <4>3. f # d.edge
          BY <2>8, <3>1, <4>2
        <4> QED
          BY <2>7, <4>1, <4>2, <4>3
      <3> QED
        BY <3>1 DEF ContainedIn
    <2>11. mixed \subseteq mixed' /\ \A o \in Object : Same(call[p], c, o)
      BY <2>1, <2>2, <2>4 DEF Same, Between
    <2> QED
      BY <2>2, <2>6, <2>9, <2>10, <2>11, QuietStep
  <1>6. CASE TakeBack(p)
    <2>1. PICK d : d = call[p]
      OBVIOUS
    <2>2. /\ d.at = "takeBack" /\ CanUndo(d) /\ edges' = d.before /\ UNCHANGED <<object, mixed>>
          /\ Overtake(p, "relationships", Idle)
      BY <1>6, <2>1 DEF TakeBack, Fresh, CanUndo
    <2>3. "relationships" \in Collection
      BY DEF Collection
    <2>4. Turns(p, "relationships", Idle)
      BY <2>2, <2>3, OvertakeTurns
    <2>5. /\ d.after = edges /\ \A e \in Edge : e # d.edge => (e \in edges <=> e \in edges')
          /\ d.edge.kind = "contained" => d.edge.source \in mixed'
      BY <1>K, <2>1, <2>2 DEF Known, Written
    <2>6. \A o \in Object : o \notin mixed' => ContainedIn(o, edges') = ContainedIn(o, edges)
      <3> TAKE o \in Object
      <3>1. ASSUME o \notin mixed', NEW t \in Object
            PROVE  [kind |-> "contained", source |-> o, target |-> t] \in edges
                     <=> [kind |-> "contained", source |-> o, target |-> t] \in edges'
        <4>1. PICK f : f = [kind |-> "contained", source |-> o, target |-> t]
          OBVIOUS
        <4>2. f \in Edge /\ f.kind = "contained" /\ f.source = o
          BY <4>1 DEF Edge
        <4>3. f # d.edge
          BY <2>5, <3>1, <4>2
        <4> QED
          BY <2>5, <4>1, <4>2, <4>3
      <3> QED
        BY <3>1 DEF ContainedIn
    <2>7. Known(Idle)' /\ \A o \in Object : Same(call[p], Idle, o)
      BY <1>I, <2>1, <2>2 DEF Loose, Known, Written, Same, Between
    <2> QED
      BY <1>I, <2>2, <2>4, <2>6, <2>7, QuietStep
  <1>7. CASE EventAppended(p)
    BY <1>I, <1>7, CallTurns, LooseStep DEF EventAppended, End
  <1>8. CASE EventLost(p)
    <2>1. PICK d : d = call[p]
      OBVIOUS
    <2>2. PICK c : c = [d EXCEPT !.at = "takeBack"]
      OBVIOUS
    <2>3. /\ d.at = "event" /\ call' = [call EXCEPT ![p] = c]
          /\ UNCHANGED <<object, edges, mixed>>
      BY <1>8, <2>1, <2>2 DEF EventLost, Goto
    <2>4. /\ c.at = "takeBack" /\ c.edge = d.edge /\ c.before = d.before /\ c.after = d.after
          /\ c.stale = d.stale
      BY <1>0, <2>1, <2>2 DEF Call
    <2>5. Turns(p, "nothing", c)
      BY <2>3, CallTurns
    <2>6. Known(c)'
      BY <1>K, <2>1, <2>3, <2>4 DEF Known, Written, CanUndo
    <2>7. \A o \in Object : Same(call[p], c, o)
      BY <2>1, <2>3, <2>4 DEF Same, Between
    <2>8. CanUndo(c) => CanUndo(call[p])
      BY <2>1, <2>4 DEF CanUndo
    <2> QED
      BY <2>1, <2>3, <2>5, <2>6, <2>7, <2>8, QuietStep DEF Written
  <1> QED
    BY <1>1, <1>3, <1>4, <1>5, <1>6, <1>7, <1>8 DEF EdgeCall


(* What the edges say of the Object a call moves, and of all others.         *)
LEMMA RehungSays ==
    ASSUME NEW es \in SUBSET Edge, NEW s \in Object, NEW t \in Object \cup {None}
    PROVE  /\ ContainedIn(s, Rehung(s, t, es)) = {t} \ {None}
           /\ \A o \in Object \ {s} : ContainedIn(o, Rehung(s, t, es)) = ContainedIn(o, es)
  <1>1. ASSUME NEW o \in Object, NEW x \in Object
        PROVE  [kind |-> "contained", source |-> o, target |-> x] \in Rehung(s, t, es)
                 <=> \/ o # s /\ [kind |-> "contained", source |-> o, target |-> x] \in es
                     \/ o = s /\ x = t
    <2>1. PICK f : f = [kind |-> "contained", source |-> o, target |-> x]
      OBVIOUS
    <2>2. f \in Edge /\ f.kind = "contained" /\ f.source = o /\ f.target = x
      BY <2>1 DEF Edge
    <2>3. f \in Rehung(s, t, es) <=> (o # s /\ f \in es) \/ (o = s /\ x = t)
      BY <2>2 DEF Rehung
    <2> QED
      BY <2>1, <2>3
  <1>2. ContainedIn(s, Rehung(s, t, es)) = {t} \ {None}
    <2>1. \A x \in Object : x \in ContainedIn(s, Rehung(s, t, es)) <=> x = t
      BY <1>1 DEF ContainedIn
    <2>2. ContainedIn(s, Rehung(s, t, es)) \subseteq Object
      BY DEF ContainedIn
    <2> QED
      BY <2>1, <2>2, NoneAssumption
  <1>3. ASSUME NEW o \in Object \ {s}
        PROVE  ContainedIn(o, Rehung(s, t, es)) = ContainedIn(o, es)
    BY <1>1 DEF ContainedIn
  <1> QED
    BY <1>2, <1>3

(* The edges are hung: the call found what it would have to put back.        *)
LEMMA MoveEdgesHung ==
    ASSUME IInv, Hung, NEW p \in Process, MoveEdges(p)
    PROVE  Hung'
  <1>1. PICK d : d = call[p]
    OBVIOUS
  <1>2. PICK c : c = [d EXCEPT !.at = "halfway"]
    OBVIOUS
  <1>3. /\ d.at = "move" /\ CanUndo(d) /\ edges' = d.after /\ UNCHANGED <<object, mixed>>
        /\ Overtake(p, "relationships", c)
    BY <1>1, <1>2 DEF MoveEdges, Fresh, CanUndo
  <1>4. d \in Call /\ d.subject \in Object /\ edges \in SUBSET Edge /\ d.will \in Objects
    BY <1>1, <1>3, Facts DEF Sound, Call
  <1>5. /\ c.at = "halfway" /\ c.subject = d.subject /\ c.will = d.will /\ c.before = d.before
        /\ c.after = d.after /\ c.stale = d.stale
    BY <1>2, <1>4 DEF Call
  <1>6. PICK s \in Object : s = d.subject
    BY <1>4
  <1>7. PICK t \in Object \cup {None} : t = d.will[s].container
    BY <1>4 DEF Objects
  <1>8. Known(d)
    BY <1>1 DEF Hung
  <1>9. d.before = edges /\ edges' = Rehung(s, t, edges)
    BY <1>3, <1>6, <1>7, <1>8 DEF Known
  <1>10. /\ ContainedIn(s, edges') = {t} \ {None}
         /\ \A o \in Object \ {s} : ContainedIn(o, edges') = ContainedIn(o, edges)
    <2>1. PICK es \in SUBSET Edge : es = edges
      BY <1>4
    <2>2. PICK fs : fs = Rehung(s, t, es)
      OBVIOUS
    <2>3. /\ ContainedIn(s, fs) = {t} \ {None}
          /\ \A o \in Object \ {s} : ContainedIn(o, fs) = ContainedIn(o, es)
      BY <2>2, RehungSays
    <2> QED
      BY <1>9, <2>1, <2>2, <2>3
  <1>11. "relationships" \in Collection
    BY DEF Collection
  <1>12. Turns(p, "relationships", c)
    BY <1>3, <1>11, OvertakeTurns
  <1>13. Known(c)'
    BY <1>3, <1>5, <1>6, <1>7, <1>9 DEF Known, Written
  <1>14. \A o : ~Between(d, o)
    BY <1>3 DEF Between
  <1>15. ASSUME NEW o \in Object \ {s}
         PROVE  Settles(o)'
    <2>1. Same(call[p], c, o)
      BY <1>1, <1>5, <1>6, <1>14 DEF Same, Between
    <2> QED
      BY <1>3, <1>10, <1>12, <2>1, SettlesKept DEF Hung
  <1>16. Settles(s)'
    <2>0. \A r \in Process \ {p} :
             /\ Between(call'[r], s) => Between(call[r], s) /\ ~CanUndo(call'[r])
             /\ Between(call[r], s) => Between(call'[r], s)
             /\ CanMove(call'[r]) => CanMove(call[r])
             /\ call'[r].will = call[r].will
      <3> TAKE r \in Process \ {p}
      <3>1. Between(call[r], s) => call[r].at # "idle"
        BY DEF Between
      <3> QED
        BY <1>12, <3>1, OthersKept DEF Turns
    <2>1. call'[p] = c /\ Between(c, s)
      BY <1>5, <1>6, <1>12 DEF Turns, Between
    <2>2. CASE GivenUp(s)
      <3>1. mixed \subseteq mixed' /\ CanUndo(call[p])
        BY <1>1, <1>3
      <3>2. GivenUp(s)'
        BY <1>12, <2>2, <3>1, GivenUpKept
      <3> QED
        BY <3>2 DEF Settles
    <2>3. CASE NobodyMoves(s) /\ OneMoves(s) /\ TwoMove(s)
      <3>1. NobodyMoves(s)'
        <4>1. ~Among({}, s)'
          BY <2>1 DEF Among, Between
        <4> QED
          BY <4>1 DEF NobodyMoves
      <3>2. ASSUME NEW q \in Process, Between(call'[q], s), Among({q}, s)'
            PROVE  /\ CanUndo(call'[q]) => ContainedIn(s, call'[q].before) = Into(s, object')
                   /\ CanMove(call'[q]) => ContainedIn(s, edges') = Into(s, call'[q].will)
        <4>1. q = p
          BY <2>1, <3>2 DEF Among, Between
        <4>2. Among({}, s)
          <5>1. \A r \in Process : Between(call[r], s) => r # p /\ Between(call'[r], s)
            BY <1>1, <1>14, <2>0
          <5>2. \A r \in Process : Between(call'[r], s) => r = q
            BY <3>2 DEF Among, Between
          <5> QED
            BY <4>1, <5>1, <5>2 DEF Among
        <4>3. ContainedIn(s, c.before) = Into(s, object')
          BY <1>3, <1>5, <1>9, <2>3, <4>2 DEF NobodyMoves, Into
        <4>4. ContainedIn(s, edges') = Into(s, c.will)
          BY <1>5, <1>7, <1>10 DEF Into
        <4> QED
          BY <2>1, <4>1, <4>3, <4>4
      <3>3. OneMoves(s)'
        BY <3>2 DEF OneMoves, Between, CanUndo, CanMove, ContainedIn, Into
      <3>4. ASSUME NEW q \in Process, NEW r \in Process, q # r,
                   Between(call'[q], s), Between(call'[r], s), Among({q, r}, s)',
                   CanMove(call'[q]), CanUndo(call'[r])
            PROVE  ContainedIn(s, call'[r].before) = Into(s, call'[q].will)
        <4>1. r = p /\ q # p
          BY <2>0, <3>4
        <4>2. Between(call[q], s) /\ CanMove(call[q]) /\ call'[q].will = call[q].will
          BY <2>0, <3>4, <4>1
        <4>3. Among({q}, s)
          <5>1. \A x \in Process : Between(call[x], s) => x # p /\ Between(call'[x], s)
            BY <1>1, <1>14, <2>0
          <5>2. \A x \in Process : Between(call'[x], s) => x \in {q, r}
            BY <3>4 DEF Among, Between
          <5> QED
            BY <4>1, <5>1, <5>2 DEF Among
        <4>4. ContainedIn(s, edges) = Into(s, call[q].will)
          BY <2>3, <4>2, <4>3 DEF OneMoves
        <4> QED
          BY <1>5, <1>9, <2>1, <4>1, <4>2, <4>4
      <3>5. TwoMove(s)'
        BY <3>4 DEF TwoMove, Between, CanUndo, CanMove, ContainedIn, Into
      <3> QED
        BY <3>1, <3>3, <3>5 DEF Settles
    <2> QED
      BY <2>2, <2>3 DEF Hung, Settles
  <1>17. \A o \in Object : Settles(o)'
    BY <1>15, <1>16
  <1>18. (\A r \in Process : Known(call[r])') /\ OneWriter'
    BY <1>3, <1>12, <1>13, KnownKept, WriterKept
  <1> QED
    BY <1>17, <1>18 DEF Hung

(* The roll-back: what was found is put back, and agrees with the Object, or *)
(* with what the one other call is going to write.                           *)
LEMMA UndoHung ==
    ASSUME IInv, Hung, NEW p \in Process, Undo(p)
    PROVE  Hung'
  <1>1. PICK d : d = call[p]
    OBVIOUS
  <1>2. /\ d.at = "undo" /\ CanUndo(d) /\ edges' = d.before /\ UNCHANGED <<object, mixed>>
        /\ Overtake(p, "relationships", Idle)
    BY <1>1 DEF Undo, Fresh, CanUndo
  <1>3. d \in Call /\ d.subject \in Object /\ d.before \in SUBSET Edge /\ d.will \in Objects
    BY <1>1, <1>2, Facts DEF Sound, Call
  <1>4. PICK s \in Object : s = d.subject
    BY <1>3
  <1>5. PICK t \in Object \cup {None} : t = d.will[s].container
    BY <1>3 DEF Objects
  <1>6. edges = Rehung(s, t, d.before)
    <2>1. Known(d)
      BY <1>1 DEF Hung
    <2> QED
      BY <1>2, <1>4, <1>5, <2>1 DEF Known, Written
  <1>7. \A o \in Object \ {s} : ContainedIn(o, edges') = ContainedIn(o, edges)
    <2>1. PICK es \in SUBSET Edge : es = d.before
      BY <1>3
    <2>2. PICK fs : fs = Rehung(s, t, es)
      OBVIOUS
    <2>3. /\ ContainedIn(s, fs) = {t} \ {None}
          /\ \A o \in Object \ {s} : ContainedIn(o, fs) = ContainedIn(o, es)
      BY <2>2, RehungSays
    <2> QED
      BY <1>2, <1>6, <2>1, <2>2, <2>3
  <1>8. "relationships" \in Collection /\ Idle.at = "idle"
    BY IdleSound DEF Collection
  <1>9. Turns(p, "relationships", Idle)
    BY <1>2, <1>8, OvertakeTurns
  <1>10. Known(Idle)'
    BY <1>8 DEF Known, Written
  <1>11. ASSUME NEW o \in Object \ {s}
         PROVE  Settles(o)'
    <2>1. Same(call[p], Idle, o)
      BY <1>1, <1>4, <1>8 DEF Same, Between
    <2> QED
      BY <1>2, <1>7, <1>9, <2>1, SettlesKept DEF Hung
  <1>12. Settles(s)'
    <2>0. \A r \in Process \ {p} :
             /\ Between(call'[r], s) => Between(call[r], s) /\ ~CanUndo(call'[r])
             /\ Between(call[r], s) => Between(call'[r], s)
             /\ CanMove(call'[r]) => CanMove(call[r])
             /\ call'[r].will = call[r].will
      <3> TAKE r \in Process \ {p}
      <3>1. Between(call[r], s) => call[r].at # "idle"
        BY DEF Between
      <3> QED
        BY <1>9, <3>1, OthersKept DEF Turns
    <2>1. Between(call[p], s) /\ CanUndo(call[p]) /\ ~Between(call'[p], s)
      BY <1>1, <1>2, <1>4, <1>8, <1>9 DEF Turns, Between
    <2>2. CASE GivenUp(s)
      <3>1. GivenUp(s)'
        BY <1>2, <1>9, <2>1, <2>2, GivenUpKept
      <3> QED
        BY <3>1 DEF Settles
    <2>3. CASE NobodyMoves(s) /\ OneMoves(s) /\ TwoMove(s)
      <3>1. ASSUME Among({}, s)'
            PROVE  ContainedIn(s, edges') = Into(s, object')
        <4>1. \A r \in Process : ~Between(call'[r], s)
          BY <3>1 DEF Among, Between
        <4>2. Among({p}, s)
          BY <2>0, <4>1 DEF Among
        <4>3. ContainedIn(s, d.before) = Into(s, object)
          BY <1>1, <2>1, <2>3, <4>2 DEF OneMoves
        <4> QED
          BY <1>2, <4>3 DEF Into
      <3>2. NobodyMoves(s)'
        BY <3>1 DEF NobodyMoves, ContainedIn, Into
      <3>3. ASSUME NEW q \in Process, Between(call'[q], s), Among({q}, s)'
            PROVE  /\ CanUndo(call'[q]) => ContainedIn(s, call'[q].before) = Into(s, object')
                   /\ CanMove(call'[q]) => ContainedIn(s, edges') = Into(s, call'[q].will)
        <4>1. q # p
          BY <2>1, <3>3
        <4>2. ~CanUndo(call'[q]) /\ Between(call[q], s) /\ call'[q].will = call[q].will
              /\ (CanMove(call'[q]) => CanMove(call[q]))
          BY <2>0, <3>3, <4>1
        <4>3. Among({q, p}, s)
          <5>1. \A r \in Process : Between(call'[r], s) => r = q
            BY <3>3 DEF Among, Between
          <5> QED
            BY <2>0, <5>1 DEF Among
        <4>4. CanMove(call[q]) => ContainedIn(s, d.before) = Into(s, call[q].will)
          BY <1>1, <2>1, <2>3, <4>1, <4>2, <4>3 DEF TwoMove
        <4> QED
          BY <1>2, <4>2, <4>4
      <3>4. OneMoves(s)'
        BY <3>3 DEF OneMoves, Between, CanUndo, CanMove, ContainedIn, Into
      <3>5. \A r \in Process : Between(call'[r], s) => ~CanUndo(call'[r])
        BY <2>0, <2>1
      <3>6. TwoMove(s)'
        BY <3>5 DEF TwoMove, Between, CanUndo, CanMove, ContainedIn, Into
      <3> QED
        BY <3>2, <3>4, <3>6 DEF Settles
    <2> QED
      BY <2>2, <2>3 DEF Hung, Settles
  <1>13. \A o \in Object : Settles(o)'
    BY <1>11, <1>12
  <1>14. (\A r \in Process : Known(call[r])') /\ OneWriter'
    BY <1>2, <1>9, <1>10, KnownKept, WriterKept
  <1> QED
    BY <1>13, <1>14 DEF Hung


(* The Object is written as the edges say, or as the one other call, which   *)
(* has no way left but back, has found them.                                 *)
LEMMA MoveObjectsHung ==
    ASSUME IInv, Hung, NEW p \in Process, MoveObjects(p)
    PROVE  Hung'
  <1>1. PICK d : d = call[p]
    OBVIOUS
  <1>2. PICK c : c = [Idle EXCEPT !.at = "announce", !.rebuilds = TRUE]
    OBVIOUS
  <1>3. /\ d.at = "halfway" /\ CanMove(d) /\ object' = d.will /\ UNCHANGED <<edges, mixed>>
        /\ "objects" \notin d.stale /\ Overtake(p, "objects", c)
    BY <1>1, <1>2 DEF MoveObjects, Fresh, CanMove
  <1>4. d \in Call /\ d.subject \in Object /\ object \in Objects /\ c.at = "announce"
    BY <1>1, <1>2, <1>3, Facts, IdleSound DEF Sound, Call
  <1>5. PICK s \in Object : s = d.subject
    BY <1>4
  <1>6. OneMove(s, object, d.will)
    BY <1>1, <1>3, <1>5, Facts DEF Current
  <1>7. \A o \in Object \ {s} : object'[o].container = object[o].container
    BY <1>3, <1>4, <1>6 DEF OneMove, Objects
  <1>8. "objects" \in Collection
    BY DEF Collection
  <1>9. Turns(p, "objects", c)
    BY <1>3, <1>8, OvertakeTurns
  <1>10. Known(c)' /\ c.at \notin Written
    BY <1>4 DEF Known, Written
  <1>11. ASSUME NEW o \in Object \ {s}
         PROVE  Settles(o)'
    <2>1. Same(call[p], c, o)
      BY <1>1, <1>4, <1>5 DEF Same, Between
    <2> QED
      BY <1>3, <1>7, <1>9, <2>1, SettlesKept DEF Hung
  <1>12. Settles(s)'
    <2>0. \A r \in Process \ {p} :
             /\ Between(call'[r], s) => Between(call[r], s) /\ ~CanMove(call'[r])
             /\ Between(call[r], s) => Between(call'[r], s)
             /\ CanUndo(call'[r]) => CanUndo(call[r])
             /\ call'[r].before = call[r].before
      <3> TAKE r \in Process \ {p}
      <3>1. Between(call[r], s) => call[r].at # "idle"
        BY DEF Between
      <3> QED
        BY <1>9, <3>1, OthersKept DEF Turns
    <2>1. Between(call[p], s) /\ CanMove(call[p]) /\ ~Between(call'[p], s)
      BY <1>1, <1>3, <1>4, <1>5, <1>9 DEF Turns, Between
    <2>2. CASE GivenUp(s)
      <3>1. mixed \subseteq mixed'
        BY <1>3
      <3>2. GivenUp(s)'
        BY <1>9, <2>1, <2>2, <3>1, GivenUpKept
      <3> QED
        BY <3>2 DEF Settles
    <2>3. CASE NobodyMoves(s) /\ OneMoves(s) /\ TwoMove(s)
      <3>1. ASSUME Among({}, s)'
            PROVE  ContainedIn(s, edges') = Into(s, object')
        <4>1. \A r \in Process : ~Between(call'[r], s)
          BY <3>1 DEF Among, Between
        <4>2. Among({p}, s)
          BY <2>0, <4>1 DEF Among
        <4>3. ContainedIn(s, edges) = Into(s, d.will)
          BY <1>1, <2>1, <2>3, <4>2 DEF OneMoves
        <4> QED
          BY <1>3, <4>3
      <3>2. NobodyMoves(s)'
        BY <3>1 DEF NobodyMoves, ContainedIn, Into
      <3>3. ASSUME NEW q \in Process, Between(call'[q], s), Among({q}, s)'
            PROVE  /\ CanUndo(call'[q]) => ContainedIn(s, call'[q].before) = Into(s, object')
                   /\ CanMove(call'[q]) => ContainedIn(s, edges') = Into(s, call'[q].will)
        <4>1. q # p
          BY <2>1, <3>3
        <4>2. ~CanMove(call'[q]) /\ Between(call[q], s) /\ call'[q].before = call[q].before
              /\ (CanUndo(call'[q]) => CanUndo(call[q]))
          BY <2>0, <3>3, <4>1
        <4>3. Among({p, q}, s)
          <5>1. \A r \in Process : Between(call'[r], s) => r = q
            BY <3>3 DEF Among, Between
          <5> QED
            BY <2>0, <5>1 DEF Among
        <4>4. CanUndo(call[q]) => ContainedIn(s, call[q].before) = Into(s, d.will)
          BY <1>1, <2>1, <2>3, <4>1, <4>2, <4>3 DEF TwoMove
        <4> QED
          BY <1>3, <4>2, <4>4
      <3>4. OneMoves(s)'
        BY <3>3 DEF OneMoves, Between, CanUndo, CanMove, ContainedIn, Into
      <3>5. \A r \in Process : Between(call'[r], s) => ~CanMove(call'[r])
        BY <2>0, <2>1
      <3>6. TwoMove(s)'
        BY <3>5 DEF TwoMove, Between, CanUndo, CanMove, ContainedIn, Into
      <3> QED
        BY <3>2, <3>4, <3>6 DEF Settles
    <2> QED
      BY <2>2, <2>3 DEF Hung, Settles
  <1>13. \A o \in Object : Settles(o)'
    BY <1>11, <1>12
  <1>14. (\A r \in Process : Known(call[r])') /\ OneWriter'
    BY <1>3, <1>9, <1>10, KnownKept, WriterKept
  <1> QED
    BY <1>13, <1>14 DEF Hung

LEMMA ContainmentCallsHung ==
    ASSUME IInv, Hung, NEW p \in Process, ContainmentCall(p)
    PROVE  Hung'
  <1>0. call[p] \in Call /\ Sound(call[p])
    BY Facts
  <1>1. ASSUME NEW o, NEW new, Begin(p, [Idle EXCEPT !.at = "moving", !.subject = o, !.will = new])
        PROVE  Hung'
    <2>1. PICK c : c = [Idle EXCEPT !.at = "moving", !.subject = o, !.will = new]
      OBVIOUS
    <2>2. c.at \in Loose
      BY <2>1, IdleSound DEF Call, Loose
    <2>3. Turns(p, "nothing", c) /\ UNCHANGED <<object, edges, mixed>> /\ call[p].at = "idle"
      BY <1>1, <2>1, CallTurns DEF Begin
    <2> QED
      BY <2>2, <2>3, LooseStep
  <1>2. CASE \E o \in Object : RemoveObject(p, o) \/ \E c \in Container : PlaceObject(p, o, c)
    BY <1>1, <1>2 DEF RemoveObject, PlaceObject
  <1>3. CASE MoveRead(p)
    <2>1. PICK d : d = call[p]
      OBVIOUS
    <2>2. PICK es : es = edges
      OBVIOUS
    <2>3. PICK fs : fs = Rehung(d.subject, d.will[d.subject].container, es)
      OBVIOUS
    <2>4. PICK c : c = [d EXCEPT !.at = "move", !.before = es, !.after = fs,
                                 !.stale = @ \ {"relationships"}]
      OBVIOUS
    <2>5. /\ d.at = "moving" /\ call' = [call EXCEPT ![p] = c]
          /\ UNCHANGED <<object, edges, mixed>>
      BY <1>3, <2>1, <2>2, <2>3, <2>4 DEF MoveRead
    <2>6. /\ c.at = "move" /\ c.subject = d.subject /\ c.will = d.will
          /\ c.before = es /\ c.after = fs
      BY <1>0, <2>1, <2>4 DEF Call
    <2>7. Turns(p, "nothing", c)
      BY <2>5, CallTurns
    <2>8. Known(c)' /\ c.at \notin Written
      BY <2>2, <2>3, <2>5, <2>6 DEF Known, Written
    <2>9. \A o \in Object : Same(call[p], c, o)
      BY <2>1, <2>5, <2>6 DEF Same, Between
    <2> QED
      BY <2>5, <2>7, <2>8, <2>9, QuietStep
  <1>4. CASE MoveFails(p)
    <2>1. PICK d : d = call[p]
      OBVIOUS
    <2>2. PICK c : c = [d EXCEPT !.at = "undo"]
      OBVIOUS
    <2>3. /\ d.at = "halfway" /\ call' = [call EXCEPT ![p] = c]
          /\ UNCHANGED <<object, edges, mixed>>
      BY <1>4, <2>1, <2>2 DEF MoveFails, Goto
    <2>4. /\ c.at = "undo" /\ c.subject = d.subject /\ c.will = d.will
          /\ c.before = d.before /\ c.after = d.after /\ c.stale = d.stale
      BY <1>0, <2>1, <2>2 DEF Call
    <2>5. Turns(p, "nothing", c)
      BY <2>3, CallTurns
    <2>6. Known(d)
      BY <2>1 DEF Hung
    <2>7. Known(c)'
      BY <2>3, <2>4, <2>6 DEF Known, Written, CanUndo
    <2>8. \A o \in Object : Same(call[p], c, o)
      BY <2>1, <2>3, <2>4 DEF Same, Between, CanUndo, CanMove
    <2>9. CanUndo(c) => call[p].at \in Written /\ CanUndo(call[p])
      BY <2>1, <2>3, <2>4 DEF CanUndo, Written
    <2> QED
      BY <2>3, <2>5, <2>7, <2>8, <2>9, QuietStep
  <1> QED
    BY <1>2, <1>3, <1>4, MoveEdgesHung, MoveObjectsHung, UndoHung DEF ContainmentCall

LEMMA OtherCallsHung ==
    ASSUME IInv, Hung, NEW p \in Process, ObjectCall(p) \/ Rebuild(p) \/ Stop(p)
    PROVE  Hung'
  <1>0. /\ call[p] \in Call /\ Sound(call[p]) /\ Current(call[p]) /\ object \in Objects
        /\ Idle \in Call /\ Idle.at = "idle"
    BY Facts, IdleSound
  <1>1. ASSUME NEW c, c.at \in Loose, call' = [call EXCEPT ![p] = c],
               UNCHANGED <<object, edges>>, mixed \subseteq mixed',
               call[p].at \in {"halfway", "undo"} => call[p].subject \in mixed'
        PROVE  Hung'
    <2>1. Turns(p, "nothing", c)
      BY <1>1, CallTurns
    <2> QED
      BY <1>1, <2>1, LooseStep
  <1>2. ASSUME NEW o, NEW new, NEW b,
               Begin(p, [Idle EXCEPT !.at = "change", !.rebuilds = b, !.subject = o, !.will = new])
        PROVE  Hung'
    <2>1. PICK c : c = [Idle EXCEPT !.at = "change", !.rebuilds = b, !.subject = o, !.will = new]
      OBVIOUS
    <2>2. c.at \in Loose
      BY <1>0, <2>1 DEF Call, Loose
    <2> QED
      BY <1>1, <1>2, <2>1, <2>2 DEF Begin
  <1>3. CASE \E o \in Object : DeleteObject(p, o) \/ RestoreObject(p, o) \/ EditObject(p, o)
    BY <1>2, <1>3 DEF DeleteObject, RestoreObject, EditObject
  <1>4. CASE WriteObjects(p)
    <2>1. PICK d : d = call[p]
      OBVIOUS
    <2>2. PICK c : c = [Idle EXCEPT !.at = "announce", !.rebuilds = d.rebuilds]
      OBVIOUS
    <2>3. /\ d.at = "change" /\ "objects" \notin d.stale /\ object' = d.will
          /\ Overtake(p, "objects", c) /\ UNCHANGED <<edges, mixed>>
      BY <1>4, <2>1, <2>2 DEF WriteObjects, Fresh
    <2>4. c.at \in Loose /\ "objects" \in Collection
      BY <1>0, <2>2 DEF Call, Loose, Collection
    <2>5. OneStatus(d.subject, object, d.will)
      BY <1>0, <2>1, <2>3 DEF Current
    <2>6. ASSUME NEW o \in Object
          PROVE  object'[o].container = object[o].container
      <3>1. CASE \E b : d.will = [object EXCEPT ![d.subject].active = b]
        <4>1. PICK b : object' = [object EXCEPT ![d.subject].active = b]
          BY <2>3, <3>1
        <4>2. object[o] \in [active : BOOLEAN, container : Object \cup {None}]
          BY <1>0 DEF Objects
        <4>3. object'[o] = IF o = d.subject THEN [object[o] EXCEPT !.active = b]
                           ELSE object[o]
          BY <1>0, <4>1 DEF Objects
        <4> QED
          BY <4>2, <4>3
      <3>2. CASE d.will = object
        BY <2>3, <3>2
      <3> QED
        BY <2>5, <3>1, <3>2 DEF OneStatus
    <2>7. Turns(p, "objects", c)
      BY <2>3, <2>4, OvertakeTurns
    <2> QED
      BY <2>1, <2>3, <2>4, <2>6, <2>7, LooseStep
  <1>5. ASSUME call' = [call EXCEPT ![p] = [Idle EXCEPT !.at = "derive"]],
               call[p].at \notin {"halfway", "undo"}, UNCHANGED <<object, edges, mixed>>
        PROVE  Hung'
    <2>1. PICK c : c = [Idle EXCEPT !.at = "derive"]
      OBVIOUS
    <2>2. c.at \in Loose
      BY <1>0, <2>1 DEF Call, Loose
    <2> QED
      BY <1>1, <1>5, <2>1, <2>2
  <1>6. ASSUME End(p), call[p].at \notin {"halfway", "undo"}, UNCHANGED <<object, edges, mixed>>
        PROVE  Hung'
    <2>1. PICK c : c = Idle
      OBVIOUS
    <2>2. c.at \in Loose
      BY <1>0, <2>1 DEF Loose
    <2>3. call' = [call EXCEPT ![p] = c] /\ mixed \subseteq mixed'
      BY <1>6, <2>1 DEF End
    <2> QED
      BY <1>1, <1>6, <2>2, <2>3
  <1>7. CASE Announce(p)
    BY <1>5, <1>6, <1>7 DEF Announce
  <1>8. CASE Assure(p)
    BY <1>5, <1>8 DEF Assure
  <1>9. CASE DeriveRead(p)
    <2>1. PICK c : c = [call[p] EXCEPT !.at = "derived", !.was = object]
      OBVIOUS
    <2>2. c.at \in Loose
      BY <1>0, <2>1 DEF Call, Loose
    <2> QED
      BY <1>1, <1>9, <2>1, <2>2 DEF DeriveRead
  <1>10. CASE ProjectionsRead(p)
    <2>1. PICK c : c = [call[p] EXCEPT !.at = "project", !.stale = @ \ {"projections"}]
      OBVIOUS
    <2>2. c.at \in Loose
      BY <1>0, <2>1 DEF Call, Loose
    <2> QED
      BY <1>1, <1>10, <2>1, <2>2 DEF ProjectionsRead
  <1>11. CASE WriteProjections(p)
    <2>1. call[p].at = "project" /\ UNCHANGED <<object, edges, mixed>>
      BY <1>11 DEF WriteProjections
    <2>2. CASE Overtake(p, "projections", Idle)
      <3>1. "projections" \in Collection /\ Idle.at \in Loose
        BY <1>0 DEF Collection, Loose
      <3>2. Turns(p, "projections", Idle)
        BY <2>2, <3>1, OvertakeTurns
      <3> QED
        BY <2>1, <3>1, <3>2, LooseStep
    <2> QED
      BY <1>6, <1>11, <2>1, <2>2 DEF WriteProjections
  <1>12. CASE Stop(p)
    <2>1. /\ call' = [call EXCEPT ![p] = Idle] /\ UNCHANGED <<object, edges>>
          /\ mixed \subseteq mixed'
          /\ call[p].at \in {"halfway", "undo"} => call[p].subject \in mixed'
      BY <1>12 DEF Stop, End
    <2>2. PICK c : c = Idle
      OBVIOUS
    <2>3. c.at \in Loose /\ call' = [call EXCEPT ![p] = c]
      BY <1>0, <2>1, <2>2 DEF Loose
    <2> QED
      BY <1>1, <2>1, <2>3
  <1> QED
    BY <1>3, <1>4, <1>7, <1>8, <1>9, <1>10, <1>11, <1>12 DEF ObjectCall, Rebuild

LEMMA HungInitially == Init => Hung
  <1> SUFFICES ASSUME Init PROVE Hung
    OBVIOUS
  <1>1. \A p \in Process : call[p].at = "idle"
    BY IdleSound DEF Init
  <1>2. (\A p \in Process : Known(call[p])) /\ OneWriter
    BY <1>1 DEF Known, Written, OneWriter
  <1>3. ASSUME NEW o \in Object
        PROVE  Settles(o)
    <2>1. \A p \in Process : ~Between(call[p], o)
      BY <1>1 DEF Between
    <2>2. ContainedIn(o, edges) = {} /\ Into(o, object) = {}
      BY DEF Init, ContainedIn, Into, Blank
    <2>3. NobodyMoves(o)
      BY <2>2 DEF NobodyMoves
    <2>4. OneMoves(o) /\ TwoMove(o)
      BY <2>1 DEF OneMoves, TwoMove
    <2> QED
      BY <2>3, <2>4 DEF Settles
  <1> QED
    BY <1>2, <1>3 DEF Hung

LEMMA HungKept == IInv /\ Hung /\ [Next]_vars => Hung'
  <1> SUFFICES ASSUME IInv, Hung, [Next]_vars PROVE Hung'
    OBVIOUS
  <1>1. ASSUME NEW p \in Process,
               EdgeCall(p) \/ ContainmentCall(p) \/ ObjectCall(p) \/ Rebuild(p) \/ Stop(p)
        PROVE  Hung'
    BY <1>1, EdgeCallsHung, ContainmentCallsHung, OtherCallsHung
  <1>2. CASE UNCHANGED vars
    BY <1>2 DEF vars, Hung, Known, OneWriter, Settles, GivenUp, NobodyMoves, OneMoves, TwoMove,
                Among, Between, CanUndo, CanMove, ContainedIn, Into
  <1> QED
    BY <1>1, <1>2 DEF Next

(* An Object's directContainerId and its active containment edges name the   *)
(* same container, however placements, removals, roll-backs and other writes *)
(* of several processes interleave, except between the two writes of a call  *)
(* and after one has stopped there.                                          *)
THEOREM ContainmentStaysAgreed == Spec => []ContainmentAgrees
  <1>1. Init => IInv /\ Hung
    BY InitHolds, HungInitially
  <1>2. IInv /\ Hung /\ [Next]_vars => (IInv /\ Hung)'
    BY NextKeeps, HungKept
  <1>3. Hung => ContainmentAgrees
    <2> SUFFICES ASSUME Hung, NEW o \in Object, o \notin mixed,
                        \A p \in Process : ~Between(call[p], o)
                 PROVE  ContainedIn(o, edges) = {object[o].container} \ {None}
      BY DEF ContainmentAgrees, Between
    <2>1. NobodyMoves(o) /\ Among({}, o)
      BY DEF Hung, Settles, GivenUp, Among
    <2> QED
      BY <2>1 DEF NobodyMoves, Into
  <1> QED
    BY <1>1, <1>2, <1>3, PTL DEF Spec

=============================================================================
