--------------------------- MODULE StructuralGraph ---------------------------
(***************************************************************************)
(* Directed graphs over Objects: the cycle check that precedes a structural *)
(* edge (relationshipService.js) or a placement in a container              *)
(* (containerService.js).  A graph is its set of edges, pairs of nodes.     *)
(* Reachability is stated with closed sets instead of paths, so that it can *)
(* be both evaluated and reasoned about without recursion.                  *)
(***************************************************************************)
CONSTANT Object       \* the nodes

Graph == SUBSET (Object \X Object)

Closed(E, C) == \A e \in E : e[1] \in C => e[2] \in C

(* b is among the nodes a walk along E visits from a, a itself included.    *)
Reaches(E, a, b) == \A C \in SUBSET Object : a \in C /\ Closed(E, C) => b \in C

(* Every set of nodes has one without an edge into the set: no cycle.       *)
Acyclic(E) ==
    \A S \in SUBSET Object : S # {} => \E x \in S : \A y \in S : <<x, y>> \notin E
=============================================================================
