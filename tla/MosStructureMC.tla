--------------------------- MODULE MosStructureMC ---------------------------
(* A small instance of MosStructure: two processes, three Objects of which   *)
(* two can contain others.                                                   *)
EXTENDS MosStructure, TLC

Symmetry == Permutations(Process) \cup Permutations(Container)
=============================================================================
