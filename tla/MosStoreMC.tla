----------------------------- MODULE MosStoreMC -----------------------------
(* A small instance of MosStore for TLC: two processes, the API server and   *)
(* an ops tool; one audited and one unaudited collection.  Processes and     *)
(* entries are interchangeable.                                              *)
EXTENDS MosStore, TLC

Symmetry == Permutations(Process) \cup Permutations(Entry)
=============================================================================
