-------------------------- MODULE FreightOrdersMC --------------------------
(* A small instance of FreightOrders: one order, two requests, one command   *)
(* of a client of the movement endpoints.                                    *)
EXTENDS FreightOrders, TLC

Symmetry == Permutations(Request)
=============================================================================
