------------------------- MODULE CreationCommandMC --------------------------
(* A small instance of CreationCommand: three requests, two identifiers, and *)
(* three faults.  Requests and identifiers are interchangeable, but the run  *)
(* checks liveness, so no symmetry is used.                                  *)
EXTENDS CreationCommand
=============================================================================
