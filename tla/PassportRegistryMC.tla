------------------------- MODULE PassportRegistryMC -------------------------
(* Small instances of PassportRegistry.  IDs, sources and the processes that  *)
(* serve requests are interchangeable.                                        *)
EXTENDS PassportRegistry, TLC

Symmetry == Permutations(Id) \cup Permutations(Source)
            \cup Permutations(Process \ Claimant)
=============================================================================
