------------------------ MODULE MCRuntimeConnection ------------------------
(* RuntimeConnection for TLC: one thread or two, with two drawers and two  *)
(* allocations.                                                            *)
EXTENDS RuntimeConnection, TLC

MCSetStates == {"AVAILABLE", "OUT_OF_STOCK"}

Symmetry == Permutations(Threads) \cup Permutations(Slots)
                                  \cup Permutations(AllocIds)
=============================================================================
