--------------------------- MODULE MCSlotRuntime ---------------------------
(* SlotRuntime for TLC: two lockers, one drawer each. *)
EXTENDS SlotRuntime, TLC

Symmetry == Permutations(Machines) \cup Permutations(Slots)
                                   \cup Permutations(AllocIds)
=============================================================================
