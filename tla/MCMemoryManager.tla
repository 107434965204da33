--------------------------- MODULE MCMemoryManager ---------------------------
(* MemoryManager over a handful of MiB.                                    *)
EXTENDS MemoryManager, TLC

Symmetry == Permutations(Actors)
==============================================================================
