----------------------------- MODULE MCModelPool -----------------------------
(* Small instances of ModelPool for TLC.                                    *)
EXTENDS ModelPool, TLC

Symmetry == Permutations(Reqs)
==============================================================================
