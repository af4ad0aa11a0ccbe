----------------------------- MODULE MCStableVec -----------------------------
(* Instances of StableVec for TLC: small slabs, so that push_back both splits *)
(* ranges and allocates a second slab.                                        *)
EXTENDS StableVec, TLC
Symmetry == Permutations(Threads) \cup Permutations(Objs)
=============================================================================
