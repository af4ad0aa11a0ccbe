---------------------------- MODULE MCInternTable ----------------------------
(* A small instance of InternTable: a and b have one hash and c the next, so   *)
(* all three share a chain and one entry of the cache.                         *)
EXTENDS InternTable, TLC

CONSTANTS a, b, c

MCHashOf  == (a :> 0) @@ (b :> 0) @@ (c :> 1)
MCShardOf == (0 :> 0) @@ (1 :> 0)
MCCacheOf == (0 :> 0) @@ (1 :> 0)

Symmetry == Permutations(Threads) \cup Permutations(Slots)
=============================================================================
