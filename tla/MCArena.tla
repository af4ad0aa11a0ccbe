------------------------------- MODULE MCArena -------------------------------
(* Two threads, one the caller of parallel_for, and a seed. *)
EXTENDS Arena, TLC

Symmetric == Permutations(Threads) \cup Permutations(Slots)
=============================================================================
