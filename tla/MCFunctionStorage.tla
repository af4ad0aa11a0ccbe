------------------------- MODULE MCFunctionStorage -------------------------
(* A small instance of FunctionStorage with workers. *)
EXTENDS FunctionStorage, TLC

CONSTANTS o1, o2, o3, o4, w1, w2

MCObjects == {o1, o2, o3, o4}
\* The loaded module already has a function with the name a split would take.
MCStart == << << <<"f", 0>> >>, << <<"f", 0>>, <<".rest", 0>> >> >>
MCWorkers == {w1, w2}
Symm == Permutations(MCObjects)
=============================================================================
