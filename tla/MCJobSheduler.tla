--------------------------- MODULE MCJobSheduler ---------------------------
(* An instance of JobSheduler for TLC. *)
EXTENDS JobSheduler

CONSTANTS w1, w2, main, j1, c1
=============================================================================
