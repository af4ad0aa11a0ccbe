----------------------------- MODULE MCIrTables -----------------------------
(***************************************************************************)
(* What every edit of a module has to keep in step: its functions, here    *)
(* without workers and loaded with a name that a split would take, and the *)
(* operands and use lists of a function.  An initial state is about one of *)
(* them, and the other one takes no step.                                  *)
(***************************************************************************)
EXTENDS FunctionStorage, UseLists, TLC

CONSTANTS o1, o2, o3, o4, i1, i2, b1, b2, p1

VARIABLE edited

MCObjects   == {o1, o2, o3, o4}
MCStart     == << << <<"f", 0>> >>, << <<"f", 0>>, <<".rest", 0>> >> >>
MCInstrs    == {i1, i2}
MCBlocks    == {b1, b2}
MCBlockArgs == {p1}

Symmetry == Permutations(MCObjects) \cup Permutations(MCInstrs) \cup Permutations(MCBlocks)

NoFunctions ==
  /\ map = <<>> /\ order = <<>> /\ name = [o \in Objects |-> <<>>]
  /\ pass = "none" /\ todo = <<>> /\ due = {} /\ jobs = {}
  /\ vec = [t \in Runners |-> Idle] /\ unique = 0 /\ ran = 0 /\ failed = FALSE

TablesInit ==
  /\ UsesInit
  /\ \/ edited = "operands" /\ NoFunctions
     \/ edited = "functions" /\ Init

TablesNext ==
  \/ edited = "operands" /\ UsesNext /\ UNCHANGED <<edited, vars>>
  \/ edited = "functions" /\ Next /\ UNCHANGED <<edited, usesVars>>

TablesSpec == TablesInit /\ [][TablesNext]_<<edited, vars, usesVars>>

=============================================================================
