----------------------------- MODULE FlowGraph ------------------------------
(***************************************************************************)
(* The control flow graph of a FIR function (optim/analysis/cfg.hpp) and   *)
(* what the analyses over it are meant to say, defined over paths.  A      *)
(* graph is the sequence of its blocks, each the sequence of the targets   *)
(* of its terminator; block 1 is the entry.  A block without targets       *)
(* returns.                                                                *)
(***************************************************************************)
EXTENDS Naturals, Sequences, FiniteSets, SequencesExt, FiniteSetsExt

Entry == 1
Blocks(succ) == DOMAIN succ
Ascending(S) == SetToSortSeq(S, <)

\* CFG::update: the predecessors in block order, one for each edge.
Preds(succ) ==
  [b \in Blocks(succ) |->
     FlattenSeq([f \in Blocks(succ) |->
       [i \in DOMAIN SelectSeq(succ[f], LAMBDA t : t = b) |-> f]])]

\* The blocks on paths that start in from and never enter a block of without.
Reach(succ, from, without) ==
  LET Steps[i \in 0 .. Len(succ)] ==
        IF i = 0 THEN from \ without
        ELSE Steps[i - 1] \cup (UNION {Range(succ[b]) : b \in Steps[i - 1]} \ without)
  IN  Steps[Len(succ)]

Reachable(succ) == Reach(succ, {Entry}, {})

\* Every path from the entry to b goes through a; nothing else is said of
\* blocks that no path reaches.
PathDominates(succ, a, b) == a = b \/ b \notin Reach(succ, {Entry}, {a})

\* The blocks where the dominance of a ends: it dominates a predecessor, and
\* not, or not strictly, the block itself.
PathFrontier(succ, a) ==
  {b \in Reachable(succ) :
     /\ \E p \in Reachable(succ) : b \in Range(succ[p]) /\ PathDominates(succ, a, p)
     /\ a = b \/ ~PathDominates(succ, a, b)}
=============================================================================
