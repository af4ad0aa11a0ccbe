------------------------------- MODULE MCFlow -------------------------------
(***************************************************************************)
(* The analyses of one function on a small instance: every graph of up to  *)
(* three blocks for the dominators, and the shapes that make phi placement *)
(* hard for memory SSA and for mem2reg, which run on the same graph but    *)
(* never together.                                                         *)
(***************************************************************************)
EXTENDS MemorySSA, Mem2Reg

Upto2(n) == {<<>>} \cup {<<a>> : a \in 1 .. n} \cup {<<a, b>> : a, b \in 1 .. n}
Sorted2(n) == {t \in Upto2(n) : Len(t) = 2 => t[1] < t[2]}

\* A diamond in a loop, two nested loops, an irreducible loop entered at both
\* of its blocks, an irreducible loop with a way around it, a switch that names
\* one block twice, a block nothing reaches that jumps into a join.
DiamondInLoop == <<<<2>>, <<3, 4>>, <<5>>, <<5>>, <<2>>>>
NestedLoops   == <<<<2>>, <<3>>, <<3, 4>>, <<2, 5>>, <<>>>>
Irreducible   == <<<<2, 3>>, <<3, 4>>, <<2>>, <<>>>>
WayAround     == <<<<2, 3>>, <<4>>, <<2, 4>>, <<3>>>>
SwitchTwice   == <<<<2, 3>>, <<4, 4>>, <<4>>, <<>>>>
DeadJump      == <<<<2, 3>>, <<3>>, <<>>, <<3>>>>
Shapes == {DiamondInLoop, NestedLoops, Irreducible, WayAround, SwitchTwice, DeadJump}

Small == [1 .. 3 -> Upto2(3)] \cup [1 .. 2 -> Upto2(2)] \cup [1 .. 1 -> Upto2(1)]
\* The ones code is put into: all blocks are reached and paths meet somewhere.
SmallCode ==
  {g \in [1 .. 3 -> Sorted2(3)] :
     /\ Reachable(g) = 1 .. 3 /\ 2 \in Range(g[1])
     /\ \E b \in 1 .. 3 : Len(Preds(g)[b]) > 1}

MCGraphs == Small \cup Shapes
MCCodes ==
  [g \in MCGraphs |->
     IF g \in SmallCode \cup {DeadJump}
     THEN {c \in [DOMAIN g -> {<<>>, <<"store">>, <<"other">>}] :
             Cardinality({b \in DOMAIN g : c[b] = <<"other">>}) <= 1}
     ELSE IF g \in Shapes
     THEN {c \in [DOMAIN g -> {<<>>, <<"store">>, <<"load", "other">>}] :
             /\ c[1] = <<>>
             /\ Cardinality({b \in DOMAIN g : c[b] = <<"load", "other">>}) <= 1
             /\ Len(g) = 5 => Cardinality({b \in DOMAIN g : c[b] # <<>>}) <= 2}
     ELSE {}]
\* Slots are promoted in functions no edge leads back to the entry of: what is
\* loaded has none, and TailRecElim puts a new entry before its loop.
MCStatements ==
  [g \in MCGraphs |->
     IF Preds(g)[Entry] # <<>> THEN {}
     ELSE IF g \in SmallCode
     THEN [DOMAIN g -> {<<>>, <<"store">>, <<"load">>, <<"load", "store">>}]
     ELSE IF g \in Shapes
     THEN {c \in [DOMAIN g -> {<<>>, <<"store">>, <<"load">>}] : c[1] # <<"load">>}
     ELSE {}]

Vars == <<domVars, ssaVars, m2rVars>>
Init == DomInit /\ SsaInit /\ M2rInit
Next ==
  \/ DomNext /\ UNCHANGED <<ssaVars, m2rVars>>
  \/ SsaNext /\ step = "idle" /\ UNCHANGED m2rVars
  \/ M2rNext /\ build = "idle" /\ UNCHANGED ssaVars

\* The three claims about dominators, once for each graph: the analyses that
\* use the tree leave it alone.
DominatorsAgreeWithPaths ==
  (build = "idle" /\ step = "idle") =>
    DominatesIsDominance /\ CommonDenomIsNearest /\ FrontierIsFrontier

\* Memory SSA as built: the states are right and verify has nothing to object.
BuiltRight == StatesReach /\ VerifyAccepts

Spec == Init /\ [][Next]_Vars /\ WF_Vars(DomNext /\ UNCHANGED <<ssaVars, m2rVars>>)
=============================================================================
