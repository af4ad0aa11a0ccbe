-------------------------- MODULE MCRegAllocSolver --------------------------
(* Small instances of RegAllocSolver for TLC: graphs of three virtual          *)
(* registers and two precoloured ones, dense enough that no degree is low.     *)
EXTENDS RegAllocSolver, TLC

MCNodes  == 1 .. 5
Virtual  == 1 .. 3
MCDomain == [n \in MCNodes |-> IF n \in Virtual THEN 0 .. 2 ELSE {n - 3}]

\* The first two virtual registers may be copied twice; the precoloured ones do
\* not touch each other, and nothing is copied to the last.
Kinds(p) == IF p = <<4, 5>> THEN {"none"}
            ELSE IF p[2] = 5 THEN {"none", "interfere"}
            ELSE {"none", "interfere", IF p = <<1, 2>> THEN "copies" ELSE "copy"}
\* At most MaxCopies copies, which coalesce_copies may see in any order.
MaxCopies == 2
IsCopy(k) == k \in {"copy", "copies"}
Among(n)  == {p \in Pairs : p[2] = n}
Few(k)    == Cardinality({p \in DOMAIN k : IsCopy(k[p])}) <= MaxCopies
KindsOn(S) == {k \in [S -> {"none", "interfere", "copy", "copies"}] :
                 Few(k) /\ \A p \in S : k[p] \in Kinds(p)}
MCEdgeKinds == {k \in {a @@ b @@ c : a \in KindsOn(Among(2) \cup Among(3)),
                                     b \in KindsOn(Among(4)), c \in KindsOn(Among(5))} : Few(k)}

\* Register 1 is saved by the caller, register 2 by the callee.
MCSaveClass == [r \in 0 .. 2 |-> IF r = 2 THEN "callee" ELSE "caller"]
MCCrossing  == {1}
Cost(n, spill, r) == IF r = 0 THEN spill ELSE IF r = 2 THEN 1
                     ELSE IF n \in MCCrossing THEN 2 ELSE 0
MCNodeCosts ==
  {[n \in MCNodes |-> IF n \in Virtual THEN [r \in 0 .. 2 |-> Cost(n, spill[n], r)]
                      ELSE [r \in {n - 3} |-> 0]] :
     spill \in {<<1, 4, 4>>, <<4, 1, 4>>}}
=============================================================================
