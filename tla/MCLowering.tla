----------------------------- MODULE MCLowering -----------------------------
(***************************************************************************)
(* Small functions that make block arguments hard: a loop over two values  *)
(* that are swapped, rotated or computed from each other, left and entered *)
(* by either edge; a latch of its own; a join that one edge enters         *)
(* directly; a switch; values of the loop used after it; a comparison that *)
(* is made in the loop but fused behind it.  In none of MCFunctions does a *)
(* branch test a parameter that its own edge writes; those are             *)
(* OwnConditions.                                                          *)
(***************************************************************************)
EXTENDS Lowering

a == Param(1, 1)
b == Param(1, 2)
p == Param(2, 1)
q == Param(2, 2)
r == Param(3, 1)
x == Result(2, 1)
c == Result(2, 2)

Block(params, code, term) == [params |-> params, code |-> code, term |-> term]
Instr(op, args) == [op |-> op, args |-> args]
To(block, args) == [to |-> block, args |-> args]
Ret(v)          == [op |-> "ret", args |-> <<v>>, edges |-> <<>>]
Br(e)           == [op |-> "br", args |-> <<>>, edges |-> <<e>>]
Cbr(v, e1, e2)  == [op |-> "cbr", args |-> <<v>>, edges |-> <<e1, e2>>]
Switch(v, es)   == [op |-> "switch", args |-> [k \in DOMAIN es |-> IF k = Len(es) THEN v ELSE Const(k)], edges |-> es]
EitherWay(v, e1, e2) == {Cbr(v, e1, e2), Cbr(v, e2, e1)}

Entry == Block(2, <<>>, Br(To(2, <<a, b>>)))
Exit(instr) == Block(1, <<instr>>, Ret(Result(3, 1)))

Ops   == {Instr("add", <<p, q>>), Instr("inttoptr", <<p>>), Instr("select", <<p, q, Const(1)>>)}
Tests == {Instr("slt", <<p, Const(5)>>), Instr("slt", <<x, q>>), Instr("and", <<x, p>>), Instr("sext", <<p>>)}
Again == {<<q, p>>, <<x, p>>, <<q, x>>, <<p, x>>, <<p, q>>, <<x, x>>}
After2 == {Instr("add", <<r, v>>) : v \in {q, x}} \cup {Instr("select", <<c, r, q>>)}

\* The loop jumps to itself.
Loops ==
  {<<Entry, Block(2, <<op, t>>, term), Exit(e)>> :
     op \in Ops, t \in Tests, e \in After2,
     term \in UNION {EitherWay(c, To(2, u), To(3, <<w>>)) : u \in Again, w \in {p, x}}}

\* The jump back comes from a block of its own, which may be the one that tests.
Latches ==
  {<<Entry, Block(2, <<op, t>>, term), Exit(e), Block(0, <<>>, Br(To(2, u)))>> :
     op \in Ops, t \in Tests, e \in After2, u \in Again, term \in EitherWay(c, To(4, <<>>), To(3, <<x>>))}
  \cup
  {<<Entry, Block(2, <<op, t>>, Br(To(4, <<>>))), Exit(e), Block(0, <<>>, term)>> :
     op \in Ops, t \in Tests, e \in After2, term \in UNION {EitherWay(c, To(2, u), To(3, <<p>>)) : u \in Again}}

\* Two edges enter block 3 with different arguments, one of them by way of block 4, or
\* both from one branch.
Joins ==
  {<<Entry, Block(2, <<op, t>>, term), Exit(e), Block(0, <<>>, Br(To(3, <<w>>)))>> :
     op \in Ops, t \in Tests, e \in After2, w \in {p, x},
     term \in EitherWay(c, To(4, <<>>), To(3, <<q>>)) \cup {Cbr(c, To(3, <<q>>), To(3, <<x>>))}}

\* A switch that leaves the loop, goes around it once or twice, or both.
Switches ==
  {<<Entry, Block(2, <<op, t>>, Switch(v, es)), Exit(e)>> :
     op \in Ops, t \in {Instr("slt", <<x, q>>)}, v \in {x, q}, e \in After2,
     es \in {<<To(3, <<p>>), To(3, <<x>>), To(2, u)>> : u \in Again}
              \cup {<<To(2, <<q, x>>), To(3, <<p>>), To(2, u)>> : u \in Again}
              \cup {<<To(2, u), To(2, <<p, x>>), To(3, <<q>>)>> : u \in Again}}

\* A comparison other than the one that ends the loop decides after it.
Later ==
  {<<Entry, Block(2, <<op, t, Instr("slt", <<v, Const(5)>>)>>, term), Exit(Instr("select", <<Result(2, 3), r, w>>))>> :
     op \in Ops, t \in {Instr("slt", <<x, Const(5)>>), Instr("sext", <<x>>)}, v \in {p, q}, w \in {x, Const(3)},
     term \in UNION {EitherWay(c, To(2, u), To(3, <<x>>)) : u \in Again}}

\* A loop that ends by a parameter which the edge back writes.
OwnConditions ==
  {<<Entry, Block(2, <<op, Instr("add", <<p, q>>)>>, term), Exit(Instr("add", <<r, Const(3)>>))>> :
     op \in Ops, term \in UNION {EitherWay(p, To(2, u), To(3, <<w>>)) : u \in Again, w \in {q, x}}}

MCFunctions == Loops \cup Latches \cup Joins \cup Switches \cup Later
Spec        == LowInit /\ [][LowNext]_lowVars
=============================================================================
