------------------------------- MODULE Matcher -------------------------------
(***************************************************************************)
(* The matcher: a FIR function, whose blocks take arguments, becomes MIR,  *)
(* whose blocks share registers (mir/matcher.cpp, matcher_patterns.cpp,    *)
(* matcher_helpers.cpp).  The arguments of an edge become moves in front of *)
(* its jump, sequentialised where they overwrite each other's sources; a   *)
(* comparison is fused into the branch or the select that uses it.         *)
(*                                                                         *)
(* A block is [params, code, term]; an instruction [op, args]; a           *)
(* terminator [op, args, edges] with edges [to, args].  Values and         *)
(* registers are triples: the parameter <<"p", b, i>>, the result          *)
(* <<"i", b, k>>, the constant <<"c", n, 0>>, the transfer register of a   *)
(* parameter <<"t", b, i>>, a saved source <<"s", edge, k>>, and the return *)
(* register.  An instruction of MIR is [op, args, to], to = 0 if it does   *)
(* not jump.  All values have one type.                                    *)
(***************************************************************************)
EXTENDS Naturals, Sequences, SequencesExt, FiniteSets

Param(b, i)  == <<"p", b, i>>
Result(b, k) == <<"i", b, k>>
Const(n)     == <<"c", n, 0>>
A            == <<"A", 0, 0>>
IsReg(x)     == x[1] # "c"

Emit(op, args)          == [op |-> op, args |-> args, to |-> 0]
JumpTo(op, args, block) == [op |-> op, args |-> args, to |-> block]
Mov(dst, src)           == Emit("mov", <<dst, src>>)

-----------------------------------------------------------------------------
(* Uses *)

\* What instruction k of block b reads; one past the code is the terminator, which
\* reads the arguments of its edges too.
Operands(f, b, k) ==
  IF k <= Len(f[b].code) THEN Range(f[b].code[k].args)
  ELSE Range(f[b].term.args) \cup UNION {Range(e.args) : e \in Range(f[b].term.edges)}

Users(f, v) ==
  UNION {{<<b, k>> : k \in {n \in 1 .. Len(f[b].code) + 1 : v \in Operands(f, b, n)}} : b \in DOMAIN f}

RECURSIVE UsersOfUsers(_, _)
UsersOfUsers(f, us) ==
  LET next == us \cup UNION {Users(f, Result(u[1], u[2])) : u \in us}
  IN IF next = us THEN us ELSE UsersOfUsers(f, next)

\* The instruction that computes v, if it has one of the given operations.
Computes(f, v, ops) == v[1] = "i" /\ f[v[2]].code[v[3]].op \in ops
Definition(f, v)    == f[v[2]].code[v[3]]

-----------------------------------------------------------------------------
(* split_cond_branch_edges *)

RECURSIVE ReachedAround(_, _, _)
ReachedAround(f, seen, target) ==
  LET next == seen \cup (UNION {{e.to : e \in Range(f[b].term.edges)} : b \in seen} \ {target})
  IN IF next = seen THEN seen ELSE ReachedAround(f, next, target)

\* The moves of the first edge also run on the way to the second: is a parameter they
\* write still read there, or by the comparison the jump is fused with?
MovesUnsafe(f, b) ==
  LET t      == f[b].term
      target == t.edges[1].to
      around == ReachedAround(f, {t.edges[2].to}, target)
  IN \E i \in 1 .. f[target].params :
       \/ Param(target, i) \in Range(t.edges[2].args)
       \/ \E u \in Users(f, Param(target, i)) :
            u[1] \in around \/ (t.args[1][1] = "i" /\ u = Tail(t.args[1]))

NeedsEdgeBlock(f, b) ==
  /\ f[b].term.op = "cbr"
  /\ f[b].term.edges[1].args # <<>>
  /\ f[b].term.edges[1].to # f[b].term.edges[2].to
  /\ MovesUnsafe(f, b)

\* The new block takes over the arguments of the edge.
InsertBlockOnEdge(f, b) ==
  LET edge == f[b].term.edges[1]
  IN Append([f EXCEPT ![b].term.edges[1] = [to |-> Len(f) + 1, args |-> <<>>]],
            [params |-> 0, code |-> <<>>, term |-> [op |-> "br", args |-> <<>>, edges |-> <<edge>>]])

SplitEdges(f) ==
  FoldLeft(LAMBDA g, b : IF NeedsEdgeBlock(g, b) THEN InsertBlockOnEdge(g, b) ELSE g,
           f, [b \in DOMAIN f |-> b])

-----------------------------------------------------------------------------
(* Block arguments *)

\* Mutant of SafeToNotCopy: the users of the users are not looked at.
SafeForUsers(f, b, i) ==
  LET edges == f[b].term.edges
  IN /\ Len(edges) > 1 => Cardinality({e \in DOMAIN edges : edges[e].to = b}) <= 1
     /\ \A u \in Users(f, Param(b, i)) : u[1] = b

\* The edges write the register of the parameter itself where nothing can read the
\* old value after the new one was written: the block is not a successor of its own
\* twice, and no user, of a user, is outside of it (a user can be fused forward).
SafeToNotCopy(f, b, i) ==
  LET edges == f[b].term.edges
  IN /\ Len(edges) > 1 => Cardinality({e \in DOMAIN edges : edges[e].to = b}) <= 1
     /\ \A u \in UsersOfUsers(f, Users(f, Param(b, i))) : u[1] = b

Transfer(f, b, i) == IF SafeToNotCopy(f, b, i) THEN Param(b, i) ELSE <<"t", b, i>>

\* One round over the moves that are left, emitting each whose target no other one
\* (nor itself) still reads; after the first of the list the next one is passed over.
RECURSIVE EmitFree(_, _, _)
EmitFree(pairs, out, i) ==
  IF i > Len(pairs) THEN [pairs |-> pairs, out |-> out]
  ELSE IF \E j \in DOMAIN pairs : pairs[j].from = pairs[i].to THEN EmitFree(pairs, out, i + 1)
  ELSE EmitFree(RemoveAt(pairs, i), Append(out, Mov(pairs[i].to, pairs[i].from)), IF i > 1 THEN i ELSE 2)

\* When a round emits none the moves form cycles: the first one's source is saved and
\* the move goes to the end of the list, reading the saved value.
RECURSIVE Sequentialised(_, _, _, _)
Sequentialised(pairs, out, edge, saves) ==
  IF pairs = <<>> THEN out
  ELSE LET round == EmitFree(pairs, out, 1)
           save  == <<"s", edge, saves>>
       IN IF round.pairs # pairs THEN Sequentialised(round.pairs, round.out, edge, saves)
          ELSE Sequentialised(Append(Tail(pairs), [to |-> pairs[1].to, from |-> save]),
                              Append(out, Mov(save, pairs[1].from)), edge, saves + 1)

\* generate_bb_args: the moves for edge e of block b; unused parameters get none.
EdgeMoves(f, b, e) ==
  LET edge  == f[b].term.edges[e]
      pair(i) == [to |-> Transfer(f, edge.to, i), from |-> edge.args[i]]
      moved == SelectSeq([i \in DOMAIN edge.args |-> i],
                         LAMBDA i : Users(f, Param(edge.to, i)) # {} /\ pair(i).to # pair(i).from)
  IN Sequentialised([k \in DOMAIN moved |-> pair(moved[k])], <<>>, 10 * b + e, 1)

-----------------------------------------------------------------------------
(* The rules *)

\* What is emitted for an instruction whose result is r: two operand forms copy their
\* first operand, a select is a conditional move over its second choice.
Matched(f, r, instr) ==
  LET a == instr.args
  IN CASE instr.op = "and"  -> <<Mov(r, a[1]), Emit("land2", <<r, a[2]>>)>>
       [] instr.op = "add"  -> <<Mov(r, a[1]), Emit("add2", <<r, a[2]>>)>>
       [] instr.op = "slt"  -> <<Emit("icmp_slt", <<r, a[1], a[2]>>)>>
       [] instr.op = "sext" -> <<Emit("mov_sx", <<r, a[1]>>)>>
       [] instr.op = "inttoptr" -> <<Mov(r, a[1])>>
       [] instr.op = "select" ->
            <<Mov(r, a[3]),
              IF Computes(f, a[1], {"slt"})
              THEN Emit("cmov_slt", <<r, a[2]>> \o Definition(f, a[1]).args)
              ELSE Emit("cmov", <<r, a[1], a[2]>>)>>

\* The jump of a conditional branch reads the operands of the And or the comparison
\* that computes its condition, in whatever block that is.
CondJump(f, c, block) ==
  IF Computes(f, c, {"and"}) THEN JumpTo("cjmp_and", Definition(f, c).args, block)
  ELSE IF Computes(f, c, {"slt"}) THEN JumpTo("cjmp_slt", Definition(f, c).args, block)
  ELSE JumpTo("cjmp", <<c>>, block)

Terminated(f, b) ==
  LET t        == f[b].term
      last     == Len(t.edges)
      moves(e) == EdgeMoves(f, b, e)
      default  == Append(moves(last), JumpTo("jmp", <<>>, t.edges[last].to))
  IN CASE t.op = "ret" -> <<Mov(A, t.args[1]), Emit("ret", <<A>>)>>
       [] t.op = "br"  -> default
       [] t.op = "cbr" -> Append(moves(1), CondJump(f, t.args[1], t.edges[1].to)) \o default
       [] t.op = "switch" ->
            FlattenSeq([e \in 1 .. last - 1 |->
               Append(moves(e), JumpTo("cjmp_eq", <<t.args[last], t.args[e]>>, t.edges[e].to))])
              \o default

\* apply_bb: first the parameters are copied out of their transfer registers, the last
\* one first, except in the entry; then the code.
Lowered(f, b) ==
  LET copied == SelectSeq([i \in 1 .. f[b].params |-> i], LAMBDA i : Transfer(f, b, i) # Param(b, i))
      heads  == IF b = 1 THEN <<>>
                ELSE [k \in DOMAIN copied |-> Mov(Param(b, copied[k]), Transfer(f, b, copied[k]))]
  IN Reverse(heads)
       \o FlattenSeq([k \in DOMAIN f[b].code |-> Matched(f, Result(b, k), f[b].code[k])])
       \o Terminated(f, b)

\* GreedyMatcher::apply
Match(f) == LET g == SplitEdges(f) IN [b \in DOMAIN g |-> Lowered(g, b)]
=============================================================================
