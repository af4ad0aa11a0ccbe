------------------------------ MODULE MirPasses ------------------------------
(***************************************************************************)
(* The passes over MIR before registers are allocated, what they and the   *)
(* allocator know of a register's life, and the block layout               *)
(* (mir/legalize_bb_form.hpp, mir/optim, mir/analysis).                    *)
(***************************************************************************)
EXTENDS Matcher

CondJumps == {"cjmp", "cjmp_and", "cjmp_slt", "cjmp_sge", "cjmp_eq", "cjmp_ne"}
IsControlFlow(x) == x.op \in CondJumps \cup {"jmp", "ret"}

Regs(x, positions) == {x.args[i] : i \in {j \in positions : IsReg(x.args[j])}}

\* written_args, read_args: in both a conditional move and a two operand form read
\* their destination.
Written(x) == IF IsControlFlow(x) THEN {} ELSE Regs(x, {1})
Read(x)    == Regs(x, IF x.op \in {"mov", "mov_sx", "icmp_slt"} THEN DOMAIN x.args \ {1} ELSE DOMAIN x.args)
\* update_uses: in the liveness of blocks a conditional move does not.
Used(x)    == Regs(x, IF x.op \in {"mov", "mov_sx", "icmp_slt", "cmov", "cmov_slt"}
                      THEN DOMAIN x.args \ {1} ELSE DOMAIN x.args)

\* The edges of the graph, in the order of the jumps.
Successors(m, b) ==
  LET jumps == SelectSeq(m[b], LAMBDA x : x.to # 0) IN [k \in DOMAIN jumps |-> jumps[k].to]

-----------------------------------------------------------------------------
(* LegalizeBBForm: moves between two jumps of a block get a block of their own *)

\* The last position before i that holds control flow, 0 if none does.
ControlFlowBefore(code, i) ==
  LET at == {j \in 1 .. i - 1 : IsControlFlow(code[j])} IN IF at = {} THEN 0 ELSE Max(at)

\* Position i of block b is the jump the moves in front of it are taken from.
RECURSIVE LegalFrom(_, _, _)
LegalFrom(m, b, i) ==
  LET code == m[b]
      j    == ControlFlowBefore(code, i)
  IN IF j = 0 THEN m
     ELSE IF j + 1 = i THEN LegalFrom(m, b, j)
     ELSE LET moved == Append(SubSeq(code, j + 1, i - 1),
                              IF code[i].op = "ret" THEN code[i] ELSE JumpTo("jmp", <<>>, code[i].to))
              kept  == SubSeq(code, 1, j)
                         \o <<IF code[i].op = "ret" THEN code[i] ELSE [code[i] EXCEPT !.to = Len(m) + 1]>>
                         \o SubSeq(code, i + 1, Len(code))
          IN LegalFrom(Append([m EXCEPT ![b] = kept], moved), b, j)

LegalizeBBForm(m) ==
  FoldLeft(LAMBDA g, b : LegalFrom(g, b, ControlFlowBefore(g[b], Len(g[b]) + 1)), m, [b \in DOMAIN m |-> b])

-----------------------------------------------------------------------------
(* Analyses *)

\* What a block reads before it writes it, and what it writes.
UpwardExposed(code) == UNION {Used(code[i]) \ UNION {Written(code[j]) : j \in 1 .. i - 1} : i \in DOMAIN code}
Defined(code)       == UNION {Written(code[i]) : i \in DOMAIN code}

LiveOutOf(m, liveIn, b) == UNION {liveIn[s] : s \in Range(Successors(m, b))}

RECURSIVE LiveInFrom(_, _)
LiveInFrom(m, liveIn) ==
  LET next == [b \in DOMAIN m |-> UpwardExposed(m[b]) \cup (LiveOutOf(m, liveIn, b) \ Defined(m[b]))]
  IN IF next = liveIn THEN liveIn ELSE LiveInFrom(m, next)
LiveIn(m) == LiveInFrom(m, [b \in DOMAIN m |-> {}])

\* The next instruction that reads or writes r, 0 if the block has none.
NextUse(code, r, start) ==
  LET at == {i \in start .. Len(code) : r \in Read(code[i]) \cup Written(code[i])}
  IN IF at = {} THEN 0 ELSE Min(at)

\* Mutant of CollisionsOf: a register collides where it is read only.
CollisionsOfReads(code, liveOut) ==
  LET with(r, live) == {{r, other} : other \in live \ {r}}
      read(s, r) == [live |-> s.live \cup {r}, pairs |-> s.pairs \cup with(r, s.live)]
      above(x, s) ==
        FoldSet(LAMBDA r, t : read(t, r),
                [s EXCEPT !.live = (@ \cup (IF x.to # 0 THEN liveOut ELSE {})) \ Written(x)], Read(x))
  IN FoldRight(above, code, [live |-> liveOut, pairs |-> {}]).pairs

\* reg_coll of one block, upwards: a register that is written, or read, collides with
\* all that are live there.
CollisionsOf(code, liveOut) ==
  LET with(r, live) == {{r, other} : other \in live \ {r}}
      write(x, s) ==
        [live |-> s.live \ Written(x), pairs |-> s.pairs \cup UNION {with(r, s.live) : r \in Written(x)}]
      read(s, r) == [live |-> s.live \cup {r}, pairs |-> s.pairs \cup with(r, s.live)]
      above(x, s) ==
        FoldSet(LAMBDA r, t : read(t, r),
                write(x, IF x.to # 0 THEN [s EXCEPT !.live = @ \cup liveOut] ELSE s), Read(x))
  IN FoldRight(above, code, [live |-> liveOut, pairs |-> {}]).pairs

RegColl(m) ==
  LET liveIn == LiveIn(m) IN UNION {CollisionsOf(m[b], LiveOutOf(m, liveIn, b)) : b \in DOMAIN m}

-----------------------------------------------------------------------------
(* DeadCodeElim *)

\* Upwards through a block; what is live into or out of it is not asked about again.
RECURSIVE DeadRemoved(_, _, _)
DeadRemoved(code, live, i) ==
  IF i = 0 THEN code
  ELSE LET dead == /\ ~IsControlFlow(code[i])
                   /\ LET r    == code[i].args[1]
                          next == NextUse(code, r, i + 1)
                          read == next # 0 /\ r \in Read(code[next])
                      IN \/ next # 0 /\ ~read
                         \/ ~read /\ r \notin live
       IN DeadRemoved(IF dead THEN RemoveAt(code, i) ELSE code, live, i - 1)

DeadCodeElim(m) ==
  LET liveIn == LiveIn(m)
  IN [b \in DOMAIN m |-> DeadRemoved(m[b], liveIn[b] \cup LiveOutOf(m, liveIn, b), Len(m[b]))]

-----------------------------------------------------------------------------
(* CopyPropagation *)

Copies(x) == x.op = "mov" /\ IsReg(x.args[2]) /\ A \notin Range(x.args) /\ x.args[1] # x.args[2]

\* The uses that follow the copy at i read its source instead, up to the first write of
\* the target or of the source.
RECURSIVE Propagated(_, _)
Propagated(code, i) ==
  LET dst  == code[i].args[1]
      src  == code[i].args[2]
      next == NextUse(code, dst, i + 1)
  IN IF \/ next = 0
        \/ dst \in Written(code[next])
        \/ \E k \in i + 1 .. next - 1 : src \in Written(code[k])
     THEN code
     ELSE Propagated([code EXCEPT ![next].args =
                        [k \in DOMAIN @ |-> IF @[k] = dst THEN src ELSE @[k]]], i)

CopyPropagation(m) ==
  LET upwards(code) ==
        FoldLeft(LAMBDA c, i : IF Copies(c[i]) THEN Propagated(c, i) ELSE c,
                 code, Reverse([i \in DOMAIN code |-> i]))
  IN [b \in DOMAIN m |-> upwards(m[b])]

-----------------------------------------------------------------------------
(* LifetimeShortening *)

\* known holds <<source, target>> of the copies seen.  A write forgets what was copied
\* from the register and one copy into it, whichever the order of the hash table brings
\* first; a copy itself forgets nothing but its source's last target, and its own
\* source is left alone.
Forget(known, r) ==
  LET rest == {e \in known : e[1] # r}
      into == {e \in rest : e[2] = r}
  IN IF into = {} THEN {rest} ELSE {rest \ {e} : e \in into}

ForgetAll(known, regs) == FoldSet(LAMBDA r, ks : UNION {Forget(k, r) : k \in ks}, {known}, regs)

\* What may follow once x is looked at.
Shortened(s, x) ==
  IF x.op = "mov"
  THEN {[code |-> Append(s.code, x),
         known |-> IF IsReg(x.args[2]) /\ x.args[1] # x.args[2]
                   THEN {e \in s.known : e[1] # x.args[2]} \cup {<<x.args[2], x.args[1]>>}
                   ELSE s.known]}
  ELSE LET now(known, r) == IF r # A /\ \E e \in known : e[1] = r
                            THEN (CHOOSE e \in known : e[1] = r)[2] ELSE r
       IN {[code |-> Append(s.code, [x EXCEPT !.args =
                       [k \in DOMAIN @ |-> IF @[k] \in Read(x) THEN now(known, @[k]) ELSE @[k]]]),
            known |-> known] : known \in ForgetAll(s.known, Written(x))}

ShortenedBlock(code) ==
  {s.code : s \in FoldLeft(LAMBDA ss, x : UNION {Shortened(s, x) : s \in ss},
                           {[code |-> <<>>, known |-> {}]}, code)}

\* The MIRs that m may become.
LifetimeShortening(m) ==
  FoldLeft(LAMBDA ms, block : {Append(p[1], p[2]) : p \in ms \X ShortenedBlock(block)}, {<<>>}, m)

-----------------------------------------------------------------------------
(* BBReordering *)

\* Depth first from the entry, in the order of the jumps: the blocks reached, and the
\* tails of the back edges, those into a block that is still on the stack.
RECURSIVE DepthFirst(_, _, _)
DepthFirst(m, stack, s) ==
  IF stack = <<>> THEN s
  ELSE LET top == stack[Len(stack)]
           to  == Successors(m, top.block)[top.next]
           on  == [stack EXCEPT ![Len(stack)].next = @ + 1]
       IN IF top.next > Len(Successors(m, top.block)) THEN DepthFirst(m, Front(stack), s)
          ELSE IF to \notin s.reached
          THEN DepthFirst(m, Append(on, [block |-> to, next |-> 1]), [s EXCEPT !.reached = @ \cup {to}])
          ELSE IF \E k \in DOMAIN stack : stack[k].block = to
          THEN DepthFirst(m, on, [s EXCEPT !.back = @ \cup {<<top.block, to>>}])
          ELSE DepthFirst(m, on, s)

RECURSIVE LoopBody(_, _, _, _)
LoopBody(m, reached, head, body) ==
  LET next == body \cup {p \in reached : \E b \in body \ {head} : b \in Range(Successors(m, p))}
  IN IF next = body THEN body ELSE LoopBody(m, reached, head, next)

RECURSIVE ColdFrom(_, _)
ColdFrom(m, cold) ==
  LET next == cold \cup {b \in DOMAIN m : Successors(m, b) # <<>> /\ Range(Successors(m, b)) \subseteq cold}
  IN IF next = cold THEN cold ELSE ColdFrom(m, next)

AnalyzeBlocks(m) ==
  LET dfs   == DepthFirst(m, <<[block |-> 1, next |-> 1]>>, [reached |-> {1}, back |-> {}])
      heads == {e[2] : e \in dfs.back}
      body  == [h \in heads |-> LoopBody(m, dfs.reached, h, {h} \cup {e[1] : e \in {x \in dfs.back : x[2] = h}})]
  IN [depth |-> [b \in DOMAIN m |-> Cardinality({h \in heads : b \in body[h]})],
      cold  |-> ColdFrom(m, DOMAIN m \ dfs.reached)]

JmpTarget(m, b) == LET x == m[b][Len(m[b])] IN IF x.op = "jmp" THEN x.to ELSE 0

\* The successor placed after b: one that does not leave a loop before one that does,
\* then the target of the jmp, then the first one; cold ones only after cold ones.
Rank(m, info, b, s) ==
  (IF info.depth[s] < info.depth[b] THEN 0 ELSE 2) + (IF s = JmpTarget(m, b) THEN 1 ELSE 0)
Candidates(m, info, placed, b) ==
  {s \in Range(Successors(m, b)) \ Range(placed) : s \in info.cold => b \in info.cold}

RECURSIVE Chain(_, _, _, _)
Chain(m, info, placed, b) ==
  LET order == Append(placed, b)
      next  == Candidates(m, info, order, b)
      best  == {s \in next : \A o \in next : Rank(m, info, b, o) <= Rank(m, info, b, s)}
  IN IF next = {} THEN order ELSE Chain(m, info, order, Min(best))

Layout(m) ==
  LET info   == AnalyzeBlocks(m)
      warm   == SelectSeq([b \in DOMAIN m |-> b], LAMBDA b : b \notin info.cold)
      cold   == SelectSeq([b \in DOMAIN m |-> b], LAMBDA b : b \in info.cold)
  IN FoldLeft(LAMBDA placed, b : IF b \in Range(placed) THEN placed ELSE Chain(m, info, placed, b),
              <<>>, <<1>> \o warm \o cold)

\* A conditional jump to the next block and a jmp elsewhere swap their targets where the
\* condition has an inverse.
Inverted(op) == CASE op = "cjmp_slt" -> "cjmp_sge" [] op = "cjmp_sge" -> "cjmp_slt"
                 [] op = "cjmp_eq"  -> "cjmp_ne"  [] op = "cjmp_ne"  -> "cjmp_eq"
                 [] OTHER -> "none"
InvertToNext(m, b) ==
  LET n == Len(m[b])
  IN IF /\ b < Len(m) /\ n >= 2 /\ m[b][n].op = "jmp"
        /\ m[b][n - 1].to = b + 1 /\ m[b][n].to # b + 1
        /\ Inverted(m[b][n - 1].op) # "none"
     THEN [m[b] EXCEPT ![n - 1].op = Inverted(@), ![n - 1].to = m[b][n].to, ![n].to = b + 1]
     ELSE m[b]

BBReordering(m) ==
  IF Len(m) <= 2 THEN m
  ELSE LET order == Layout(m)
           newId(b) == CHOOSE k \in DOMAIN order : order[k] = b
           moved == [k \in DOMAIN order |->
                       [i \in DOMAIN m[order[k]] |->
                          LET x == m[order[k]][i] IN IF x.to = 0 THEN x ELSE [x EXCEPT !.to = newId(@)]]]
       IN [b \in DOMAIN moved |-> InvertToNext(moved, b)]
=============================================================================
