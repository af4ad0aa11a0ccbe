------------------------------ MODULE Lowering ------------------------------
(***************************************************************************)
(* A function on its way from FIR to the registers: matched, made legal,   *)
(* and then taken through the MIR passes in any order, any number of       *)
(* times.  The meaning of both forms is what they test and what they       *)
(* return, as terms over the parameters, whichever way each test goes.     *)
(***************************************************************************)
EXTENDS MirPasses

CONSTANTS
  Functions,   \* the functions to lower
  MaxTests     \* how many tests of a run are looked at

ASSUME MaxTestsAssumption == MaxTests \in Nat

VARIABLES fir, mir, stage

lowVars == <<fir, mir, stage>>

LowInit == fir \in Functions /\ mir = <<>> /\ stage = "fir"

Matching   == stage = "fir"     /\ mir' = Match(fir)          /\ stage' = "matched" /\ UNCHANGED fir
Legalizing == stage = "matched" /\ mir' = LegalizeBBForm(mir) /\ stage' = "legal"   /\ UNCHANGED fir

Passing(m) == stage \in {"legal", "shortened"} /\ mir' = m /\ UNCHANGED <<fir, stage>>
\* Configured to run once.
Shortening == stage = "legal" /\ mir' \in LifetimeShortening(mir) /\ stage' = "shortened" /\ UNCHANGED fir

LowNext ==
  \/ Matching
  \/ Legalizing
  \/ Passing(DeadCodeElim(mir))
  \/ Passing(CopyPropagation(mir))
  \/ Shortening
  \/ Passing(BBReordering(mir))

-----------------------------------------------------------------------------
(* What a function means *)

Outcomes == [1 .. MaxTests -> BOOLEAN]
Value(env, x) == IF IsReg(x) THEN env[x] ELSE x
Values(env, xs) == [k \in DOMAIN xs |-> Value(env, xs[k])]
Test(term, outcome) == <<<<"test", term, outcome>>>>

\* A FIR instruction computes a term of its operands; a cast without a change is none.
Term(op, ts) == IF op = "inttoptr" THEN ts[1] ELSE <<op>> \o ts

FirValues(f) == UNION {{Param(b, i) : i \in 1 .. f[b].params} \cup {Result(b, k) : k \in DOMAIN f[b].code} : b \in DOMAIN f}

After(f, b, env) ==
  FoldLeft(LAMBDA e, k : [e EXCEPT ![Result(b, k)] = Term(f[b].code[k].op, Values(e, f[b].code[k].args))],
           env, [k \in DOMAIN f[b].code |-> k])

\* Along an edge the parameters take the arguments' values all at once.
Along(f, edge, env) ==
  [v \in DOMAIN env |->
     IF v[1] = "p" /\ v[2] = edge.to THEN Value(env, edge.args[v[3]]) ELSE env[v]]

RECURSIVE FirRun(_, _, _, _), FirCases(_, _, _, _, _)
FirRun(f, b, env0, outcomes) ==
  LET env == After(f, b, env0)
      t   == f[b].term
      go(e, rest) == FirRun(f, t.edges[e].to, Along(f, t.edges[e], env), rest)
  IN CASE t.op = "ret" -> <<<<"ret", Value(env, t.args[1])>>>>
       [] t.op = "br"  -> go(1, outcomes)
       [] t.op = "cbr" -> IF outcomes = <<>> THEN <<>>
                          ELSE Test(Value(env, t.args[1]), Head(outcomes))
                                 \o go(IF Head(outcomes) THEN 1 ELSE 2, Tail(outcomes))
       [] t.op = "switch" -> FirCases(f, b, env, 1, outcomes)
FirCases(f, b, env, e, outcomes) ==
  LET t    == f[b].term
      last == Len(t.edges)
      go(rest) == FirRun(f, t.edges[e].to, Along(f, t.edges[e], env), rest)
  IN IF e = last THEN go(outcomes)
     ELSE IF outcomes = <<>> THEN <<>>
     ELSE Test(<<"eq", Value(env, t.args[last]), t.args[e]>>, Head(outcomes))
            \o (IF Head(outcomes) THEN go(Tail(outcomes)) ELSE FirCases(f, b, env, e + 1, Tail(outcomes)))

FirMeaning(f, outcomes) ==
  FirRun(f, 1, [v \in FirValues(f) |-> IF v[1] = "p" /\ v[2] = 1 THEN v ELSE <<"none">>], outcomes)

-----------------------------------------------------------------------------
(* What the MIR does *)

Registers(m) == UNION {UNION {Regs(x, DOMAIN x.args) : x \in Range(m[b])} : b \in DOMAIN m} \cup {A}

\* The value an instruction leaves in its first operand.
Computed(x, v) ==
  CASE x.op = "mov"      -> v[2]
    [] x.op = "mov_sx"   -> <<"sext", v[2]>>
    [] x.op = "icmp_slt" -> <<"slt", v[2], v[3]>>
    [] x.op = "add2"     -> <<"add", v[1], v[2]>>
    [] x.op = "land2"    -> <<"and", v[1], v[2]>>
    [] x.op = "cmov"     -> <<"select", v[2], v[3], v[1]>>
    [] x.op = "cmov_slt" -> <<"select", <<"slt", v[3], v[4]>>, v[2], v[1]>>

\* What a conditional jump tests, and which outcome makes it jump.
Tested(x, v) ==
  CASE x.op = "cjmp"     -> v[1]
    [] x.op = "cjmp_and" -> <<"and", v[1], v[2]>>
    [] x.op \in {"cjmp_slt", "cjmp_sge"} -> <<"slt", v[1], v[2]>>
    [] x.op \in {"cjmp_eq", "cjmp_ne"}   -> <<"eq", v[1], v[2]>>
JumpsOn(x) == x.op \notin {"cjmp_sge", "cjmp_ne"}

RECURSIVE MirRun(_, _, _, _, _)
MirRun(m, b, i, env, outcomes) ==
  LET x == m[b][i]
      v == Values(env, x.args)
  IN CASE x.op = "ret" -> <<<<"ret", v[1]>>>>
       [] x.op = "jmp" -> MirRun(m, x.to, 1, env, outcomes)
       [] x.op \in CondJumps ->
            IF outcomes = <<>> THEN <<>>
            ELSE Test(Tested(x, v), Head(outcomes))
                   \o (IF Head(outcomes) = JumpsOn(x) THEN MirRun(m, x.to, 1, env, Tail(outcomes))
                       ELSE MirRun(m, b, i + 1, env, Tail(outcomes)))
       [] OTHER -> MirRun(m, b, i + 1, [env EXCEPT ![x.args[1]] = Computed(x, v)], outcomes)

MirMeaning(m, outcomes) ==
  MirRun(m, 1, 1, [r \in Registers(m) |-> IF r[1] = "p" /\ r[2] = 1 THEN r ELSE <<"none">>], outcomes)

\* The instructions a run executes.
RECURSIVE Executed(_, _, _, _)
Executed(m, b, i, outcomes) ==
  LET x == m[b][i]
  IN <<x>> \o
     (CASE x.op = "ret" -> <<>>
        [] x.op = "jmp" -> Executed(m, x.to, 1, outcomes)
        [] x.op \in CondJumps ->
             IF outcomes = <<>> THEN <<>>
             ELSE IF Head(outcomes) THEN Executed(m, x.to, 1, Tail(outcomes))
             ELSE Executed(m, b, i + 1, Tail(outcomes))
        [] OTHER -> Executed(m, b, i + 1, outcomes))

\* The pairs of registers that cannot be one in a run: both hold a value that is still
\* read, or one is written while the other does.
Clashes(run) ==
  LET above(x, s) ==
        [needed |-> (s.needed \ Written(x)) \cup Read(x),
         pairs  |-> s.pairs \cup UNION {{{w, r} : r \in s.needed \ {w}} : w \in Written(x)}]
      top == FoldRight(above, run, [needed |-> {}, pairs |-> {}])
  IN top.pairs \cup UNION {{{r, o} : o \in top.needed \ {r}} : r \in top.needed}

-----------------------------------------------------------------------------
(* Properties *)

\* Whatever passes have run in whatever order, the MIR tests and returns what the
\* function does: no move of an edge overwrites what a later move, the jump, the other
\* edge or a value fused forward still reads (generate_bb_args,
\* get_or_insert_bbarg_mapping, split_cond_branch_edges), and no pass removes, renames
\* or reorders what decides a value.
MeaningKept ==
  stage \in {"legal", "shortened"} => \A o \in Outcomes : MirMeaning(mir, o) = FirMeaning(fir, o)

\* Two registers the allocator may give one physical register to never clash in a run:
\* the collisions reg_coll finds from the liveness of blocks and the order in them.
CollisionsSuffice ==
  stage \in {"legal", "shortened"} => LET found == RegColl(mir)
                     IN \A o \in Outcomes : Clashes(Executed(mir, 1, 1, o)) \subseteq found
=============================================================================
