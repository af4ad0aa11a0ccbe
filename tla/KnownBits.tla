------------------------------ MODULE KnownBits ------------------------------
(***************************************************************************)
(* KnownBits (optim/analysis/attributer/KnownBits.hpp): for every integer  *)
(* the bits that are zero, and those that are one, in every execution.     *)
(* A function is a set of nodes in SSA form: a node has its operation, its *)
(* width and its arguments; a "Phi" is a block argument, its arguments the *)
(* values passed along the edges into the block, in the order of the uses. *)
(***************************************************************************)
EXTENDS IntOps, Sequences, SequencesExt

Known(one, zero) == [one |-> one, zero |-> zero]
Unknown       == Known({}, {})
Exactly(s, w) == Known(s, All(w) \ s)
Meet(a, b)    == Known(a.one \cap b.one, a.zero \cap b.zero)

-----------------------------------------------------------------------------
(* What is known of a value *)

IsConstant(k, w) == k.zero \cup k.one = All(w)
UMin(k)    == k.one
UMax(k, w) == All(w) \ k.zero
SMax(k, w) == UMax(k, w) \ (IF Msb(w) \in k.one THEN {} ELSE {Msb(w)})
SMin(k, w) == k.one \cup (IF Msb(w) \notin k.one \cup k.zero THEN {Msb(w)} ELSE {})

FromUMinUMax(lo, hi, w) ==
  LET diff   == (lo \ hi) \cup (hi \ lo)
      shared == HighBits(w, Clz(diff, w))
  IN Known(lo \cap shared, shared \ lo)

HasLog2(k, w)  == IsConstant(k, w) /\ IsPow2(k.one)
HasShift(k, w) == IsConstant(k, w) /\ Num(k.one) < w
MinShift(k, w) == IF Num(UMin(k)) > w THEN w ELSE Num(UMin(k))

-----------------------------------------------------------------------------
(* The operations *)

\* computeForAddCarry: the carry into bit i is known zero when the greatest sum has
\* none there, known one when the smallest has.
AddCarry(a, b, carryZero, carryOne, w) ==
  LET Xor3(x, y, z) == {i \in All(w) : (i \in x) = ((i \in y) = (i \in z))}
      sumZero   == Bits(Num(UMax(a, w)) + Num(UMax(b, w)) + (IF carryZero THEN 0 ELSE 1), w)
      sumOne    == Bits(Num(a.one) + Num(b.one) + (IF carryOne THEN 1 ELSE 0), w)
      carryKnown == (All(w) \ Xor3(sumZero, a.zero, b.zero)) \cup Xor3(sumOne, a.one, b.one)
      known     == (a.zero \cup a.one) \cap (b.zero \cup b.one) \cap carryKnown
  IN Known(sumOne \cap known, known \ sumZero)

Mul(a, b, w) ==
  LET maybeA == UMax(a, w)
      maybeB == UMax(b, w)
  IN IF HasLog2(b, w)
     THEN Known(Shl(a.one, Log2(b.one), w),
                Shl(a.zero, Log2(b.one), w) \cup LowBits(w, Log2(b.one)))
     ELSE IF maybeA = {} \/ maybeB = {} THEN Known({}, All(w))
     ELSE Known({}, LowBits(w, Ctz(maybeA, w) + Ctz(maybeB, w)))

Negative(k, w) ==       \* -x from the low bits of x, up to the first unknown one
  LET unknown == All(w) \ (k.one \cup k.zero)
      run     == IF unknown = {} THEN w ELSE Min(unknown)
      low     == Bits(2 ^ run - Num(LowBits(run, run) \cap k.one), run)
  IN Known(low, All(run) \ low)

AbsBits(k, w) ==
  IF Msb(w) \in k.zero THEN k
  ELSE IF Msb(w) \in k.one THEN Negative(k, w)
  ELSE Meet([k EXCEPT !.zero = @ \cup {Msb(w)}],
            Negative([k EXCEPT !.one = @ \cup {Msb(w)}], w))

MinMax(op, a, b, w) ==
  LET signed == op \in {"SMax", "SMin"}
      Lo(k)  == IF signed THEN Signed(SMin(k, w), w) ELSE Num(UMin(k))
      Hi(k)  == IF signed THEN Signed(SMax(k, w), w) ELSE Num(UMax(k, w))
      aAbove == Lo(a) >= Hi(b)
      bAbove == Lo(b) >= Hi(a)
      isMax  == op \in {"UMax", "SMax"}
  IN IF IF isMax THEN aAbove ELSE bAbove THEN a
     ELSE IF IF isMax THEN bAbove ELSE aAbove THEN b
     ELSE Meet(a, b)

CountBits(op, a, aw, w) ==
  IF IsConstant(a, aw)
  THEN Exactly(Bits(CASE op = "CTLZ" -> Clz(a.one, aw)
                      [] op = "CTTZ" -> Ctz(a.one, aw)
                      [] op = "PopCnt" -> Cardinality(a.one), w), w)
  ELSE IF op = "PopCnt"
  THEN FromUMinUMax(Bits(Cardinality(a.one), w), Bits(aw - Cardinality(a.zero), w), w)
  ELSE Known({}, HighBits(w, w - (Max({i \in 0..aw : 2 ^ i <= aw}) + 1)))

Extend(op, a, aw, w) ==
  LET high == IF w > aw THEN HighBits(w, w - aw) ELSE {}
  IN Known(Widen(a.one, w)  \cup IF op = "SExt" /\ Msb(aw) \in a.one  THEN high ELSE {},
           Widen(a.zero, w) \cup IF \/ op = "ZExt"
                                    \/ op = "SExt" /\ Msb(aw) \in a.zero THEN high ELSE {})

RightShift(a, n, w) == Known(LShr(a.one, n, w), LShr(a.zero, n, w) \cup HighBits(w, n))

Below(b, w) == Known({}, HighBits(w, Clz(Bits(Num(b.one) - 1, w), w)))

\* Mutant of Remainder: the dividend may be negative.
RemainderAnySign(a, b, w) ==
  IF IsConstant(b, w) /\ Msb(w) \in b.zero /\ b.one # {} THEN Below(b, w) ELSE Unknown

\* |a srem c| < c, with the sign of a.
Remainder(a, b, w) ==
  IF IsConstant(b, w) /\ Msb(w) \in b.zero /\ b.one # {} /\ Msb(w) \in a.zero
  THEN Below(b, w) ELSE Unknown

ShiftBits(op, a, b, w) ==
  LET n   == Num(b.one)
      min == MinShift(b, w)
  IN CASE op = "Shr" -> IF HasShift(b, w) THEN RightShift(a, n, w)
                        ELSE Known({}, HighBits(w, min))
       [] op = "Shl" -> IF HasShift(b, w)
                        THEN Known(Shl(a.one, n, w), Shl(a.zero, n, w) \cup LowBits(w, n))
                        ELSE Known({}, LowBits(w, min))
       [] op = "AShr" -> IF HasShift(b, w) THEN Known(AShr(a.one, n, w), AShr(a.zero, n, w))
                         ELSE Known(IF Msb(w) \in a.one THEN HighBits(w, min) ELSE {},
                                    IF Msb(w) \in a.zero THEN HighBits(w, min) ELSE {})

\* A binary instruction; old is what was known of it, kept where nothing is computed.
BinaryBits(op, a, b, w, old) ==
  CASE op = "IntAdd" -> AddCarry(a, b, TRUE, FALSE, w)
    [] op = "IntSub" -> AddCarry(a, Known(b.zero, b.one), FALSE, TRUE, w)
    [] op = "IntMul" -> Mul(a, b, w)
    [] op = "IntURem" -> IF Num(UMin(b)) > Num(UMax(a, w)) THEN a ELSE Unknown
    [] op = "IntUDiv" -> IF HasLog2(b, w) THEN RightShift(a, Log2(b.one), w) ELSE old
    [] op = "IntSDiv" -> IF HasLog2(b, w) /\ Msb(w) \in a.zero
                         THEN RightShift(a, Log2(b.one), w) ELSE old
    [] op = "IntSRem" -> Remainder(a, b, w)
    [] op = "Xor" -> Known((a.zero \cap b.one) \cup (a.one \cap b.zero),
                           (a.zero \cap b.zero) \cup (a.one \cap b.one))
    [] op = "And" -> Known(a.one \cap b.one, a.zero \cup b.zero)
    [] op = "Or"  -> Known(a.one \cup b.one, a.zero \cap b.zero)
    [] OTHER -> ShiftBits(op, a, b, w)

-----------------------------------------------------------------------------
(* What the attributer asks of the analysis.  A function is its body and the *)
(* adds that carry the NSW and the NUW flag.                                 *)

Node(c, v) == c.body[v]
MinMaxOps  == {"UMax", "UMin", "SMax", "SMin"}
CountOps   == {"CTLZ", "CTTZ", "PopCnt"}

KnownStart(c, v) == Unknown

\* The inputs of a block argument that are looked at: the loop is left as soon as
\* nothing is known of those before.
MeetOf(k)      == Known({i \in UNION {k[r].one : r \in DOMAIN k} : \A r \in DOMAIN k : i \in k[r].one},
                        {i \in UNION {k[r].zero : r \in DOMAIN k} : \A r \in DOMAIN k : i \in k[r].zero})
Prefix(args, n, f) == [r \in {args[i] : i \in 1..n} |-> f[r]]
PhiReads(args, f) ==
  {args[n] : n \in {m \in DOMAIN args : \A k \in 1..(m - 1) : MeetOf(Prefix(args, k, f)) # Unknown}}

KnownReads(c, v, f) ==
  LET n == Node(c, v)
  IN CASE n.op = "Phi"    -> PhiReads(n.args, f)
       [] n.op = "Select" -> {n.args[2], n.args[3]}
       [] n.op = "ICmp"   -> {}
       [] OTHER           -> Range(n.args)

KnownUpdate(c, v, old, seen) ==
  LET n == Node(c, v)
      w == n.w
      k(i)  == seen[n.args[i]]
      aw(i) == Node(c, n.args[i]).w
  IN CASE n.op \in {"Const", "Given"} -> n.known
       [] n.op = "Poison"             -> Exactly({}, w)
       [] n.op \in {"Any", "IntNeg"}  -> old
       [] n.op = "Phi"                -> MeetOf(seen)
       [] n.op = "ICmp"               -> Known({}, HighBits(w, w - 1))
       [] n.op = "Not"                -> Known(k(1).zero, k(1).one)
       [] n.op = "Abs"                -> AbsBits(k(1), w)
       [] n.op = "Select"             -> Meet(k(2), k(3))
       [] n.op \in {"ZExt", "SExt", "ITrunc"} -> Extend(n.op, k(1), aw(1), w)
       [] n.op \in CountOps           -> CountBits(n.op, k(1), aw(1), w)
       [] n.op \in MinMaxOps          -> MinMax(n.op, k(1), k(2), w)
       [] n.op \in BinaryOps          -> BinaryBits(n.op, k(1), k(2), w, old)

NoSignedWrap(a, b, w) ==
  /\ Signed(SMax(a, w), w) + Signed(SMax(b, w), w) < 2 ^ (w - 1) - 1
  /\ Signed(SMin(a, w), w) + Signed(SMin(b, w), w) >= -(2 ^ (w - 1))
NoUnsignedWrap(a, b, w) ==
  /\ Num(UMax(a, w)) + Num(UMax(b, w)) < 2 ^ w - 1
  /\ Num(a.one) + Num(b.one) # 0

\* An add whose operands have facts gets the flags they prove.
KnownMaterialize(c, todo, created, f) ==
  LET adds == {v \in todo : Node(c, v).op = "IntAdd" /\ Range(Node(c, v).args) \subseteq created}
      k(v, i) == f[Node(c, v).args[i]]
  IN [c EXCEPT !.nsw = @ \cup {v \in adds : NoSignedWrap(k(v, 1), k(v, 2), Node(c, v).w)},
               !.nuw = @ \cup {v \in adds : NoUnsignedWrap(k(v, 1), k(v, 2), Node(c, v).w)}]

-----------------------------------------------------------------------------
(* Executions: what the nodes of a program evaluate to *)

Eval(n, arg, aw) ==     \* {} for poison
  CASE n.op \in BinaryOps -> FoldBinary(n.op, arg[1], arg[2], n.w)
    [] n.op \in MinMaxOps ->
         {IF Compare(CASE n.op = "UMax" -> "UGE" [] n.op = "UMin" -> "ULE"
                       [] n.op = "SMax" -> "SGE" [] n.op = "SMin" -> "SLE",
                     arg[1], arg[2], n.w) THEN arg[1] ELSE arg[2]}
    [] n.op = "CTLZ"   -> {Bits(Clz(arg[1], aw), n.w)}
    [] n.op = "CTTZ"   -> {Bits(Ctz(arg[1], aw), n.w)}
    [] n.op = "PopCnt" -> {Bits(Cardinality(arg[1]), n.w)}
    [] n.op = "Not"    -> {All(n.w) \ arg[1]}
    [] n.op = "IntNeg" -> {Bits(2 ^ n.w - Num(arg[1]), n.w)}
    [] n.op = "Abs"    -> {IF Msb(n.w) \in arg[1] THEN Bits(2 ^ n.w - Num(arg[1]), n.w) ELSE arg[1]}
    [] n.op \in {"ZExt", "ITrunc"} -> {Widen(arg[1], n.w)}
    [] n.op = "SExt"   -> {SExt(arg[1], aw, n.w)}
    [] n.op = "ICmp"   -> {IF Compare(n.pred, arg[1], arg[2], aw) THEN {0} ELSE {}}

\* One pass over the nodes, from the inputs, with the block argument given as in,
\* or, when in is empty, taking what the edge into the loop passes.
Pass(prog, inputs, in) ==
  LET val[v \in 0..Len(prog)] ==
        IF v = 0 THEN <<>>
        ELSE LET before == val[v - 1]
                 n == prog[v]
                 r == CASE n.op = "Const"          -> {n.known.one}
                        [] n.op \in {"Any", "Given"} -> {inputs[v]}
                        [] n.op = "Phi"            -> IF in = <<>> THEN before[n.args[1]] ELSE in[1]
                        [] n.op = "Poison"         -> {}
                        [] n.op = "Select"         -> UNION {before[n.args[IF 0 \in s THEN 2 ELSE 3]] : s \in before[n.args[1]]}
                        [] OTHER ->
                             IF \E i \in DOMAIN n.args : before[n.args[i]] = {} THEN {}
                             ELSE Eval(n, [i \in DOMAIN n.args |-> CHOOSE x \in before[n.args[i]] : TRUE],
                                       prog[n.args[1]].w)
             IN Append(before, r)
  IN val[Len(prog)]

\* The passes of a loop that goes round up to MaxRounds times.
MaxRounds == 2 ^ MaxWidth
PassesFrom(prog, inputs) ==
  LET phis  == {v \in DOMAIN prog : prog[v].op = "Phi"}
      round[k \in 0..MaxRounds] ==
        IF k = 0 \/ phis = {} THEN Pass(prog, inputs, <<>>)
        ELSE Pass(prog, inputs, <<round[k - 1][prog[CHOOSE v \in phis : TRUE].args[2]]>>)
  IN {round[k] : k \in 0..MaxRounds}

Allowed(n, s) == n.known.one \subseteq s /\ s \cap n.known.zero = {}
InputsOf(prog) ==
  LET leaves == {v \in DOMAIN prog : prog[v].op \in {"Any", "Given"}}
  IN {x \in [leaves -> SUBSET All(MaxWidth)] :
        \A v \in leaves : x[v] \subseteq All(prog[v].w) /\ Allowed(prog[v], x[v])}

Executions(prog) == UNION {PassesFrom(prog, x) : x \in InputsOf(prog)}
=============================================================================
