------------------------------- MODULE InstFold -------------------------------
(***************************************************************************)
(* Folding an instruction to a constant, to poison or to a value that is   *)
(* there already (optim/func_passes/inst_fold.cpp), for integers.  What is *)
(* folded is a node of a function as KnownBits has it; comparisons use the *)
(* facts the attributer left.  A fold is the set of what the node becomes: *)
(* nothing, or one of the three.                                           *)
(***************************************************************************)
EXTENDS KnownBits

ToConst(s) == {[to |-> "Const", bits |-> s]}
ToValue(v) == {[to |-> "Value", node |-> v]}
ToPoison   == {[to |-> "Poison"]}
NoFold     == {}

IsConst(c, v)  == Node(c, v).op = "Const"
IsPoison(c, v) == Node(c, v).op = "Poison"
BitsOf(c, v)   == Node(c, v).known.one

-----------------------------------------------------------------------------
(* Binary and unary instructions *)

Commutes(op) == op \in {"IntAdd", "IntMul", "And", "Or", "Xor"}

\* One operand is the constant k, the other one the value x.
FoldIdentity(op, x, k, onRight, w) ==
  LET shift == onRight /\ op \in {"Shl", "Shr", "AShr"}
  IN IF \/ k = {} /\ op \in {"IntAdd", "Or", "Xor"}
        \/ k = {} /\ op = "IntSub" /\ onRight
        \/ k = {0} /\ op = "IntMul"
        \/ k = {0} /\ op \in {"IntSDiv", "IntUDiv"} /\ onRight
        \/ k = All(w) /\ op = "And"
        \/ k = {} /\ shift
     THEN ToValue(x)
     ELSE IF \/ k = {} /\ op \in {"IntMul", "And"}
             \/ k = {0} /\ op \in {"IntSRem", "IntURem"} /\ onRight
     THEN ToConst({})
     ELSE IF k = All(w) /\ op = "Or" THEN ToConst(All(w))
     ELSE IF shift /\ Num(k) >= w THEN ToPoison
     ELSE NoFold

FoldBinaryInstr(c, n) ==
  LET a == n.args[1]
      b == n.args[2]
      isConst == {i \in 1..2 : IsConst(c, n.args[i])}
      result  == FoldBinary(n.op, BitsOf(c, a), BitsOf(c, b), n.w)
  IN IF IsPoison(c, a) \/ IsPoison(c, b) THEN ToPoison
     ELSE IF isConst = {1, 2}
     THEN IF result = {} THEN ToPoison ELSE UNION {ToConst(s) : s \in result}
     ELSE IF a = b /\ n.op \in {"And", "Or"} THEN ToValue(a)
     ELSE IF a = b /\ n.op \in {"IntSub", "Xor"} THEN ToConst({})
     ELSE IF 2 \in isConst THEN FoldIdentity(n.op, a, BitsOf(c, b), TRUE, n.w)
     ELSE IF 1 \in isConst /\ Commutes(n.op) THEN FoldIdentity(n.op, b, BitsOf(c, a), FALSE, n.w)
     ELSE NoFold

FoldUnary(c, n) ==
  LET a == n.args[1]
      k == BitsOf(c, a)
  IN IF IsPoison(c, a) THEN ToPoison
     ELSE IF n.op = "Not" /\ Node(c, a).op = "Not" THEN ToValue(Node(c, a).args[1])
     ELSE IF ~IsConst(c, a) THEN NoFold
     ELSE ToConst(IF n.op = "Not" THEN All(n.w) \ k ELSE Bits(2 ^ n.w - Num(k), n.w))

-----------------------------------------------------------------------------
(* Changes of width, selects *)

FoldWidth(c, n) ==
  LET a   == n.args[1]
      old == Node(c, a).w
      k   == BitsOf(c, a)
  IN IF old = n.w THEN ToValue(a)
     ELSE IF IsPoison(c, a) THEN ToPoison
     ELSE IF ~IsConst(c, a) \/ (n.op = "ITrunc" /\ n.w > old) THEN NoFold
     ELSE ToConst(IF n.op = "SExt" THEN SExt(k, old, n.w) ELSE Widen(k, n.w))

FoldSelect(c, n) ==
  LET cond == n.args[1]
  IN IF IsPoison(c, cond) THEN ToValue(n.args[3])
     ELSE IF IsConst(c, cond) THEN ToValue(n.args[IF BitsOf(c, cond) = {} THEN 3 ELSE 2])
     ELSE IF n.args[2] = n.args[3] THEN ToValue(n.args[2])
     ELSE NoFold

FoldIntrinsic(c, n) ==
  LET k(i) == BitsOf(c, n.args[i])
      less == IF n.op \in {"SMax", "SMin"} THEN "SLT" ELSE "ULT"
      second == IF n.op \in {"UMax", "SMax"} THEN Compare(less, k(1), k(2), n.w)
                ELSE Compare(less, k(2), k(1), n.w)
  IN IF \E i \in DOMAIN n.args : ~IsConst(c, n.args[i]) THEN NoFold
     ELSE IF n.op = "Abs"
     THEN ToConst(IF Msb(n.w) \in k(1) THEN Bits(2 ^ n.w - Num(k(1)), n.w) ELSE k(1))
     ELSE ToConst(k(IF second THEN 2 ELSE 1))

-----------------------------------------------------------------------------
(* Comparisons *)

Truth(b) == ToConst(IF b THEN {0} ELSE {})

SignedCompare(pred) == pred \in {"SLT", "SLE", "SGT", "SGE"}
Greatest(pred, k, w) == IF SignedCompare(pred) THEN Signed(SMax(k, w), w) ELSE Num(UMax(k, w))

\* Mutant of Least: signed comparisons too take the smallest unsigned value.
LeastUnsigned(pred, k, w) == Num(UMin(k))

Least(pred, k, w) == IF SignedCompare(pred) THEN Signed(SMin(k, w), w) ELSE Num(UMin(k))

FoldCompareKnown(pred, a, b, w) ==
  LET Lo(k)  == Least(pred, k, w)
      Hi(k)  == Greatest(pred, k, w)
      differ == a.one \cap b.zero # {} \/ a.zero \cap b.one # {}
      always == CASE pred \in {"UGT", "SGT"} -> Lo(a) > Hi(b)
                  [] pred \in {"UGE", "SGE"} -> Lo(a) >= Hi(b)
                  [] pred \in {"ULT", "SLT"} -> Hi(a) < Lo(b)
                  [] pred \in {"ULE", "SLE"} -> Hi(a) <= Lo(b)
                  [] pred = "NE" -> differ
                  [] pred = "EQ" -> FALSE
      never  == CASE pred \in {"UGT", "SGT"} -> Hi(a) <= Lo(b)
                  [] pred \in {"UGE", "SGE"} -> Hi(a) < Lo(b)
                  [] pred \in {"ULT", "SLT"} -> Lo(a) >= Hi(b)
                  [] pred \in {"ULE", "SLE"} -> Lo(a) > Hi(b)
                  [] pred = "EQ" -> differ
                  [] pred = "NE" -> FALSE
  IN IF always \/ never THEN Truth(always) ELSE NoFold

FoldCompare(c, n, f) ==
  LET a == n.args[1]
      b == n.args[2]
      w == Node(c, a).w
  IN IF a = b /\ ~IsConst(c, a) /\ ~IsPoison(c, a)
     THEN Truth(n.pred \in {"EQ", "ULE", "UGE", "SLE", "SGE"})
     ELSE IF IsPoison(c, a) \/ IsPoison(c, b) THEN ToPoison
     ELSE IF IsConst(c, a) /\ IsConst(c, b)
     THEN Truth(Compare(n.pred, BitsOf(c, a), BitsOf(c, b), w))
     ELSE FoldCompareKnown(n.pred, f[a], f[b], w)

\* What node v folds to, f being the facts.
Fold(c, v, f) ==
  LET n == Node(c, v)
  IN CASE n.op \in BinaryOps -> FoldBinaryInstr(c, n)
       [] n.op \in {"Not", "IntNeg"} -> FoldUnary(c, n)
       [] n.op \in {"ZExt", "SExt", "ITrunc"} -> FoldWidth(c, n)
       [] n.op = "Select" -> FoldSelect(c, n)
       [] n.op = "ICmp" -> FoldCompare(c, n, f)
       [] n.op \in MinMaxOps \cup {"Abs"} -> FoldIntrinsic(c, n)
       [] OTHER -> NoFold
=============================================================================
