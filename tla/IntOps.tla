-------------------------------- MODULE IntOps --------------------------------
(***************************************************************************)
(* Integers of a few bits (utils/APInt.hpp) and what the instructions on   *)
(* them compute, as the constant folder does (inst_fold.cpp).  An integer  *)
(* is the set of the positions of its one bits, so that and, or and not    *)
(* are the operations on sets; its width is kept with the value it is of.  *)
(***************************************************************************)
EXTENDS Integers, FiniteSets, FiniteSetsExt

CONSTANT MaxWidth   \* bound: the widest integer
ASSUME WidthAssumption == MaxWidth \in Nat \ {0}

All(w)         == 0..(w - 1)
HighBits(w, n) == {i \in All(w) : i >= w - n}
LowBits(w, n)  == {i \in All(w) : i < n}
Msb(w)         == w - 1

NumTable    == [s \in SUBSET All(MaxWidth) |-> MapThenSumSet(LAMBDA i : 2 ^ i, s)]
Num(s)      == NumTable[s]
Signed(s, w) == IF Msb(w) \in s THEN Num(s) - 2 ^ w ELSE Num(s)
Bits(n, w)  == {i \in All(w) : (n \div 2 ^ i) % 2 = 1}   \* wraps around at 2^w

Shl(s, n, w)  == {i \in All(w) : i - n \in s}
LShr(s, n, w) == {i \in All(w) : i + n \in s}
AShr(s, n, w) == LShr(s, n, w) \cup (IF Msb(w) \in s THEN HighBits(w, n) ELSE {})
Widen(s, w)   == s \cap All(w)                                       \* zext_or_trunc
SExt(s, old, w) == Widen(s, w) \cup
                     (IF w > old /\ Msb(old) \in s THEN HighBits(w, w - old) ELSE {})

Clz(s, w)   == IF s = {} THEN w ELSE Msb(w) - Max(s)
Ctz(s, w)   == IF s = {} THEN w ELSE Min(s)
IsPow2(s)   == Cardinality(s) = 1
Log2(s)     == Max(s)

Abs(n)       == IF n < 0 THEN -n ELSE n
Sign(n)      == IF n < 0 THEN -1 ELSE 1
SQuot(a, b)  == Sign(a) * Sign(b) * (Abs(a) \div Abs(b))      \* rounds towards zero
SRest(a, b)  == a - b * SQuot(a, b)

Compare(pred, a, b, w) ==
  CASE pred = "EQ"  -> a = b
    [] pred = "NE"  -> a # b
    [] pred = "ULT" -> Num(a) < Num(b)
    [] pred = "ULE" -> Num(a) <= Num(b)
    [] pred = "UGT" -> Num(a) > Num(b)
    [] pred = "UGE" -> Num(a) >= Num(b)
    [] pred = "SLT" -> Signed(a, w) < Signed(b, w)
    [] pred = "SLE" -> Signed(a, w) <= Signed(b, w)
    [] pred = "SGT" -> Signed(a, w) > Signed(b, w)
    [] pred = "SGE" -> Signed(a, w) >= Signed(b, w)

\* What a binary operation on two constants folds to, {} for poison.
FoldBinary(op, a, b, w) ==
  LET overflows == a = {Msb(w)} /\ b = All(w)
      shifts    == Num(b) < w
  IN CASE op = "IntAdd" -> {Bits(Num(a) + Num(b), w)}
       [] op = "IntSub" -> {Bits(Num(a) - Num(b), w)}
       [] op = "IntMul" -> {Bits(Num(a) * Num(b), w)}
       [] op = "IntUDiv" -> IF b = {} THEN {} ELSE {Bits(Num(a) \div Num(b), w)}
       [] op = "IntURem" -> IF b = {} THEN {} ELSE {Bits(Num(a) % Num(b), w)}
       [] op = "IntSDiv" -> IF b = {} \/ overflows THEN {}
                            ELSE {Bits(SQuot(Signed(a, w), Signed(b, w)), w)}
       [] op = "IntSRem" -> IF b = {} \/ overflows THEN {}
                            ELSE {Bits(SRest(Signed(a, w), Signed(b, w)), w)}
       [] op = "And"  -> {a \cap b}
       [] op = "Or"   -> {a \cup b}
       [] op = "Xor"  -> {(a \ b) \cup (b \ a)}
       [] op = "Shl"  -> IF shifts THEN {Shl(a, Num(b), w)} ELSE {}
       [] op = "Shr"  -> IF shifts THEN {LShr(a, Num(b), w)} ELSE {}
       [] op = "AShr" -> IF shifts THEN {AShr(a, Num(b), w)} ELSE {}

BinaryOps == {"IntAdd", "IntSub", "IntMul", "IntUDiv", "IntURem", "IntSDiv", "IntSRem",
              "And", "Or", "Xor", "Shl", "Shr", "AShr"}
=============================================================================
