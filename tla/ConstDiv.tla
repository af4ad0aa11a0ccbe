------------------------------- MODULE ConstDiv -------------------------------
(***************************************************************************)
(* Division by a constant as multiply and shift: the search for the        *)
(* multiplier (mir/const_div.hpp) and the instructions that are emitted    *)
(* (mir/matcher_const_div.cpp), as what they compute on registers.         *)
(***************************************************************************)
EXTENDS Integers, FiniteSetsExt

CONSTANT RegBits   \* bits of a register, 64 in the code
ASSUME RegAssumption == RegBits \in Nat \ {0}

M == 2 ^ RegBits

BitWidth(x)  == Min({k \in 0..RegBits : x < 2 ^ k})
Zeros(d)     == Max({k \in 0..RegBits : d % 2 ^ k = 0})
IsPowerOf2(d) == d = 2 ^ Zeros(d)
SignedOf(x, w) == IF x >= 2 ^ (w - 1) THEN x - 2 ^ w ELSE x

-----------------------------------------------------------------------------
(* The multipliers *)

Ceil(num, d) == (num + d - 1) \div d

\* Mutant of Fits: the error may be twice as large.
FitsLoosely(num, d, s, w) ==
  LET m == Ceil(num, d)
  IN m * d - num <= 2 ^ (s + 1) /\ m <= 2 ^ w - 1

\* num / d rounded up is close enough and has no more than w bits.
Fits(num, d, s, w) ==
  LET m == Ceil(num, d)
  IN m * d - num <= 2 ^ s /\ m <= 2 ^ w - 1

\* The set holds the magic there is, if any.
UDivMagic(d, w) ==
  LET l(x) == BitWidth(x - 1)
      first(pre)  == IF w = RegBits THEN pre ELSE 0
      shifts(pre) == {s \in first(pre)..l(d \div 2 ^ pre) :
                        Fits(2 ^ (w - pre + s), d \div 2 ^ pre, s, w)}
      magic(pre)  == LET s == Min(shifts(pre))
                     IN [mul |-> Ceil(2 ^ (w - pre + s), d \div 2 ^ pre), pre |-> pre,
                         shift |-> w - pre + s, add |-> FALSE]
  IN IF \/ w < 2 \/ d < 3 \/ IsPowerOf2(d)
        \/ w < RegBits /\ d >= 2 ^ (w - 1)
        \/ w = RegBits /\ d > 2 ^ (w - 1)
     THEN {}
     ELSE IF shifts(0) # {} THEN {magic(0)}
     ELSE IF Zeros(d) # 0 /\ shifts(Zeros(d)) # {} THEN {magic(Zeros(d))}
     ELSE {[mul |-> (2 ^ (w + l(d)) \div d) + 1 - 2 ^ w, pre |-> 0, shift |-> l(d), add |-> TRUE]}

SDivMagic(d, w) ==
  LET shifts == {s \in (IF w = RegBits THEN 1 ELSE 0)..BitWidth(d - 1) :
                   Fits(2 ^ (w - 1 + s), d, s, w)}
  IN IF w < 3 \/ d < 3 \/ IsPowerOf2(d) \/ d > 2 ^ (w - 1) \/ shifts = {} THEN {}
     ELSE {[mul |-> Ceil(2 ^ (w - 1 + Min(shifts)), d), shift |-> w - 1 + Min(shifts)]}

-----------------------------------------------------------------------------
(* What the emitted instructions compute.  A shift takes its count modulo the *)
(* bits of the register.                                                     *)

Shr2(x, k)  == x \div 2 ^ (k % RegBits)
Shl2(x, k)  == (x * 2 ^ (k % RegBits)) % M
Sar2(x, k)  == (SignedOf(x, RegBits) \div 2 ^ (k % RegBits)) % M
Mul2(x, c)  == (x * c) % M
UMulH(x, c) == (x * c) \div M
SMulH(x, c) == ((SignedOf(x, RegBits) * SignedOf(c, RegBits)) \div M) % M

UDivCode(x, d, w) ==
  IF IsPowerOf2(d) THEN Shr2(x, Zeros(d))
  ELSE LET g == CHOOSE g \in UDivMagic(d, w) : TRUE
           y == Shr2(x, g.pre)
           t == IF w = RegBits THEN UMulH(x, g.mul) ELSE Shr2(Mul2(x, g.mul), w)
       IN IF g.add THEN Shr2((Shr2((x - t) % M, 1) + t) % M, g.shift - 1)
          ELSE IF w = RegBits THEN Shr2(UMulH(y, g.mul), g.shift - RegBits)
          ELSE Shr2(Mul2(y, g.mul), g.shift)

\* What makes a shift to the right round towards zero.
Bias(x, k) == Shr2(Sar2(x, RegBits - 1), RegBits - k)

\* x is sign extended to the register, d is signed.
SDivCode(x, d, w) ==
  LET ad == IF d < 0 THEN -d ELSE d
      k  == Zeros(ad)
      g  == CHOOSE g \in SDivMagic(ad, w) : TRUE
      t  == SMulH(x, g.mul)
      q0 == IF w = RegBits
            THEN Sar2(IF g.mul >= 2 ^ (RegBits - 1) THEN (t + x) % M ELSE t, g.shift - RegBits)
            ELSE Sar2(Mul2(x, g.mul), g.shift)
      q  == IF ad = 1 THEN x
            ELSE IF IsPowerOf2(ad) THEN Sar2((x + Bias(x, k)) % M, k)
            ELSE (q0 + Shr2(q0, RegBits - 1)) % M
  IN IF d < 0 THEN (-q) % M ELSE q

\* Whether generate_const_div takes a division of w bits by the constant raw.
Matches(raw, w, signed) ==
  LET sd == SignedOf(raw, w)
      ad == IF sd < 0 THEN -sd ELSE sd
  IN /\ raw # 0
     /\ IF signed THEN sd # -1 /\ (IsPowerOf2(ad) \/ SDivMagic(ad, w) # {})
        ELSE IsPowerOf2(raw) \/ UDivMagic(raw, w) # {}

\* What the emitted code leaves for the operand given: quotient or rest.
ConstDivCode(given, raw, w, signed, rest) ==
  LET x  == IF signed THEN SignedOf(given, w) % M ELSE given
      sd == SignedOf(raw, w)
      ad == IF sd < 0 THEN -sd ELSE sd
      k  == Zeros(ad)
      q  == IF signed THEN SDivCode(x, sd, w) ELSE UDivCode(x, raw, w)
      r  == IF ~rest THEN q
            ELSE IF ~signed /\ IsPowerOf2(raw) THEN x % raw
            ELSE IF signed /\ ad # 1 /\ IsPowerOf2(ad)
            THEN (x - Shl2(Sar2((x + Bias(x, k)) % M, k), k)) % M
            ELSE (x - Mul2(q, (IF signed THEN sd ELSE raw) % M)) % M
  IN r % 2 ^ w
=============================================================================
