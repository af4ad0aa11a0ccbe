------------------------------- MODULE WideInts -------------------------------
(***************************************************************************)
(* Integers of more than two words (utils/APInt.cpp): the loops over the   *)
(* words.  A value is a function from word positions, the lowest first,    *)
(* and its width in bits is kept beside it; unused high bits are zero.     *)
(* Division is LongDivision, here its result.                              *)
(***************************************************************************)
EXTENDS Integers, FiniteSetsExt

CONSTANT WordBits   \* bits of a word, 64 in the code
ASSUME WordAssumption == WordBits \in Nat \ {0}

Base       == 2 ^ WordBits
WordsFor(w) == (w + WordBits - 1) \div WordBits
Top(a)     == Max(DOMAIN a)
AllOnes    == Base - 1

\* The value as a number, and the words of a number.
Unsigned(a) == MapThenSumSet(LAMBDA i : a[i] * Base ^ i, DOMAIN a)
FromWords(x, w) == [i \in 0..(WordsFor(w) - 1) |-> (x \div Base ^ i) % Base]

ClearUnused(a, w) ==
  IF w % WordBits = 0 THEN a ELSE [a EXCEPT ![Top(a)] = @ % 2 ^ (w % WordBits)]

-----------------------------------------------------------------------------
(* The loops *)

AddN(a, b) ==
  LET carry[i \in 0..Top(a)] ==
        IF i = 0 THEN 0 ELSE (a[i - 1] + b[i - 1] + carry[i - 1]) \div Base
  IN [i \in DOMAIN a |-> (a[i] + b[i] + carry[i]) % Base]

SubN(a, b) ==
  LET borrow[i \in 0..Top(a)] ==
        IF i > 0 /\ a[i - 1] - b[i - 1] - borrow[i - 1] < 0 THEN 1 ELSE 0
  IN [i \in DOMAIN a |-> (a[i] - b[i] - borrow[i]) % Base]

\* One row per word of a, added up from the position of that word on.
MulN(a, b) ==
  LET row[n \in 0..(Top(a) + 1)] ==
        IF n = 0 THEN [i \in DOMAIN a |-> 0]
        ELSE LET above == row[n - 1]
                 k     == n - 1
                 carry[i \in k..Top(a)] ==
                   IF i = k THEN 0
                   ELSE (a[k] * b[i - 1 - k] + above[i - 1] + carry[i - 1]) \div Base
             IN [i \in DOMAIN a |->
                   IF i < k THEN above[i] ELSE (a[k] * b[i - k] + above[i] + carry[i]) % Base]
  IN row[Top(a) + 1]

LessN(a, b) ==
  LET differ == {i \in DOMAIN a : a[i] # b[i]}
  IN differ # {} /\ a[Max(differ)] < b[Max(differ)]

ShlN(a, amt) ==
  LET ws == amt \div WordBits
      bs == amt % WordBits
  IN [i \in DOMAIN a |->
        IF i < ws THEN 0
        ELSE ((a[i - ws] * 2 ^ bs) % Base)
               + (IF bs # 0 /\ i > ws THEN a[i - ws - 1] \div 2 ^ (WordBits - bs) ELSE 0)]

\* fill is shifted in from the top, 0 or AllOnes.
ShrN(a, amt, fill) ==
  LET ws == amt \div WordBits
      bs == amt % WordBits
      word(i) == IF i + ws <= Top(a) THEN a[i + ws] ELSE fill
  IN [i \in DOMAIN a |->
        (word(i) \div 2 ^ bs) + (IF bs = 0 THEN 0 ELSE (word(i + 1) * 2 ^ (WordBits - bs)) % Base)]

-----------------------------------------------------------------------------
(* The operations *)

Bit(a, i)   == (a[i \div WordBits] \div 2 ^ (i % WordBits)) % 2
IsNeg(a, w) == Bit(a, w - 1) = 1

AddWide(a, b, w) == ClearUnused(AddN(a, b), w)
SubWide(a, b, w) == ClearUnused(SubN(a, b), w)
MulWide(a, b, w) == ClearUnused(MulN(a, b), w)
NegWide(a, w)    == SubWide(FromWords(0, w), a, w)

ShlWide(a, amt, w)  == IF amt >= w THEN FromWords(0, w) ELSE ClearUnused(ShlN(a, amt), w)
LShrWide(a, amt, w) == IF amt >= w THEN FromWords(0, w) ELSE ShrN(a, amt, 0)

SltWide(a, b, w) == IF IsNeg(a, w) # IsNeg(b, w) THEN IsNeg(a, w) ELSE LessN(a, b)

ZExtWide(a, w) == [i \in 0..(WordsFor(w) - 1) |-> IF i \in DOMAIN a THEN a[i] ELSE 0]

\* Mutant of SExtWide: the word the sign is in stays as it is.
SExtWideWholeWords(a, old, w) ==
  LET first == (old + WordBits - 1) \div WordBits
      r     == [i \in DOMAIN ZExtWide(a, w) |->
                  IF IsNeg(a, old) /\ i >= first THEN AllOnes ELSE ZExtWide(a, w)[i]]
  IN ClearUnused(r, w)

SExtWide(a, old, w) ==
  LET first == old \div WordBits
      rem   == old % WordBits
      r     == [i \in DOMAIN ZExtWide(a, w) |->
                  CASE i < first -> ZExtWide(a, w)[i]
                    [] i = first /\ rem # 0 ->
                         ZExtWide(a, w)[i] + (IF IsNeg(a, old) THEN AllOnes - (2 ^ rem - 1) ELSE 0)
                    [] OTHER -> IF IsNeg(a, old) THEN AllOnes ELSE 0]
  IN ClearUnused(r, w)

TruncWide(a, w) == ClearUnused([i \in 0..(WordsFor(w) - 1) |-> a[i]], w)

\* Extended to whole words, shifted, and cut again.
AShrWide(a, amt, w) ==
  LET by == Min({amt, w - 1})
  IN ClearUnused(ShrN(SExtWide(a, w, WordsFor(w) * WordBits), by,
                      IF IsNeg(a, w) THEN AllOnes ELSE 0), w)

Magnitude(a, w) == IF IsNeg(a, w) THEN NegWide(a, w) ELSE a
UDivWide(a, b, w) == FromWords(Unsigned(a) \div Unsigned(b), w)
URemWide(a, b, w) == FromWords(Unsigned(a) % Unsigned(b), w)
SDivWide(a, b, w) ==
  LET q == UDivWide(Magnitude(a, w), Magnitude(b, w), w)
  IN IF IsNeg(a, w) # IsNeg(b, w) THEN NegWide(q, w) ELSE q
SRemWide(a, b, w) ==
  LET r == URemWide(Magnitude(a, w), Magnitude(b, w), w)
  IN IF IsNeg(a, w) THEN NegWide(r, w) ELSE r

ClzWide(a, w) ==
  LET ones == {i \in 0..(w - 1) : Bit(a, i) = 1} IN IF ones = {} THEN w ELSE w - 1 - Max(ones)

\* Overflow: the results are those of AddWide, SubWide and MulWide.
UAddOv(a, b, w) == LessN(AddWide(a, b, w), a)
USubOv(a, b, w) == LessN(a, b)
UMulOv(a, b, w) == 2 * w - ClzWide(MulWide(ZExtWide(a, 2 * w), ZExtWide(b, 2 * w), 2 * w), 2 * w) > w
SAddOv(a, b, w) == IsNeg(a, w) = IsNeg(b, w) /\ IsNeg(AddWide(a, b, w), w) # IsNeg(a, w)
SSubOv(a, b, w) == IsNeg(a, w) # IsNeg(b, w) /\ IsNeg(SubWide(a, b, w), w) # IsNeg(a, w)
SMulOv(a, b, w) ==
  LET p == MulWide(SExtWide(a, w, 2 * w), SExtWide(b, w, 2 * w), 2 * w)
  IN SExtWide(TruncWide(p, w), w, 2 * w) # p
=============================================================================
