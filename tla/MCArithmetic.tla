----------------------------- MODULE MCArithmetic -----------------------------
(***************************************************************************)
(* What the optimizer computes with integers: an initial state per task,   *)
(* which is a function whose bits are to be known, a long division, a pair *)
(* of wide values or a division by a constant.  The last two take no step. *)
(***************************************************************************)
EXTENDS MCKnownBits, LongDivision, WideInts, ConstDiv

CONSTANTS
  WideWidths,   \* bits of the wide values
  DivWidths     \* bits of the operands divided by a constant

VARIABLE task

NoAttributes ==
  /\ code = Clean(<<>>)
  /\ created = {} /\ deps = {} /\ forced = {} /\ toMaterialize = {}
  /\ fact = [value \in Values |-> Unknown]
  /\ queued = {} /\ running = FALSE

NoDivision ==
  /\ u = Zero(1) /\ v = Zero(1) /\ m = 0 /\ n = 0 /\ s = 0 /\ un = Zero(1) /\ vn = Zero(1)
  /\ q = Zero(1) /\ r = Zero(1) /\ j = -1 /\ pc = "idle"

Wide ==
  task \in UNION {[kind : {"wide"}, a : 0..(2 ^ w - 1), b : 0..(2 ^ w - 1), w : {w}] : w \in WideWidths}
ByConstant ==
  task \in UNION {[kind : {"constant"}, d : 0..(2 ^ w - 1), w : {w}, signed : BOOLEAN, rest : BOOLEAN] :
                    w \in DivWidths}

TaskInit == \/ task = [kind |-> "function"] /\ Init /\ NoDivision
            \/ task = [kind |-> "long"] /\ DivInit /\ NoAttributes
            \/ (Wide \/ ByConstant) /\ NoAttributes /\ NoDivision

TaskNext == \/ task.kind = "function" /\ Next /\ UNCHANGED <<divVars, task>>
            \/ task.kind = "long" /\ DivNext /\ UNCHANGED <<vars, task>>

\* Fair to the attributer, as FairSpec is.
TaskSpec ==
  /\ TaskInit /\ [][TaskNext]_<<vars, divVars, task>>
  /\ WF_vars(\E value \in Values : Step(value) /\ UNCHANGED <<divVars, task>>)
  /\ WF_vars(EndRun /\ UNCHANGED <<divVars, task>>)

-----------------------------------------------------------------------------
(* Properties *)

\* a divided by b, towards zero, for b not 0.
Quotient(a, b) ==
  LET magnitude(x) == IF x < 0 THEN -x ELSE x
      down == magnitude(a) \div magnitude(b)
  IN IF (a < 0) = (b < 0) THEN down ELSE -down

\* The loops over words, with their carries, shifts across words and signs, compute
\* what the operations mean modulo 2^w, and the overflow flags say when that differs.
WideIntsExact ==
  task.kind = "wide" =>
    LET w  == task.w
        a  == FromWords(task.a, w)
        b  == FromWords(task.b, w)
        sa == SignedOf(task.a, w)
        sb == SignedOf(task.b, w)
        Is(x, value) == x = FromWords(value % 2 ^ w, w)
        fits(x) == x \in -(2 ^ (w - 1))..(2 ^ (w - 1) - 1)
    IN /\ Is(AddWide(a, b, w), task.a + task.b) /\ Is(SubWide(a, b, w), task.a - task.b)
       /\ Is(MulWide(a, b, w), task.a * task.b)
       /\ LessN(a, b) <=> task.a < task.b
       /\ SltWide(a, b, w) <=> sa < sb
       /\ UAddOv(a, b, w) <=> task.a + task.b >= 2 ^ w
       /\ USubOv(a, b, w) <=> task.a < task.b
       /\ UMulOv(a, b, w) <=> task.a * task.b >= 2 ^ w
       /\ SAddOv(a, b, w) <=> ~fits(sa + sb)
       /\ SSubOv(a, b, w) <=> ~fits(sa - sb)
       /\ SMulOv(a, b, w) <=> ~fits(sa * sb)
       /\ task.b # 0 => /\ Is(SDivWide(a, b, w), Quotient(sa, sb))
                        /\ Is(SRemWide(a, b, w), sa - sb * Quotient(sa, sb))
       /\ task.b = 0 => \A k \in 0..(w + 1) :
            /\ Is(ShlWide(a, k, w), task.a * 2 ^ k) /\ Is(LShrWide(a, k, w), task.a \div 2 ^ k)
            /\ Is(AShrWide(a, k, w), sa \div 2 ^ k)
            /\ SExtWide(a, w, w + k) = FromWords(sa % 2 ^ (w + k), w + k)
            /\ k \in 1..w => TruncWide(a, k) = FromWords(task.a % 2 ^ k, k)

\* The code emitted for a division by a constant leaves the quotient or the rest for
\* every operand.
ConstDivExact ==
  task.kind = "constant" /\ Matches(task.d, task.w, task.signed) =>
    \A x \in 0..(2 ^ task.w - 1) :
      LET number(y) == IF task.signed THEN SignedOf(y, task.w) ELSE y
          quotient  == Quotient(number(x), number(task.d))
      IN ConstDivCode(x, task.d, task.w, task.signed, task.rest) =
           (IF task.rest THEN number(x) - number(task.d) * quotient ELSE quotient) % 2 ^ task.w
=============================================================================
