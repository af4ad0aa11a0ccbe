-------------------------- MODULE ArithmeticProofs --------------------------
(***************************************************************************)
(* What the constant folder and its analysis rest on.  The attributer:     *)
(* AtFixpoint for every analysis that asks in an orderly way, whatever the *)
(* order of the worklist: what an update reads is decided by what it has   *)
(* read so far, and materializing changes neither what is read nor what an *)
(* update computes.  The division of wide integers: DivisionExact for      *)
(* limbs of every width and operands of any number of them.                *)
(***************************************************************************)
EXTENDS Attributer, LongDivision, FiniteSetTheorems, WellFoundedInduction, TLAPS

-----------------------------------------------------------------------------
(* The attributer.                                                          *)

IsFacts(f) == f = [x \in Values |-> f[x]]

\* F holds every function a pass can reach.
Closed(F) ==
  /\ Codes \subseteq F
  /\ \A c \in F : Edits(c) \subseteq F
  /\ \A c \in F : \A todo, made, f : Materialize(c, todo, made, f) \in F

\* An update asks for the next value on account of the ones it has asked for: with
\* the same facts about those it asks for the same values.
ReadsSettled(F) ==
  \A c \in F, x \in Values : \A f, g :
    IsFacts(f) /\ IsFacts(g) =>
      /\ Reads(c, x, f) \subseteq Values
      /\ (\A z \in Reads(c, x, f) : g[z] = f[z]) => Reads(c, x, g) = Reads(c, x, f)

\* Flags set by materialize_impl are nothing an update looks at.
FlagsUnread(F) ==
  \A c \in F, x \in Values : \A todo, made, f :
    LET d == Materialize(c, todo, made, f)
    IN \A g : /\ Reads(d, x, g) = Reads(c, x, g)
              /\ Result(d, x, g) = Result(c, x, g)

Orderly(F) == Closed(F) /\ ReadsSettled(F) /\ FlagsUnread(F)

-----------------------------------------------------------------------------
(* The inductive invariant *)

Shape(F) ==
  /\ code \in F /\ IsFacts(fact)
  /\ created \subseteq Values
  /\ ~running => queued = {}

\* A value at rest has the fact its sources give it, and each source is there and
\* knows whom to wake.
RestAt(x) ==
  /\ Result(code, x, fact) = fact[x]
  /\ \A z \in Reads(code, x, fact) : z \in created /\ <<z, x>> \in deps

AtRest == \A x \in created \ (queued \cup forced) : RestAt(x)

Inv(F) == Shape(F) /\ AtRest

\* Nothing is created at first.
LEMMA InitInv ==
  ASSUME NEW F, Orderly(F), Init
  PROVE  Inv(F)
BY DEF Init, Inv, Shape, AtRest, Orderly, Closed, IsFacts

\* A fact that does not change what v reads, nor v's own, leaves v at rest.
LEMMA SameResult ==
  ASSUME NEW F, Orderly(F), NEW c \in F, NEW x \in Values, NEW f, NEW g,
         IsFacts(f), IsFacts(g), g[x] = f[x],
         \A z \in Reads(c, x, f) : g[z] = f[z]
  PROVE  Reads(c, x, g) = Reads(c, x, f) /\ Result(c, x, g) = Result(c, x, f)
<1>1. Reads(c, x, g) = Reads(c, x, f)
  BY DEF Orderly, ReadsSettled
<1>2. [z \in Reads(c, x, g) |-> g[z]] = [z \in Reads(c, x, f) |-> f[z]]
  BY <1>1
<1> QED
  BY <1>1, <1>2, Zenon DEF Result

\* What Ask and Run do to the values at rest: they only put some of them to work.
LEMMA AskInv ==
  ASSUME NEW F, Orderly(F), Inv(F), NEW a \in Values, Ask(a)
  PROVE  Inv(F)'
<1>1. Shape(F)'
  BY DEF Inv, Shape, Ask, IsFacts
<1>2. ASSUME NEW x \in created' \ (queued' \cup forced') PROVE RestAt(x)'
  <2>1. x \in created \ (queued \cup forced)
    BY <1>2 DEF Ask
  <2>2. RestAt(x)
    BY <2>1 DEF Inv, AtRest
  <2> QED
    BY <2>2 DEF RestAt, Ask, Result
<1> QED
  BY <1>1, <1>2 DEF Inv, AtRest

LEMMA RunInv ==
  ASSUME NEW F, Orderly(F), Inv(F), Run
  PROVE  Inv(F)'
<1>1. Shape(F)'
  BY DEF Inv, Shape, Run, IsFacts
<1>2. ASSUME NEW x \in created' \ (queued' \cup forced') PROVE RestAt(x)'
  <2>1. x \in created \ (queued \cup forced)
    BY <1>2 DEF Run, Inv, Shape
  <2>2. RestAt(x)
    BY <2>1 DEF Inv, AtRest
  <2> QED
    BY <2>2 DEF RestAt, Run, Result
<1> QED
  BY <1>1, <1>2 DEF Inv, AtRest

\* An update leaves at rest everyone it does not put on the worklist: itself only
\* when nothing changed, and another value when it reads nothing that changed.
LEMMA StepInv ==
  ASSUME NEW F, Orderly(F), Inv(F), NEW x \in Values, Step(x)
  PROVE  Inv(F)'
<1> DEFINE reads == Reads(code, x, fact)
           fresh == reads \ created
           new   == Result(code, x, fact)
<1>1. /\ running /\ x \in queued
      /\ created' = created \cup reads
      /\ deps' = deps \cup {<<z, x>> : z \in reads}
      /\ fact' = [fact EXCEPT ![x] = new]
      /\ queued' = (queued \ {x}) \cup fresh \cup Dependents(x, deps', new # fact[x])
      /\ code' = code /\ forced' = forced /\ running' = running
  BY DEF Step, Asked
<1>2. /\ code \in F /\ IsFacts(fact) /\ created \subseteq Values
      /\ reads \subseteq Values
  BY DEF Inv, Shape, Orderly, ReadsSettled
<1> HIDE DEF new
<1>3. fact'[x] = new /\ \A y \in Values : y # x => fact'[y] = fact[y]
  BY <1>1, <1>2 DEF IsFacts
<1>4. IsFacts(fact)'
  BY <1>1, <1>2 DEF IsFacts
<1>5. new = fact[x] => fact' = fact
  BY <1>1, <1>2 DEF IsFacts
<1>6. new # fact[x] => \A y \in Values : y = x \/ <<x, y>> \in deps => y \in queued'
  BY <1>1 DEF Dependents
<1>7. Shape(F)'
  BY <1>1, <1>2, <1>4 DEF Inv, Shape
<1>8. ASSUME NEW y \in created' \ (queued' \cup forced') PROVE RestAt(y)'
  <2>1. CASE y = x
    <3>1. new = fact[x] /\ fact' = fact
      BY <1>5, <1>6, <1>8, <2>1
    <3>2. Result(code, x, fact)' = fact'[x] /\ Reads(code, x, fact)' = reads
      BY <1>1, <3>1, Zenon DEF new, Result
    <3> QED
      BY <1>1, <2>1, <3>2 DEF RestAt
  <2>2. CASE y # x
    <3>1. y \in created \ (queued \cup forced) /\ y \in Values
      BY <1>1, <1>2, <1>8, <2>2
    <3>2. RestAt(y)
      BY <3>1 DEF Inv, AtRest
    <3>3. \A z \in Reads(code, y, fact) : fact'[z] = fact[z]
      <4> SUFFICES ASSUME NEW z \in Reads(code, y, fact) PROVE fact'[z] = fact[z]
        OBVIOUS
      <4>1. z \in Values
        BY <1>2, <3>1 DEF Orderly, ReadsSettled
      <4>2. z = x => new = fact[x]
        BY <1>6, <1>8, <3>1, <3>2, <2>2 DEF RestAt
      <4> QED
        BY <1>3, <4>1, <4>2
    <3>4. fact'[y] = fact[y]
      BY <1>3, <2>2, <3>1
    <3>5. /\ Reads(code, y, fact') = Reads(code, y, fact)
          /\ Result(code, y, fact') = Result(code, y, fact)
      BY <1>2, <1>4, <3>1, <3>3, <3>4, SameResult
    <3>6. /\ Reads(code, y, fact)' = Reads(code, y, fact)
          /\ Result(code, y, fact)' = Result(code, y, fact)
      BY <1>1, <3>5, Zenon DEF Result
    <3> QED
      BY <1>1, <3>2, <3>4, <3>6 DEF RestAt
  <2> QED
    BY <2>1, <2>2
<1> QED
  BY <1>7, <1>8 DEF Inv, AtRest

\* Flags change no fact.
LEMMA EndRunInv ==
  ASSUME NEW F, Orderly(F), Inv(F), EndRun
  PROVE  Inv(F)'
<1>1. /\ code' = Materialize(code, toMaterialize, created, fact)
      /\ UNCHANGED <<created, fact, deps, forced, queued>> /\ queued = {}
  BY DEF EndRun
<1>2. Shape(F)'
  BY <1>1 DEF Inv, Shape, IsFacts, Orderly, Closed
<1>3. ASSUME NEW x \in created' \ (queued' \cup forced') PROVE RestAt(x)'
  <2>1. RestAt(x) /\ x \in Values /\ code \in F
    BY <1>1, <1>3 DEF Inv, AtRest, Shape
  <2>2. /\ Reads(code', x, fact) = Reads(code, x, fact)
        /\ Result(code', x, fact) = Result(code, x, fact)
    BY <1>1, <2>1 DEF Orderly, FlagsUnread
  <2>3. /\ Reads(code, x, fact)' = Reads(code, x, fact)
        /\ Result(code, x, fact)' = Result(code, x, fact)
    BY <1>1, <2>2, Zenon DEF Result
  <2> QED
    BY <1>1, <2>1, <2>3 DEF RestAt
<1> QED
  BY <1>2, <1>3 DEF Inv, AtRest

\* The reset leaves nothing to be stale.
LEMMA EditInv ==
  ASSUME NEW F, Orderly(F), Inv(F), Edit
  PROVE  Inv(F)'
BY DEF Inv, Shape, AtRest, Edit, Nothing, IsFacts, Orderly, Closed

\* Whatever the analysis, the function and the order of the worklist: a value that is
\* neither queued nor freshly asked for has the fact its update would give it.
THEOREM FixpointReached ==
  ASSUME NEW CONSTANT F, Orderly(F)
  PROVE  Spec => []AtFixpoint
<1>1. Init => Inv(F)
  BY InitInv
<1>2. Inv(F) /\ [Next]_vars => Inv(F)'
  <2> SUFFICES ASSUME Inv(F), [Next]_vars PROVE Inv(F)'
    OBVIOUS
  <2>1. ASSUME NEW x \in Values, Ask(x) PROVE Inv(F)'
    BY <2>1, AskInv
  <2>2. ASSUME NEW x \in Values, Step(x) PROVE Inv(F)'
    BY <2>2, StepInv
  <2>3. CASE Run
    BY <2>3, RunInv
  <2>4. CASE EndRun
    BY <2>4, EndRunInv
  <2>5. CASE Edit
    BY <2>5, EditInv
  <2>6. CASE UNCHANGED vars
    BY <2>6 DEF vars, Inv, Shape, AtRest, RestAt, Result, IsFacts
  <2> QED
    BY <2>1, <2>2, <2>3, <2>4, <2>5, <2>6 DEF Next
<1>3. Inv(F) => AtFixpoint
  BY DEF Inv, AtRest, RestAt, AtFixpoint
<1> QED
  BY <1>1, <1>2, <1>3, PTL DEF Spec

-----------------------------------------------------------------------------
(* Division.                                                                *)

----------------------------------------------------------------------------
(* Arithmetic that the provers do not find inside a larger step.           *)

LEMMA Distributes ==
  \A a, b, c \in Int : /\ a * (b + c) = a * b + a * c /\ (b + c) * a = b * a + c * a
                       /\ a * (b - c) = a * b - a * c /\ (b - c) * a = b * a - c * a
OBVIOUS

\* Products of integers and of naturals: those the steps below cite.
LEMMA Associates == \A a, b, c \in Int : (a * b) * c = a * (b * c)
OBVIOUS
LEMMA Commutes == \A a, b \in Int : a * b = b * a /\ a * b \in Int
OBVIOUS
LEMMA ProductInt == \A a, b \in Int : a * b \in Int
OBVIOUS
LEMMA ProductNat == \A a, b \in Nat : a * b \in Nat
OBVIOUS
LEMMA ProductLeq == \A a \in Nat, b, c \in Int : b <= c => a * b <= a * c
OBVIOUS
LEMMA ProductLess == \A a \in Nat, b, c \in Int : a > 0 /\ b < c => a * b < a * c
OBVIOUS

\* Quotient and rest, and that there are no others.
LEMMA DivMod ==
  \A a \in Int, b \in Nat : b > 0 =>
    /\ a = (b * (a \div b)) + (a % b)
    /\ a \div b \in Int /\ a % b \in Int /\ 0 <= a % b /\ a % b < b
OBVIOUS

\* Quotients and rests by a positive number are integers.
LEMMA DivInt == \A a \in Int, b \in Nat : b > 0 => a \div b \in Int /\ a % b \in Int
OBVIOUS

\* The quotient and the rest are the only ones there are.
LEMMA DivUnique ==
  \A a, d, e \in Int, b \in Nat :
    b > 0 /\ a = b * d + e /\ 0 <= e /\ e < b => a \div b = d /\ a % b = e
OBVIOUS

\* Induction over naturals: a set of them has a least element.
LEMMA LeastNat ==
  ASSUME NEW T \in SUBSET Nat, T # {}
  PROVE  \E x \in T : \A y \in T : x <= y
<1>1. PICK R : R = OpToRel(<, Nat)
  OBVIOUS
<1>2. IsWellFoundedOn(R, Nat)
  BY <1>1, NatLessThanWellFounded
<1>3. PICK x \in T : \A y \in T : ~(<<y, x>> \in R)
  BY <1>2, WFMin
<1>4. \A y \in T : x <= y
  <2> SUFFICES ASSUME NEW y \in T, ~(x <= y) PROVE FALSE
    OBVIOUS
  <2>1. y < x /\ x \in Nat /\ y \in Nat
    OBVIOUS
  <2>2. <<y, x>> \in R
    BY <1>1, <2>1 DEF OpToRel
  <2> QED BY <1>3, <2>2
<1> QED BY <1>4

----------------------------------------------------------------------------
(* Recursive functions on 0 .. N have their values.                        *)

\* f starts at c, and each value follows from the one before.
Steps(f, N, c, h) == f[0] = c /\ \A i \in 1 .. N : f[i] = h[<<i, f[i - 1]>>]

\* Some function does.
LEMMA RecursionExists ==
  ASSUME NEW N \in Nat, NEW S, NEW c \in S, NEW h \in [(1 .. N) \X S -> S]
  PROVE  \E f \in [0 .. N -> S] : Steps(f, N, c, h)
<1> DEFINE Bad == {k \in 0 .. N : ~ \E f \in [0 .. k -> S] : Steps(f, k, c, h)}
<1>1. ASSUME Bad # {} PROVE FALSE
  <2>1. Bad \in SUBSET Nat
    OBVIOUS
  <2>2. PICK k \in Bad : \A y \in Bad : k <= y
    <3> HIDE DEF Bad
    <3> QED BY <1>1, <2>1, LeastNat
  <2>3. k \in 0 .. N /\ ~ \E f \in [0 .. k -> S] : Steps(f, k, c, h)
    BY <2>2
  <2>4. CASE k = 0
    <3>1. PICK f : f = [i \in 0 .. 0 |-> c]
      OBVIOUS
    <3>2. f \in [0 .. 0 -> S] /\ f[0] = c
      BY <3>1
    <3>3. Steps(f, 0, c, h)
      BY <3>2 DEF Steps
    <3> QED BY <2>3, <2>4, <3>2, <3>3
  <2>5. CASE k # 0
    <3>1. k - 1 \in 0 .. N /\ k \in 1 .. N /\ ~(k <= k - 1)
      BY <2>3, <2>5
    <3>2. k - 1 \notin Bad
      BY <2>2, <3>1
    <3>3. PICK f \in [0 .. (k - 1) -> S] : Steps(f, k - 1, c, h)
      BY <3>1, <3>2
    <3>4. k - 1 \in 0 .. (k - 1) /\ f[k - 1] \in S
      BY <3>1, <3>3
    <3>5. PICK x : x = h[<<k, f[k - 1]>>]
      OBVIOUS
    <3>6. x \in S
      BY <3>1, <3>4, <3>5
    <3>7. PICK g : g = [i \in 0 .. k |-> IF i = k THEN x ELSE f[i]]
      OBVIOUS
    <3>8. g \in [0 .. k -> S]
      <4>1. \A i \in 0 .. k : i # k => i \in 0 .. (k - 1)
        BY <3>1
      <4> QED BY <3>3, <3>6, <3>7, <4>1
    <3>9. g[0] = c
      BY <2>5, <3>1, <3>3, <3>7 DEF Steps
    <3>10. ASSUME NEW i \in 1 .. k PROVE g[i] = h[<<i, g[i - 1]>>]
      <4>1. i - 1 \in 0 .. k /\ i - 1 # k /\ i \in 0 .. k
        BY <3>1
      <4>2. g[i - 1] = f[i - 1]
        BY <3>7, <4>1
      <4>3. CASE i = k
        BY <3>5, <3>7, <4>1, <4>2, <4>3
      <4>4. CASE i # k
        <5>1. i \in 1 .. (k - 1)
          BY <3>1, <4>4
        <5> QED BY <3>3, <3>7, <4>1, <4>2, <4>4, <5>1 DEF Steps
      <4> QED BY <4>3, <4>4
    <3>11. Steps(g, k, c, h)
      BY <3>9, <3>10 DEF Steps
    <3> QED BY <2>3, <3>8, <3>11
  <2> QED BY <2>4, <2>5
<1>2. N \notin Bad /\ N \in 0 .. N
  BY <1>1
<1> QED BY <1>2

\* The powers of two.
LEMMA TwosSteps ==
  /\ LimbBits \in Nat /\ LimbBits > 0 /\ MaxLimbs \in Nat /\ MaxLimbs > 0
  /\ Twos[0] = 1 /\ \A i \in 1 .. LimbBits : Twos[i] = 2 * Twos[i - 1]
<1> DEFINE P(f) == f = [i \in 0 .. LimbBits |-> IF i = 0 THEN 1 ELSE 2 * f[i - 1]]
<1>1. LimbBits \in Nat /\ LimbBits > 0 /\ MaxLimbs \in Nat /\ MaxLimbs > 0
  BY LimbAssumption
<1>2. PICK h : h = [p \in (1 .. LimbBits) \X Int |-> 2 * p[2]]
  OBVIOUS
<1>3. h \in [(1 .. LimbBits) \X Int -> Int] /\ 1 \in Int
  BY <1>2
<1>4. PICK f \in [0 .. LimbBits -> Int] : Steps(f, LimbBits, 1, h)
  BY <1>1, <1>3, RecursionExists
<1>5. P(f)
  <2>1. ASSUME NEW i \in 0 .. LimbBits PROVE f[i] = IF i = 0 THEN 1 ELSE 2 * f[i - 1]
    <3>1. CASE i = 0
      BY <1>4, <3>1 DEF Steps
    <3>2. CASE i # 0
      <4>1. i \in 1 .. LimbBits /\ i - 1 \in 0 .. LimbBits
        BY <1>1, <3>2
      <4>2. f[i - 1] \in Int
        BY <1>4, <4>1
      <4>3. f[i] = h[<<i, f[i - 1]>>]
        BY <1>4, <4>1 DEF Steps
      <4> QED BY <1>2, <3>2, <4>1, <4>2, <4>3
    <3> QED BY <3>1, <3>2
  <2> QED BY <1>4, <2>1
<1>6. P(Twos)
  <2>1. Twos = CHOOSE f_1 : P(f_1)
    BY DEF Twos
  <2> HIDE DEF P
  <2> QED BY <1>5, <2>1, Zenon
<1>7. \A i \in 0 .. LimbBits : Twos[i] = IF i = 0 THEN 1 ELSE 2 * Twos[i - 1]
  BY <1>6, Zenon
<1> HIDE DEF P
<1>8. \A i \in 1 .. LimbBits : i \in 0 .. LimbBits /\ i # 0
  BY <1>1
<1> QED BY <1>1, <1>7, <1>8

\* What holds of 0 and goes from each number to the next holds up to N.
LEMMA UpTo ==
  ASSUME NEW N \in Nat, NEW T, 0 \in T, \A i \in 0 .. (N - 1) : i \in T => i + 1 \in T
  PROVE  \A i \in 0 .. N : i \in T
<1> SUFFICES ASSUME NEW i \in 0 .. N, i \notin T PROVE FALSE
  OBVIOUS
<1>1. PICK Bad : Bad = {k \in 0 .. N : k \notin T}
  OBVIOUS
<1>2. Bad \in SUBSET Nat /\ Bad # {}
  BY <1>1
<1>3. PICK k \in Bad : \A y \in Bad : k <= y
  BY <1>2, LeastNat
<1>4. k \in 0 .. N /\ k \notin T /\ k # 0
  BY <1>1, <1>3
<1>5. k - 1 \in 0 .. (N - 1) /\ k - 1 \in 0 .. N /\ ~(k <= k - 1) /\ (k - 1) + 1 = k
  BY <1>4
<1>6. k - 1 \in T
  BY <1>1, <1>3, <1>5
<1> QED BY <1>4, <1>5, <1>6

\* Two powers of two that make up the base, which is at least two.
LEMMA TwosFacts ==
  /\ \A i \in 0 .. LimbBits : Twos[i] \in Nat /\ Twos[i] > 0
  /\ \A i \in 0 .. LimbBits : Twos[i] * Twos[LimbBits - i] = B
  /\ \A i \in 0 .. (LimbBits - 1) : 2 * Twos[i] <= B /\ 2 * Twos[i] = Twos[i + 1]
  /\ Twos[LimbBits - 1] * 2 = B
<1>1. PICK N, w : N = LimbBits /\ w = Twos
  OBVIOUS
<1>2. N \in Nat /\ N > 0 /\ w[0] = 1 /\ (\A i \in 1 .. N : w[i] = 2 * w[i - 1]) /\ B = w[N]
  BY <1>1, TwosSteps DEF B
<1>3. \A i \in 0 .. (N - 1) : i \in 0 .. N /\ i + 1 \in 1 .. N /\ i + 1 \in 0 .. N /\ (i + 1) - 1 = i
  BY <1>2
<1>4. \A i \in 0 .. N : w[i] \in Nat /\ w[i] > 0
  <2>1. PICK T : T = {i \in 0 .. N : w[i] \in Nat /\ w[i] > 0}
    OBVIOUS
  <2>2. 0 \in T
    BY <1>2, <2>1
  <2>3. ASSUME NEW i \in 0 .. (N - 1), i \in T PROVE i + 1 \in T
    <3>1. w[i + 1] = 2 * w[i]
      BY <1>2, <1>3
    <3> QED BY <1>3, <2>1, <2>3, <3>1
  <2>4. \A i \in 0 .. N : i \in T
    BY <1>2, <2>2, <2>3, UpTo
  <2> QED BY <2>1, <2>4
<1>5. \A i \in 0 .. N : w[i] * w[N - i] = B
  <2>1. PICK T : T = {i \in 0 .. N : w[i] * w[N - i] = B}
    OBVIOUS
  <2>2. 0 \in T
    <3>1. N - 0 = N /\ 0 \in 0 .. N /\ N \in 0 .. N
      BY <1>2
    <3> QED BY <1>2, <1>4, <2>1, <3>1
  <2>3. ASSUME NEW i \in 0 .. (N - 1), i \in T PROVE i + 1 \in T
    <3>1. w[i + 1] = 2 * w[i]
      BY <1>2, <1>3
    <3>2. N - i \in 1 .. N /\ (N - i) - 1 = N - (i + 1) /\ N - (i + 1) \in 0 .. N
      BY <1>2
    <3>3. w[N - i] = 2 * w[N - (i + 1)]
      BY <1>2, <3>2
    <3>4. PICK a, b : a = w[i] /\ b = w[N - (i + 1)]
      OBVIOUS
    <3>5. a \in Int /\ b \in Int
      BY <1>3, <1>4, <3>2, <3>4
    <3>6. a * (2 * b) = B
      BY <2>1, <2>3, <3>3, <3>4
    <3>7. (2 * a) * b = B
      BY <3>5, <3>6
    <3> QED BY <1>3, <2>1, <3>1, <3>4, <3>7
  <2>4. \A i \in 0 .. N : i \in T
    BY <1>2, <2>2, <2>3, UpTo
  <2> QED BY <2>1, <2>4
<1>6. ASSUME NEW i \in 0 .. (N - 1) PROVE 2 * w[i] <= B /\ 2 * w[i] = w[i + 1]
  <2>1. w[i + 1] = 2 * w[i]
    BY <1>2, <1>3
  <2>2. PICK a, b : a = w[i + 1] /\ b = w[N - (i + 1)]
    OBVIOUS
  <2>3. a \in Nat /\ b \in Nat /\ b > 0 /\ a * b = B
    <3>1. N - (i + 1) \in 0 .. N
      BY <1>2
    <3> QED BY <1>3, <1>4, <1>5, <2>2, <3>1
  <2>4. a * 1 <= a * b
    BY <2>3, ProductLeq
  <2>5. a * 1 = a
    BY <2>3
  <2> QED BY <2>1, <2>2, <2>3, <2>4, <2>5
<1>7. w[N - 1] * 2 = B
  <2>1. N \in 1 .. N /\ N - 1 \in 0 .. N
    BY <1>2
  <2>2. w[N] = 2 * w[N - 1] /\ w[N - 1] \in Nat
    BY <1>2, <1>4, <2>1
  <2> QED BY <1>2, <2>2
<1> QED BY <1>1, <1>4, <1>5, <1>6, <1>7

\* The base is at least two.
LEMMA BaseFacts == B \in Nat /\ B >= 2
<1>1. LimbBits - 1 \in 0 .. LimbBits
  BY TwosSteps
<1>2. PICK t : t = Twos[LimbBits - 1]
  OBVIOUS
<1>3. t \in Nat /\ t > 0 /\ t * 2 = B
  BY <1>1, <1>2, TwosFacts
<1> QED BY <1>3

\* The powers of the base.
LEMMA PlaceSteps ==
  /\ Place[0] = 1
  /\ \A i \in 0 .. MaxLimbs : Place[i + 1] = B * Place[i]
  /\ \A i \in 0 .. (MaxLimbs + 1) : Place[i] \in Nat /\ Place[i] > 0
<1>0. PICK N : N = MaxLimbs + 1
  OBVIOUS
<1>1. N \in Nat /\ B \in Nat /\ B >= 2 /\ MaxLimbs = N - 1
  BY <1>0, BaseFacts, TwosSteps
<1> DEFINE P(f) == f = [i \in 0 .. N |-> IF i = 0 THEN 1 ELSE B * f[i - 1]]
<1>2. PICK h : h = [p \in (1 .. N) \X Int |-> B * p[2]]
  OBVIOUS
<1>3. h \in [(1 .. N) \X Int -> Int] /\ 1 \in Int
  BY <1>1, <1>2
<1>4. PICK f \in [0 .. N -> Int] : Steps(f, N, 1, h)
  BY <1>1, <1>3, RecursionExists
<1>5. P(f)
  <2>1. ASSUME NEW i \in 0 .. N PROVE f[i] = IF i = 0 THEN 1 ELSE B * f[i - 1]
    <3>1. CASE i = 0
      BY <1>4, <3>1 DEF Steps
    <3>2. CASE i # 0
      <4>1. i \in 1 .. N /\ i - 1 \in 0 .. N
        BY <1>1, <3>2
      <4>2. f[i - 1] \in Int
        BY <1>4, <4>1
      <4>3. f[i] = h[<<i, f[i - 1]>>]
        BY <1>4, <4>1 DEF Steps
      <4> QED BY <1>2, <3>2, <4>1, <4>2, <4>3
    <3> QED BY <3>1, <3>2
  <2> QED BY <1>4, <2>1
<1>6. P(Place)
  <2>1. Place = CHOOSE f_1 : P(f_1)
    BY <1>0 DEF Place
  <2> HIDE DEF P
  <2> QED BY <1>5, <2>1, Zenon
<1>7. \A i \in 0 .. N : Place[i] = IF i = 0 THEN 1 ELSE B * Place[i - 1]
  BY <1>6, Zenon
<1> HIDE DEF P
<1>8. Place[0] = 1
  BY <1>1, <1>7
<1>9. ASSUME NEW i \in 0 .. (N - 1) PROVE Place[i + 1] = B * Place[i]
  <2>1. i + 1 \in 0 .. N /\ i + 1 # 0 /\ (i + 1) - 1 = i
    BY <1>1
  <2> QED BY <1>7, <2>1
<1>10. \A i \in 0 .. N : Place[i] \in Nat /\ Place[i] > 0
  <2>1. PICK T : T = {i \in 0 .. N : Place[i] \in Nat /\ Place[i] > 0}
    OBVIOUS
  <2>2. 0 \in T
    BY <1>1, <1>8, <2>1
  <2>3. ASSUME NEW i \in 0 .. (N - 1), i \in T PROVE i + 1 \in T
    <3>1. i + 1 \in 0 .. N
      BY <1>1
    <3>2. PICK x : x = Place[i]
      OBVIOUS
    <3>3. x \in Nat /\ x > 0 /\ B * x \in Nat
      BY <1>1, <2>1, <2>3, <3>2, ProductNat
    <3>4. B * 0 < B * x
      BY <1>1, <3>3, ProductLess
    <3>5. B * 0 = 0
      BY <1>1
    <3> QED BY <1>9, <2>1, <3>1, <3>2, <3>3, <3>4, <3>5
  <2>4. \A i \in 0 .. N : i \in T
    BY <1>1, <2>2, <2>3, UpTo
  <2> QED BY <2>1, <2>4
<1> QED BY <1>0, <1>1, <1>8, <1>9, <1>10

\* Places add up.
LEMMA PlaceAdds ==
  ASSUME NEW d \in Nat, NEW N \in Nat, d + N <= MaxLimbs + 1
  PROVE  \A k \in 0 .. N : Place[d + k] = Place[d] * Place[k]
<1>1. MaxLimbs \in Nat /\ B \in Nat
  BY TwosSteps, BaseFacts
<1>2. PICK T : T = {k \in 0 .. N : Place[d + k] = Place[d] * Place[k]}
  OBVIOUS
<1>3. d \in 0 .. (MaxLimbs + 1) /\ Place[d] \in Int
  BY <1>1, PlaceSteps
<1>4. 0 \in T
  <2>1. d + 0 = d
    OBVIOUS
  <2> QED BY <1>2, <1>3, <2>1, PlaceSteps
<1>5. ASSUME NEW k \in 0 .. (N - 1), k \in T PROVE k + 1 \in T
  <2>1. /\ k + 1 \in 0 .. N /\ k \in 0 .. MaxLimbs /\ d + k \in 0 .. MaxLimbs
        /\ d + (k + 1) = (d + k) + 1 /\ k \in 0 .. (MaxLimbs + 1)
    BY <1>1
  <2>2. PICK a, b : a = Place[d] /\ b = Place[k]
    OBVIOUS
  <2>3. a \in Int /\ b \in Int /\ Place[d + k] = a * b /\ a * b \in Int
    BY <1>2, <1>3, <1>5, <2>1, <2>2, PlaceSteps
  <2>4. Place[d + (k + 1)] = B * (a * b)
    <3>1. PICK i : i = d + k
      OBVIOUS
    <3>2. Place[i + 1] = B * Place[i]
      BY <2>1, <3>1, PlaceSteps
    <3> QED BY <2>1, <2>3, <3>1, <3>2
  <2>5. Place[k + 1] = B * b
    BY <2>1, <2>2, PlaceSteps
  <2>6. B * (a * b) = a * (B * b)
    BY <1>1, <2>3
  <2> QED BY <1>2, <2>1, <2>2, <2>4, <2>5, <2>6
<1> QED
  <2>1. \A k \in 0 .. N : k \in T
    BY <1>4, <1>5, UpTo
  <2> QED BY <1>2, <2>1

\* The value of a number is the sum of its limbs at their places.
LEMMA NumberIs ==
  ASSUME NEW K \in 0 .. (MaxLimbs + 1), NEW x, \A i \in 0 .. (K - 1) : x[i] \in Int
  PROVE  \E b \in [0 .. K -> Int] :
           /\ b[0] = 0 /\ \A i \in 0 .. (K - 1) : b[i + 1] = b[i] + x[i] * Place[i]
           /\ Number(x, K) = b[K]
<1>1. K \in Nat /\ K <= MaxLimbs + 1 /\ MaxLimbs \in Nat
  BY TwosSteps
<1> DEFINE P(f) == f = [i \in 0 .. K |-> IF i = 0 THEN 0 ELSE f[i - 1] + x[i - 1] * Place[i - 1]]
<1>2. \A i \in 1 .. K : i - 1 \in 0 .. (K - 1) /\ i - 1 \in 0 .. (MaxLimbs + 1) /\ i - 1 \in 0 .. K
  BY <1>1
<1>3. ASSUME NEW i \in 1 .. K PROVE x[i - 1] * Place[i - 1] \in Int
  <2>1. PICK a, b : a = x[i - 1] /\ b = Place[i - 1]
    OBVIOUS
  <2>2. a \in Int /\ b \in Int
    BY <1>2, <2>1, PlaceSteps
  <2> QED BY <2>1, <2>2, Commutes
<1>4. PICK h : h = [p \in (1 .. K) \X Int |-> p[2] + x[p[1] - 1] * Place[p[1] - 1]]
  OBVIOUS
<1>5. h \in [(1 .. K) \X Int -> Int] /\ 0 \in Int
  <2>1. ASSUME NEW p \in (1 .. K) \X Int PROVE p[2] + x[p[1] - 1] * Place[p[1] - 1] \in Int
    <3>1. p[1] \in 1 .. K /\ p[2] \in Int
      OBVIOUS
    <3> QED BY <1>3, <3>1
  <2> QED BY <1>4, <2>1
<1>6. PICK f \in [0 .. K -> Int] : Steps(f, K, 0, h)
  BY <1>1, <1>5, RecursionExists
<1>7. ASSUME NEW i \in 1 .. K PROVE f[i] = f[i - 1] + x[i - 1] * Place[i - 1]
  <2>1. f[i] = h[<<i, f[i - 1]>>] /\ f[i - 1] \in Int
    BY <1>2, <1>6 DEF Steps
  <2> QED BY <1>4, <2>1
<1>8. P(f)
  <2>1. ASSUME NEW i \in 0 .. K
        PROVE  f[i] = IF i = 0 THEN 0 ELSE f[i - 1] + x[i - 1] * Place[i - 1]
    <3>1. CASE i = 0
      BY <1>6, <3>1 DEF Steps
    <3>2. CASE i # 0
      <4>1. i \in 1 .. K
        BY <1>1, <3>2
      <4> QED BY <1>7, <3>2, <4>1
    <3> QED BY <3>1, <3>2
  <2> QED BY <1>6, <2>1
<1>9. PICK b : b = CHOOSE f_1 : P(f_1)
  OBVIOUS
<1>10. P(b)
  <2> HIDE DEF P
  <2> QED BY <1>8, <1>9, Zenon
<1>11. Number(x, K) = b[K]
  BY <1>9 DEF Number
<1>12. \A i \in 0 .. K : b[i] = IF i = 0 THEN 0 ELSE b[i - 1] + x[i - 1] * Place[i - 1]
  BY <1>10, Zenon
<1> HIDE DEF P
<1>13. b[0] = 0
  BY <1>1, <1>12
<1>14. ASSUME NEW i \in 0 .. (K - 1) PROVE b[i + 1] = b[i] + x[i] * Place[i]
  <2>1. i + 1 \in 0 .. K /\ i + 1 # 0 /\ (i + 1) - 1 = i
    BY <1>1
  <2> QED BY <1>12, <2>1
<1>15. \A i \in 0 .. K : b[i] \in Int
  <2>1. PICK T : T = {i \in 0 .. K : b[i] \in Int}
    OBVIOUS
  <2>2. 0 \in T
    BY <1>1, <1>13, <2>1
  <2>3. ASSUME NEW i \in 0 .. (K - 1), i \in T PROVE i + 1 \in T
    <3>1. i + 1 \in 1 .. K /\ (i + 1) - 1 = i
      BY <1>1
    <3>2. x[i] * Place[i] \in Int
      BY <1>3, <3>1
    <3> QED BY <1>14, <2>1, <2>3, <3>1, <3>2
  <2> QED BY <1>1, <2>1, <2>2, <2>3, UpTo
<1>16. DOMAIN b = 0 .. K /\ b = [i \in DOMAIN b |-> b[i]]
  BY <1>10 DEF P
<1> QED BY <1>11, <1>13, <1>14, <1>15, <1>16

\* The number that the first limbs make up, limb by limb.
LEMMA NumberSteps ==
  ASSUME NEW K \in 0 .. (MaxLimbs + 1), NEW x, \A i \in 0 .. (K - 1) : x[i] \in Int
  PROVE  /\ Number(x, 0) = 0
         /\ \A i \in 0 .. K : Number(x, i) \in Int
         /\ \A i \in 0 .. (K - 1) : Number(x, i + 1) = Number(x, i) + x[i] * Place[i]
<1>1. K \in Nat /\ K <= MaxLimbs + 1 /\ MaxLimbs \in Nat
  BY TwosSteps
<1>2. PICK b \in [0 .. K -> Int] :
        /\ b[0] = 0 /\ \A i \in 0 .. (K - 1) : b[i + 1] = b[i] + x[i] * Place[i]
        /\ Number(x, K) = b[K]
  BY NumberIs, Zenon
<1>3. ASSUME NEW k \in 0 .. K PROVE Number(x, k) = b[k]
  <2>1. k \in 0 .. (MaxLimbs + 1) /\ k \in Nat /\ k - 1 \in Int
        /\ \A i \in 0 .. (k - 1) : i \in 0 .. (K - 1) /\ x[i] \in Int
    BY <1>1
  <2>2. PICK a \in [0 .. k -> Int] :
          /\ a[0] = 0 /\ \A i \in 0 .. (k - 1) : a[i + 1] = a[i] + x[i] * Place[i]
          /\ Number(x, k) = a[k]
    BY <2>1, NumberIs
  <2>3. PICK T : T = {i \in 0 .. k : a[i] = b[i]}
    OBVIOUS
  <2>4. 0 \in T
    BY <1>2, <2>1, <2>2, <2>3
  <2>5. ASSUME NEW i \in 0 .. (k - 1), i \in T PROVE i + 1 \in T
    <3>1. i + 1 \in 0 .. k
      BY <2>1
    <3>2. a[i + 1] = b[i + 1]
      BY <1>2, <2>1, <2>2, <2>3, <2>5
    <3> QED BY <2>3, <3>1, <3>2
  <2>6. k \in T
    <3>1. k \in 0 .. k
      BY <2>1
    <3> QED BY <2>1, <2>4, <2>5, <3>1, UpTo
  <2> QED BY <2>2, <2>3, <2>6
<1>4. 0 \in 0 .. K /\ \A i \in 0 .. (K - 1) : i \in 0 .. K /\ i + 1 \in 0 .. K
  BY <1>1
<1> QED BY <1>2, <1>3, <1>4

\* Sums that grow the same way are the same.
LEMMA SumsTo ==
  ASSUME NEW K \in 0 .. (MaxLimbs + 1), NEW x, \A i \in 0 .. (K - 1) : x[i] \in Int,
         NEW g, g[0] = 0, \A i \in 0 .. (K - 1) : g[i + 1] = g[i] + x[i] * Place[i]
  PROVE  \A i \in 0 .. K : Number(x, i) = g[i]
<1>1. K \in Nat
  BY TwosSteps
<1>2. PICK T : T = {i \in 0 .. K : Number(x, i) = g[i]}
  OBVIOUS
<1>3. 0 \in T
  BY <1>1, <1>2, NumberSteps
<1>4. ASSUME NEW i \in 0 .. (K - 1), i \in T PROVE i + 1 \in T
  <2>1. i + 1 \in 0 .. K
    BY <1>1
  <2>2. Number(x, i + 1) = Number(x, i) + x[i] * Place[i]
    BY NumberSteps
  <2> QED BY <1>2, <1>4, <2>1, <2>2
<1>5. \A i \in 0 .. K : i \in T
  BY <1>1, <1>3, <1>4, UpTo
<1> QED BY <1>2, <1>5

\* g adds the limbs of x at their places.
Sums(g, x, K) ==
  g[0] = 0 /\ \A i \in 0 .. (K - 1) : x[i] \in Int /\ g[i + 1] = g[i] + x[i] * Place[i]

\* Such a g is Number.
LEMMA SumsToAll ==
  ASSUME NEW K \in 0 .. (MaxLimbs + 1), NEW x, NEW g, Sums(g, x, K)
  PROVE  \A i \in 0 .. K : Number(x, i) = g[i]
BY SumsTo DEF Sums

\* The same limbs make up the same number.
LEMMA SameLimbs ==
  ASSUME NEW K \in 0 .. (MaxLimbs + 1), NEW x, NEW y,
         \A i \in 0 .. (K - 1) : x[i] \in Int /\ y[i] = x[i]
  PROVE  \A i \in 0 .. K : Number(y, i) = Number(x, i)
<1>1. K \in Nat
  BY TwosSteps
<1>2. PICK g : g = [i \in 0 .. K |-> Number(x, i)]
  OBVIOUS
<1>3. /\ Number(x, 0) = 0
      /\ \A i \in 0 .. (K - 1) : Number(x, i + 1) = Number(x, i) + x[i] * Place[i]
  BY NumberSteps
<1>4. \A i \in 0 .. (K - 1) : i \in 0 .. K /\ i + 1 \in 0 .. K
  BY <1>1
<1>5. g[0] = 0 /\ \A i \in 0 .. (K - 1) : g[i + 1] = g[i] + y[i] * Place[i]
  BY <1>1, <1>2, <1>3, <1>4
<1>6. \A i \in 0 .. K : Number(y, i) = g[i]
  BY <1>5, SumsTo
<1> QED BY <1>2, <1>6

\* Limbs above k that are zero add nothing.
LEMMA HighZero ==
  ASSUME NEW K \in 0 .. (MaxLimbs + 1), NEW k \in 0 .. K, NEW x,
         \A i \in 0 .. (K - 1) : x[i] \in Int /\ (i >= k => x[i] = 0)
  PROVE  \A i \in 0 .. K : i >= k => Number(x, i) = Number(x, k)
<1>1. K \in Nat
  BY TwosSteps
<1>2. PICK T : T = {i \in 0 .. K : i >= k => Number(x, i) = Number(x, k)}
  OBVIOUS
<1>3. 0 \in T
  BY <1>1, <1>2
<1>4. ASSUME NEW i \in 0 .. (K - 1), i \in T PROVE i + 1 \in T
  <2>1. i + 1 \in 0 .. K
    BY <1>1
  <2>2. CASE i + 1 <= k
    BY <1>2, <2>1, <2>2
  <2>3. CASE i >= k
    <3>1. Number(x, i + 1) = Number(x, i) + x[i] * Place[i] /\ Number(x, i) \in Int
      <4>1. i \in 0 .. K
        BY <1>1
      <4> QED BY <4>1, NumberSteps
    <3>2. x[i] = 0 /\ Number(x, i) = Number(x, k)
      BY <1>2, <1>4, <2>3
    <3>3. Place[i] \in Int
      BY <1>1, PlaceSteps, TwosSteps
    <3>4. Number(x, i + 1) = Number(x, i)
      BY <3>1, <3>2, <3>3
    <3> QED BY <1>2, <2>1, <3>2, <3>4
  <2> QED BY <1>1, <2>2, <2>3
<1>5. \A i \in 0 .. K : i \in T
  BY <1>1, <1>3, <1>4, UpTo
<1> QED BY <1>2, <1>5

\* A number of k limbs is less than the place above them.
LEMMA NumberBound ==
  ASSUME NEW K \in 0 .. (MaxLimbs + 1), NEW x, \A i \in 0 .. (K - 1) : x[i] \in 0 .. (B - 1)
  PROVE  \A i \in 0 .. K : Number(x, i) \in Nat /\ Number(x, i) < Place[i]
<1>1. K \in Nat /\ MaxLimbs \in Nat /\ B \in Nat /\ B >= 2
  BY TwosSteps, BaseFacts
<1>2. PICK T : T = {i \in 0 .. K : Number(x, i) \in Nat /\ Number(x, i) < Place[i]}
  OBVIOUS
<1>3. 0 \in T
  BY <1>1, <1>2, NumberSteps, PlaceSteps
<1>4. ASSUME NEW i \in 0 .. (K - 1), i \in T PROVE i + 1 \in T
  <2>1. i + 1 \in 0 .. K /\ i \in 0 .. MaxLimbs /\ i \in 0 .. (MaxLimbs + 1)
    BY <1>1
  <2>2. PICK a, p, c : a = Number(x, i) /\ p = Place[i] /\ c = x[i]
    OBVIOUS
  <2>3. Number(x, i + 1) = a + c * p /\ Place[i + 1] = B * p
    BY <2>1, <2>2, NumberSteps, PlaceSteps
  <2>4. a \in Nat /\ a < p /\ p \in Nat /\ c \in Nat /\ c <= B - 1
    BY <1>1, <1>2, <1>4, <2>1, <2>2, PlaceSteps
  <2>5. c * p \in Nat
    BY <2>4, ProductNat
  <2>6. p * c <= p * (B - 1) /\ p * (B - 1) = B * p - p /\ p * c = c * p /\ B * p \in Int
    <3>1. B - 1 \in Int
      BY <1>1
    <3>2. p * c <= p * (B - 1)
      BY <2>4, <3>1, ProductLeq
    <3>3. p * (B - 1) = B * p - p /\ p * c = c * p /\ B * p \in Int
      BY <1>1, <2>4
    <3> QED BY <3>2, <3>3
  <2>7. a + c * p \in Nat /\ a + c * p < B * p
    BY <2>4, <2>5, <2>6
  <2> QED BY <1>2, <2>1, <2>3, <2>7
<1>5. \A i \in 0 .. K : i \in T
  BY <1>1, <1>3, <1>4, UpTo
<1> QED BY <1>2, <1>5

\* The limbs from d on as a number of their own.
LEMMA WindowValue ==
  ASSUME NEW d \in Nat, NEW K \in Nat, d + K <= MaxLimbs + 1, NEW x, NEW y,
         \A i \in 0 .. (d + K - 1) : x[i] \in Int,
         \A i \in 0 .. (K - 1) : y[i] = x[d + i]
  PROVE  \A i \in 0 .. K : Number(x, d + i) = Number(x, d) + Place[d] * Number(y, i)
<1>1. MaxLimbs \in Nat /\ K \in 0 .. (MaxLimbs + 1) /\ d + K \in 0 .. (MaxLimbs + 1)
      /\ d \in 0 .. (MaxLimbs + 1)
  BY TwosSteps
<1>2. \A i \in 0 .. (K - 1) : d + i \in 0 .. (d + K - 1) /\ y[i] \in Int
  BY <1>1
<1>3. PICK T : T = {i \in 0 .. K : Number(x, d + i) = Number(x, d) + Place[d] * Number(y, i)}
  OBVIOUS
<1>4. \A i \in 0 .. (d + K) : Number(x, i) \in Int
  BY <1>1, NumberSteps
<1>5. 0 \in T
  <2>1. Number(y, 0) = 0 /\ d + 0 = d /\ Place[d] \in Int /\ Number(x, d) \in Int
    <3>1. d \in 0 .. (d + K)
      BY <1>1
    <3>2. Number(y, 0) = 0
      BY <1>1, <1>2, NumberSteps
    <3> QED BY <1>1, <1>4, <3>1, <3>2, PlaceSteps
  <2> QED BY <1>3, <2>1
<1>6. ASSUME NEW i \in 0 .. (K - 1), i \in T PROVE i + 1 \in T
  <2>1. i + 1 \in 0 .. K /\ i \in 0 .. K /\ d + (i + 1) = (d + i) + 1 /\ d + i \in 0 .. (d + K - 1)
        /\ i \in 0 .. (MaxLimbs + 1) /\ d \in 0 .. (d + K)
    BY <1>1
  <2>2. PICK a, b, p, e, c : /\ a = Number(x, d) /\ b = Number(y, i) /\ p = Place[d]
                             /\ e = Place[i] /\ c = y[i]
    OBVIOUS
  <2>3. a \in Int /\ b \in Int /\ p \in Int /\ e \in Int /\ c \in Int
    <3>1. a \in Int
      BY <1>4, <2>1, <2>2
    <3>2. p \in Int /\ e \in Int
      BY <1>1, <2>1, <2>2, PlaceSteps
    <3>3. \A k \in 0 .. (K - 1) : y[k] \in Int
      BY <1>2
    <3>4. b \in Int
      BY <1>1, <2>1, <2>2, <3>3, NumberSteps
    <3> QED BY <2>2, <3>1, <3>2, <3>3, <3>4
  <2>4. Number(y, i + 1) = b + c * e
    BY <1>1, <1>2, <2>2, NumberSteps
  <2>5. Number(x, d + i) = a + p * b
    BY <1>3, <1>6, <2>2
  <2>6. Place[d + i] = p * e
    BY <1>1, <2>1, <2>2, PlaceAdds
  <2>7. Number(x, (d + i) + 1) = (a + p * b) + c * (p * e)
    <3>1. PICK l : l = d + i
      OBVIOUS
    <3>2. Number(x, l + 1) = Number(x, l) + x[l] * Place[l]
      BY <1>1, <2>1, <3>1, NumberSteps
    <3>3. x[l] = c
      BY <2>2, <3>1
    <3> QED BY <2>5, <2>6, <3>1, <3>2, <3>3
  <2>8. (a + p * b) + c * (p * e) = a + p * (b + c * e)
    BY <2>3
  <2>9. Number(x, d + (i + 1)) = a + p * Number(y, i + 1)
    BY <2>1, <2>4, <2>7, <2>8
  <2> QED BY <1>3, <2>1, <2>2, <2>9
<1>7. \A i \in 0 .. K : i \in T
  BY <1>5, <1>6, UpTo
<1> QED BY <1>3, <1>7

\* One limb that was zero is set.
LEMMA OneMoreLimb ==
  ASSUME NEW K \in 0 .. (MaxLimbs + 1), NEW x, NEW y, NEW k \in 0 .. (K - 1), NEW a \in Int,
         \A i \in 0 .. (K - 1) : x[i] \in Int /\ y[i] = IF i = k THEN a ELSE x[i], x[k] = 0
  PROVE  Number(y, K) = Number(x, K) + a * Place[k]
<1>1. K \in Nat /\ MaxLimbs \in Nat /\ k \in 0 .. (MaxLimbs + 1)
  BY TwosSteps
<1>2. PICK c : c = a * Place[k]
  OBVIOUS
<1>3. c \in Int
  BY <1>1, <1>2, PlaceSteps, Commutes
<1>4. PICK g : g = [i \in 0 .. K |-> Number(x, i) + (IF i > k THEN c ELSE 0)]
  OBVIOUS
<1>5. g[0] = 0
  BY <1>1, <1>4, NumberSteps
<1>6. ASSUME NEW i \in 0 .. (K - 1) PROVE g[i + 1] = g[i] + y[i] * Place[i]
  <2>1. i \in 0 .. K /\ i + 1 \in 0 .. K /\ i \in 0 .. (MaxLimbs + 1)
    BY <1>1
  <2>2. PICK b, p : b = x[i] * Place[i] /\ p = Place[i]
    OBVIOUS
  <2>3. Number(x, i + 1) = Number(x, i) + b /\ Number(x, i) \in Int
    BY <2>1, <2>2, NumberSteps
  <2>4. b \in Int /\ p \in Int
    BY <2>1, <2>2, PlaceSteps, Commutes
  <2>5. CASE i = k
    <3>1. b = 0
      BY <2>2, <2>4, <2>5
    <3>2. y[i] * Place[i] = c
      BY <1>2, <2>5
    <3>3. g[i + 1] = Number(x, i + 1) + c /\ g[i] = Number(x, i) + 0
      BY <1>4, <2>1, <2>5
    <3> QED BY <1>3, <2>3, <3>1, <3>2, <3>3
  <2>6. CASE i # k
    <3>1. y[i] * Place[i] = b
      BY <2>2, <2>6
    <3>2. PICK e : e = IF i > k THEN c ELSE 0
      OBVIOUS
    <3>3. g[i + 1] = Number(x, i + 1) + e /\ g[i] = Number(x, i) + e /\ e \in Int
      BY <1>3, <1>4, <2>1, <2>6, <3>2
    <3> QED BY <2>3, <2>4, <3>1, <3>3
  <2> QED BY <2>5, <2>6
<1>7. \A i \in 0 .. (K - 1) : y[i] \in Int
  OBVIOUS
<1>8. Number(y, K) = g[K]
  <2>1. \A i \in 0 .. K : Number(y, i) = g[i]
    BY <1>5, <1>6, <1>7, SumsTo
  <2> QED BY <1>1, <2>1
<1>9. K \in 0 .. K /\ K > k
  BY <1>1
<1> QED BY <1>2, <1>4, <1>8, <1>9

----------------------------------------------------------------------------
(* Subtract and AddBack.                                                   *)

Grows(g, x, N) ==
  g[0] = 0 /\ \A i \in 0 .. N : x[i] \in Int /\ g[i + 1] = g[i] + x[i] * Place[i]

LEMMA SumsToNext ==
  ASSUME NEW N \in 0 .. MaxLimbs, NEW x, NEW g, Grows(g, x, N)
  PROVE  Number(x, N + 1) = g[N + 1]
<1>1. PICK K : K = N + 1
  OBVIOUS
<1>2. K \in 0 .. (MaxLimbs + 1) /\ 0 .. (K - 1) = 0 .. N /\ K \in 0 .. K
  BY <1>1, TwosSteps
<1>3. \A i \in 0 .. K : Number(x, i) = g[i]
  BY <1>2, SumsTo DEF Grows
<1> QED BY <1>1, <1>2, <1>3

\* A quotient is negative where what is divided is.
LEMMA SignOfQuotient ==
  \A a, e, rest \in Int, b \in Nat :
    b > 0 /\ a = (b * e) + rest /\ 0 <= rest /\ rest < b => (a < 0 <=> e < 0)
<1> SUFFICES ASSUME NEW a \in Int, NEW e \in Int, NEW rest \in Int, NEW b \in Nat,
                    b > 0, a = (b * e) + rest, 0 <= rest, rest < b
             PROVE  a < 0 <=> e < 0
  OBVIOUS
<1>1. e >= 0 => b * e >= 0
  OBVIOUS
<1>2. e < 0 => b * e <= b * (-1)
  BY ProductLeq
<1>3. b * e \in Int /\ b * (-1) = -b
  OBVIOUS
<1> QED BY <1>1, <1>2, <1>3

\* The function inside Subtract has its values.
IsSubtract(t, x, d, qhat) ==
  /\ t \in [0 .. n -> Int]
  /\ \A i \in 0 .. n :
       t[i] = (x[i + d] - (IF i = 0 THEN 0 ELSE ((qhat * vn[i - 1]) \div B) - (t[i - 1] \div B)))
                - (IF i < n THEN (qhat * vn[i]) % B ELSE 0)
  /\ Subtract(x, d, qhat).limbs
       = [i \in DOMAIN x |-> IF i \in d .. (d + n) THEN t[i - d] % B ELSE x[i]]
  /\ Subtract(x, d, qhat).negative <=> t[n] < 0

\* Subtract has such a t.
LEMMA SubtractIs ==
  ASSUME n \in Nat, NEW d \in Nat, NEW x, \A i \in 0 .. n : x[i + d] \in Int,
         \A i \in 0 .. (n - 1) : vn[i] \in Int, NEW qhat \in Int
  PROVE  \E t : IsSubtract(t, x, d, qhat)
<1> DEFINE V(i, a) == (x[i + d] - (IF i = 0 THEN 0 ELSE ((qhat * vn[i - 1]) \div B) - (a \div B)))
                        - (IF i < n THEN (qhat * vn[i]) % B ELSE 0)
           P(f) == f = [i \in 0 .. n |-> V(i, f[i - 1])]
<1>1. B \in Nat /\ B >= 2
  BY BaseFacts
<1>2. \A i \in 0 .. (n - 1) : (qhat * vn[i]) % B \in Int /\ (qhat * vn[i]) \div B \in Int
  <2> TAKE i \in 0 .. (n - 1)
  <2>1. PICK a : a = qhat * vn[i]
    OBVIOUS
  <2>2. a \in Int
    BY <2>1, Commutes
  <2> QED BY <1>1, <2>1, <2>2, DivMod
<1>3. ASSUME NEW i \in 0 .. n, NEW a \in Int PROVE V(i, a) \in Int
  <2>1. PICK e, c : /\ e = (IF i = 0 THEN 0 ELSE ((qhat * vn[i - 1]) \div B) - (a \div B))
                    /\ c = (IF i < n THEN (qhat * vn[i]) % B ELSE 0)
    OBVIOUS
  <2>2. c \in Int
    BY <1>2, <2>1
  <2>3. e \in Int
    <3>1. a \div B \in Int
      BY <1>1, DivMod
    <3>2. CASE i # 0
      <4>1. i - 1 \in 0 .. (n - 1)
        BY <3>2
      <4>2. PICK b, b2 : b = (qhat * vn[i - 1]) \div B /\ b2 = a \div B
        OBVIOUS
      <4>3. b \in Int /\ b2 \in Int
        BY <1>2, <3>1, <4>1, <4>2
      <4>4. e = b - b2
        <5>1. e = IF i = 0 THEN 0 ELSE ((qhat * vn[i - 1]) \div B) - (a \div B)
          BY <2>1
        <5> HIDE DEF V
        <5> QED BY <3>2, <4>2, <5>1
      <4> QED BY <4>3, <4>4
    <3>3. CASE i = 0
      BY <2>1, <3>3
    <3> QED BY <3>2, <3>3
  <2>4. V(i, a) = (x[i + d] - e) - c
    BY <2>1
  <2>5. PICK b : b = x[i + d]
    OBVIOUS
  <2>6. b \in Int
    BY <2>5
  <2> HIDE DEF V
  <2> QED BY <2>2, <2>3, <2>4, <2>5, <2>6
<1>4. PICK h : h = [p \in (1 .. n) \X Int |-> V(p[1], p[2])]
  OBVIOUS
<1>5. h \in [(1 .. n) \X Int -> Int] /\ V(0, 0) \in Int
  <2>1. \A p \in (1 .. n) \X Int : p[1] \in 0 .. n /\ p[2] \in Int
    OBVIOUS
  <2>2. \A p \in (1 .. n) \X Int : V(p[1], p[2]) \in Int
    <3> HIDE DEF V
    <3> QED BY <1>3, <2>1
  <2>3. 0 \in 0 .. n /\ 0 \in Int
    OBVIOUS
  <2> HIDE DEF V
  <2> QED BY <1>3, <1>4, <2>2, <2>3
<1>6. PICK f \in [0 .. n -> Int] : Steps(f, n, V(0, 0), h)
  <2> HIDE DEF V
  <2> QED BY <1>5, RecursionExists
<1>7. P(f)
  <2>1. ASSUME NEW i \in 0 .. n PROVE f[i] = V(i, f[i - 1])
    <3>1. CASE i = 0
      <4>1. f[0] = V(0, 0)
        BY <1>6 DEF Steps
      <4>2. V(0, 0) = V(0, f[0 - 1])
        OBVIOUS
      <4> HIDE DEF V
      <4> QED BY <3>1, <4>1, <4>2
    <3>2. CASE i # 0
      <4>1. i \in 1 .. n /\ i - 1 \in 0 .. n
        BY <3>2
      <4>2. f[i - 1] \in Int
        BY <1>6, <4>1
      <4>3. f[i] = h[<<i, f[i - 1]>>]
        BY <1>6, <4>1 DEF Steps
      <4> HIDE DEF V
      <4> QED BY <1>4, <4>1, <4>2, <4>3
    <3> QED BY <3>1, <3>2
  <2> HIDE DEF V
  <2> QED BY <1>6, <2>1
<1> DEFINE C == CHOOSE f_1 : P(f_1)
<1>8. PICK t : t = C
  OBVIOUS
<1>9. P(t)
  <2>1. P(C)
    <3> HIDE DEF P
    <3> QED BY <1>7, Zenon
  <2> HIDE DEF P, C
  <2> QED BY <1>8, <2>1, Zenon
<1>10. /\ Subtract(x, d, qhat).limbs
            = [i \in DOMAIN x |-> IF i \in d .. (d + n) THEN t[i - d] % B ELSE x[i]]
       /\ Subtract(x, d, qhat).negative = (t[n] < 0)
  <2>1. Subtract(x, d, qhat).limbs
          = [i \in DOMAIN x |-> IF i \in d .. (d + n) THEN C[i - d] % B ELSE x[i]]
    BY SMT DEF Subtract
  <2>2. Subtract(x, d, qhat).negative = (C[n] < 0)
    BY SMT DEF Subtract
  <2> HIDE DEF C
  <2> QED BY <1>8, <2>1, <2>2, Zenon
<1>11. \A i \in 0 .. n : t[i] = V(i, t[i - 1])
  <2> HIDE DEF V
  <2> QED BY <1>9, Zenon
<1>12. t \in [0 .. n -> Int]
  <2>1. PICK T : T = {i \in 0 .. n : t[i] \in Int}
    OBVIOUS
  <2>2. 0 \in T
    <3>1. t[0] = V(0, t[0 - 1]) /\ 0 \in 0 .. n
      BY <1>11
    <3>2. V(0, t[0 - 1]) = V(0, 0)
      OBVIOUS
    <3> HIDE DEF V
    <3> QED BY <1>5, <2>1, <3>1, <3>2
  <2>3. ASSUME NEW i \in 0 .. (n - 1), i \in T PROVE i + 1 \in T
    <3>1. i + 1 \in 0 .. n /\ (i + 1) - 1 = i
      OBVIOUS
    <3>2. t[i + 1] = V(i + 1, t[i])
      <4> HIDE DEF V
      <4> QED BY <1>11, <3>1
    <3> HIDE DEF V
    <3> QED BY <1>3, <2>1, <2>3, <3>1, <3>2
  <2>4. \A i \in 0 .. n : i \in T
    BY <2>2, <2>3, UpTo
  <2>5. DOMAIN t = 0 .. n /\ t = [i \in DOMAIN t |-> t[i]]
    <3> HIDE DEF V
    <3> QED BY <1>9
  <2> QED BY <2>1, <2>4, <2>5
<1>13. Subtract(x, d, qhat).negative <=> t[n] < 0
  BY <1>10, Zenon
<1> QED
  <2> HIDE DEF V, P, C
  <2>1. \A i \in 0 .. n :
          t[i] = (x[i + d] - (IF i = 0 THEN 0 ELSE ((qhat * vn[i - 1]) \div B) - (t[i - 1] \div B)))
                   - (IF i < n THEN (qhat * vn[i]) % B ELSE 0)
    BY <1>11, Zenon DEF V
  <2>2. IsSubtract(t, x, d, qhat)
    BY <1>10, <1>12, <1>13, <2>1, Zenon DEF IsSubtract
  <2> QED BY <2>2

\* The limbs x, of which those from d on are changed, and a window on them.
Stepping(d, x) ==
  /\ n \in Nat /\ d \in Nat /\ d + n <= MaxLimbs /\ x \in [0 .. MaxLimbs -> 0 .. (B - 1)]
  /\ \A i \in 0 .. (n - 1) : vn[i] \in Int

\* The limbs y are those of x in the window from d on.
Window(y, x, d) == \A i \in 0 .. n : y[i] = x[d + i]
Less(e, w, y, x, d, qhat) ==
  /\ Number(w, n + 1) = (Number(y, n + 1) - qhat * Number(vn, n)) - Place[n + 1] * e
  /\ Subtract(x, d, qhat).negative <=> e < 0

\* The window from d on becomes itself minus qhat * vn, up to a multiple of the
\* place above it, which is negative when the difference is.
LEMMA SubtractValue ==
  ASSUME NEW d, NEW x, Stepping(d, x), NEW qhat \in Int,
         NEW y, Window(y, x, d), NEW w, Window(w, Subtract(x, d, qhat).limbs, d)
  PROVE  \E e \in Int : Less(e, w, y, x, d, qhat)
<1> USE DEF Stepping, Window
<1>1. B \in Nat /\ B >= 2 /\ MaxLimbs \in Nat /\ n + 1 \in 0 .. (MaxLimbs + 1) /\ n \in 0 .. (MaxLimbs + 1)
  BY BaseFacts, TwosSteps
<1>2. \A i \in 0 .. n : d + i \in 0 .. MaxLimbs /\ i + d = d + i /\ d + i \in d .. (d + n) /\ (d + i) - d = i
  BY <1>1
<1>3. \A i \in 0 .. n : x[i + d] \in Int /\ y[i] \in Int
  <2> TAKE i \in 0 .. n
  <2>1. x[d + i] \in 0 .. (B - 1)
    BY <1>2
  <2>2. x[d + i] \in Int
    BY <1>1, <2>1
  <2> QED BY <1>2, <2>2
<1>20. \E t : IsSubtract(t, x, d, qhat)
  BY <1>3, SubtractIs
<1>21. PICK t \in [0 .. n -> Int] : IsSubtract(t, x, d, qhat)
  BY <1>20 DEF IsSubtract
<1>4. /\ \A i \in 0 .. n :
           t[i] = (x[i + d] - (IF i = 0 THEN 0 ELSE ((qhat * vn[i - 1]) \div B) - (t[i - 1] \div B)))
                    - (IF i < n THEN (qhat * vn[i]) % B ELSE 0)
      /\ Subtract(x, d, qhat).limbs
           = [i \in DOMAIN x |-> IF i \in d .. (d + n) THEN t[i - d] % B ELSE x[i]]
      /\ Subtract(x, d, qhat).negative <=> t[n] < 0
  BY <1>21, Zenon DEF IsSubtract
<1>5. \A i \in 0 .. n : w[i] = t[i] % B /\ w[i] \in Int
  <2> TAKE i \in 0 .. n
  <2>1. w[i] = t[i] % B
    <3>1. d + i \in DOMAIN x
      BY <1>2
    <3> QED BY <1>2, <1>4, <3>1
  <2> QED BY <1>1, <2>1, DivMod
<1>6. PICK c : c = [i \in 0 .. (n + 1) |->
                     IF i = 0 THEN 0
                     ELSE (IF i - 1 < n THEN (qhat * vn[i - 1]) \div B ELSE 0) - (t[i - 1] \div B)]
  OBVIOUS
<1>7. ASSUME NEW i \in 0 .. n
      PROVE  /\ c[i] \in Int /\ c[i + 1] \in Int
             /\ w[i] = ((y[i] - (IF i < n THEN qhat * vn[i] ELSE 0)) - c[i]) + B * c[i + 1]
  <2>1. PICK a, b : a = (IF i < n THEN qhat * vn[i] ELSE 0) /\ b = t[i]
    OBVIOUS
  <2>2. a \in Int /\ b \in Int
    <3>1. CASE i < n
      BY <2>1, <3>1, Commutes
    <3> QED BY <2>1, <3>1
  <2>3. a = (B * (a \div B)) + (a % B) /\ a \div B \in Int /\ a % B \in Int
    BY <1>1, <2>2, DivMod
  <2>4. b = (B * (b \div B)) + (b % B) /\ b \div B \in Int /\ b % B \in Int
    BY <1>1, <2>2, DivMod
  <2>5. c[i + 1] = (a \div B) - (b \div B)
    <3>1. i + 1 \in 0 .. (n + 1) /\ i + 1 # 0 /\ (i + 1) - 1 = i
      OBVIOUS
    <3>2. ~(i < n) => a \div B = 0
      BY <1>1, <2>1
    <3> QED BY <1>6, <2>1, <3>1, <3>2
  <2>6. c[i] \in Int
    <3>1. CASE i = 0
      BY <1>6, <3>1
    <3>2. CASE i # 0
      <4>1. i - 1 \in 0 .. (n - 1) /\ i - 1 \in 0 .. n
        BY <3>2
      <4>2. PICK a1, b1 : a1 = qhat * vn[i - 1] /\ b1 = t[i - 1]
        OBVIOUS
      <4>3. a1 \in Int /\ b1 \in Int
        BY <4>1, <4>2, Commutes
      <4>4. a1 \div B \in Int /\ b1 \div B \in Int
        BY <1>1, <4>3, DivMod
      <4> QED BY <1>6, <3>2, <4>1, <4>2, <4>4
    <3> QED BY <3>1, <3>2
  <2>7. b = (y[i] - c[i]) - (a % B)
    <3>1. ~(i < n) => a % B = 0
      BY <1>1, <2>1
    <3>2. c[i] = IF i = 0 THEN 0 ELSE ((qhat * vn[i - 1]) \div B) - (t[i - 1] \div B)
      BY <1>6
    <3>3. t[i] = (x[i + d] - c[i]) - (IF i < n THEN (qhat * vn[i]) % B ELSE 0)
      BY <1>4, <3>2
    <3>4. (IF i < n THEN (qhat * vn[i]) % B ELSE 0) = a % B
      BY <2>1, <3>1
    <3> QED BY <1>2, <2>1, <3>3, <3>4
  <2>8. w[i] = b % B
    BY <1>5, <2>1
  <2>9. B * c[i + 1] = (B * (a \div B)) - (B * (b \div B))
    BY <1>1, <2>3, <2>4, <2>5, Distributes
  <2>10. w[i] = ((y[i] - a) - c[i]) + B * c[i + 1]
    <3>1. PICK ab, bb, y1, c1 : ab = B * (a \div B) /\ bb = B * (b \div B) /\ y1 = y[i] /\ c1 = c[i]
      OBVIOUS
    <3>2. ab \in Int /\ bb \in Int /\ y1 \in Int /\ c1 \in Int
      <4>1. B \in Int
        BY <1>1
      <4>2. ab \in Int
        BY <2>3, <3>1, <4>1, ProductInt
      <4>3. bb \in Int
        BY <2>4, <3>1, <4>1, ProductInt
      <4> QED BY <1>3, <2>6, <3>1, <4>2, <4>3
    <3>3. PICK am, bm : am = a % B /\ bm = b % B
      OBVIOUS
    <3>4. a = ab + am /\ b = bb + bm /\ am \in Int /\ bm \in Int
      BY <2>3, <2>4, <3>1, <3>3
    <3>5. B * c[i + 1] = ab - bb
      BY <2>9, <3>1
    <3>6. b = (y1 - c1) - am
      BY <2>7, <3>1, <3>3
    <3>7. bm = ((y1 - a) - c1) + (ab - bb)
      <4>1. bm = b - bb /\ am = a - ab
        BY <2>2, <3>2, <3>4
      <4>2. (a - ab) + ab = a
        BY <2>2, <3>2
      <4> QED BY <2>2, <3>2, <3>4, <3>6, <4>1, <4>2
    <3>8. w[i] = bm
      BY <2>8, <3>3
    <3> QED BY <3>1, <3>5, <3>7, <3>8
  <2>11. c[i + 1] \in Int
    BY <2>3, <2>4, <2>5
  <2> QED BY <2>1, <2>6, <2>10, <2>11
<1>8. PICK N1, g : /\ N1 = [i \in 0 .. (n + 1) |-> IF i <= n THEN Number(vn, i) ELSE Number(vn, n)]
                   /\ g = [i \in 0 .. (n + 1) |-> (Number(y, i) - qhat * N1[i]) + c[i] * Place[i]]
  OBVIOUS
<1>9. /\ Number(vn, 0) = 0 /\ \A i \in 0 .. n : Number(vn, i) \in Int
      /\ \A i \in 0 .. (n - 1) : Number(vn, i + 1) = Number(vn, i) + vn[i] * Place[i]
  BY <1>1, NumberSteps
<1>10. /\ Number(y, 0) = 0 /\ \A i \in 0 .. (n + 1) : Number(y, i) \in Int
       /\ \A i \in 0 .. n : Number(y, i + 1) = Number(y, i) + y[i] * Place[i]
  <2>1. \A i \in 0 .. ((n + 1) - 1) : y[i] \in Int
    BY <1>3
  <2>2. 0 .. ((n + 1) - 1) = 0 .. n
    OBVIOUS
  <2> QED BY <1>1, <2>1, <2>2, NumberSteps
<1>11. g[0] = 0
  <2>1. 0 \in 0 .. (n + 1) /\ c[0] = 0 /\ Place[0] = 1
    BY <1>6, PlaceSteps
  <2>2. N1[0] = 0
    BY <1>8, <1>9, <2>1
  <2>3. g[0] = (Number(y, 0) - qhat * N1[0]) + c[0] * Place[0]
    BY <1>8, <2>1
  <2> QED BY <1>10, <2>1, <2>2, <2>3
<1>12. ASSUME NEW i \in 0 .. n PROVE g[i + 1] = g[i] + w[i] * Place[i]
  <2>1. i \in 0 .. (n + 1) /\ i + 1 \in 0 .. (n + 1) /\ i \in 0 .. MaxLimbs /\ i \in 0 .. (MaxLimbs + 1)
    BY <1>1
  <2>2. PICK a, y0, yi, N0, p, c0, c2 :
          /\ a = (IF i < n THEN vn[i] ELSE 0) /\ y0 = Number(y, i) /\ yi = y[i] /\ N0 = N1[i]
          /\ p = Place[i] /\ c0 = c[i] /\ c2 = c[i + 1]
    OBVIOUS
  <2>3. /\ a \in Int /\ y0 \in Int /\ yi \in Int /\ N0 \in Int /\ p \in Int /\ c0 \in Int /\ c2 \in Int
        /\ B \in Int
    <3>1. a \in Int
      BY <2>2
    <3>2. N0 \in Int
      BY <1>8, <1>9, <2>1, <2>2
    <3>3. p \in Int
      BY <2>1, <2>2, PlaceSteps
    <3>4. y0 \in Int /\ yi \in Int
      BY <1>3, <1>10, <2>1, <2>2
    <3>5. c0 \in Int /\ c2 \in Int
      BY <1>7, <2>2
    <3> QED BY <1>1, <3>1, <3>2, <3>3, <3>4, <3>5
  <2>4. N1[i + 1] = N0 + a * p
    <3>1. CASE i < n
      <4>1. i + 1 <= n /\ i <= n /\ i \in 0 .. (n - 1)
        BY <3>1
      <4> QED BY <1>8, <1>9, <2>1, <2>2, <3>1, <4>1
    <3>2. CASE ~(i < n)
      <4>1. i = n /\ ~(i + 1 <= n)
        BY <3>2
      <4>2. a * p = 0
        BY <2>2, <2>3, <3>2
      <4>3. N1[i + 1] = Number(vn, n) /\ N0 = Number(vn, n)
        BY <1>8, <2>1, <2>2, <4>1
      <4> QED BY <2>3, <4>2, <4>3
    <3> QED BY <3>1, <3>2
  <2>5. Number(y, i + 1) = y0 + yi * p /\ Place[i + 1] = B * p
    BY <1>10, <2>1, <2>2, PlaceSteps
  <2>6. w[i] = ((yi - qhat * a) - c0) + B * c2
    <3>1. (IF i < n THEN qhat * vn[i] ELSE 0) = qhat * a
      BY <2>2
    <3> QED BY <1>7, <2>2, <3>1
  <2>7. g[i + 1] = ((y0 + yi * p) - qhat * (N0 + a * p)) + c2 * (B * p)
    BY <1>8, <2>1, <2>2, <2>4, <2>5
  <2>8. g[i] = (y0 - qhat * N0) + c0 * p
    BY <1>8, <2>1, <2>2
  <2>9. ((y0 + yi * p) - qhat * (N0 + a * p)) + c2 * (B * p)
          = ((y0 - qhat * N0) + c0 * p) + (((yi - qhat * a) - c0) + B * c2) * p
    BY <2>3
  <2> QED BY <2>2, <2>6, <2>7, <2>8, <2>9
<1>13. Number(w, n + 1) = g[n + 1]
  <2>1. PICK N : N = n
    OBVIOUS
  <2>2. N \in 0 .. MaxLimbs
    BY <1>1, <2>1
  <2>3. \A i \in 0 .. N : w[i] \in Int
    BY <1>5, <2>1
  <2>4. \A i \in 0 .. N : g[i + 1] = g[i] + w[i] * Place[i]
    BY <1>12, <2>1
  <2>5. Number(w, N + 1) = g[N + 1]
    <3>1. Grows(g, w, N)
      BY <1>11, <2>3, <2>4 DEF Grows
    <3> QED BY <2>2, <3>1, SumsToNext
  <2> QED BY <2>1, <2>5
<1>14. PICK e : e = t[n] \div B
  OBVIOUS
<1>15. e \in Int /\ (t[n] < 0 <=> e < 0) /\ c[n + 1] = -e
  <2>1. PICK a : a = t[n]
    OBVIOUS
  <2>2. a \in Int
    BY <2>1
  <2>3. a = (B * (a \div B)) + (a % B) /\ a \div B \in Int /\ a % B \in Int /\ 0 <= a % B /\ a % B < B
    <3>1. B > 0
      BY <1>1
    <3> QED BY <1>1, <2>2, <3>1, DivMod
  <2>4. PICK rest : rest = a % B
    OBVIOUS
  <2>5. a = (B * e) + rest /\ e \in Int /\ rest \in Int /\ 0 <= rest /\ rest < B
    BY <1>14, <2>1, <2>3, <2>4
  <2>6. PICK b : b = B
    OBVIOUS
  <2>7. a < 0 <=> e < 0
    <3>1. b \in Nat /\ b > 0 /\ a = (b * e) + rest /\ rest < b
      BY <1>1, <2>5, <2>6
    <3> QED BY <2>2, <2>5, <3>1, SignOfQuotient
  <2>8. c[n + 1] = -e
    <3>1. n + 1 \in 0 .. (n + 1) /\ n + 1 # 0 /\ (n + 1) - 1 = n
      OBVIOUS
    <3>2. c[n + 1] = 0 - (t[n] \div B)
      BY <1>6, <3>1
    <3> QED BY <1>14, <2>5, <3>2
  <2> QED BY <2>1, <2>5, <2>7, <2>8
<1>16. g[n + 1] = (Number(y, n + 1) - qhat * Number(vn, n)) - Place[n + 1] * e
  <2>1. n + 1 \in 0 .. (n + 1) /\ N1[n + 1] = Number(vn, n)
    BY <1>8
  <2>2. PICK p, b, f : p = Place[n + 1] /\ b = Number(y, n + 1) /\ f = qhat * Number(vn, n)
    OBVIOUS
  <2>3. p \in Int /\ b \in Int /\ f \in Int
    <3>1. p \in Int
      <4>1. Place[n + 1] \in Nat
        BY <1>1, PlaceSteps
      <4> QED BY <2>2, <4>1
    <3>2. Number(vn, n) \in Int /\ b \in Int
      <4>1. n \in 0 .. n
        OBVIOUS
      <4> QED BY <1>9, <1>10, <2>1, <2>2, <4>1
    <3> QED BY <2>2, <3>1, <3>2, ProductInt
  <2>4. g[n + 1] = (b - f) + (-e) * p
    BY <1>8, <1>15, <2>1, <2>2
  <2>5. (-e) * p = -(p * e)
    BY <1>15, <2>3
  <2>6. p * e \in Int
    BY <1>15, <2>3
  <2> QED BY <2>2, <2>3, <2>4, <2>5, <2>6
<1>17. Less(e, w, y, x, d, qhat)
  <2>1. Subtract(x, d, qhat).negative <=> t[n] < 0
    BY <1>4, Zenon
  <2>2. t[n] < 0 <=> e < 0
    BY <1>15
  <2>3. Number(w, n + 1) = (Number(y, n + 1) - qhat * Number(vn, n)) - Place[n + 1] * e
    BY <1>13, <1>16
  <2> QED BY <2>1, <2>2, <2>3, Zenon DEF Less
<1> QED BY <1>15, <1>17

\* The function inside AddBack has its values.
IsAddBack(carry, x, d) ==
  /\ carry \in [0 .. n -> Int]
  /\ \A i \in 0 .. n :
       carry[i] = IF i = 0 THEN 0 ELSE ((x[(i - 1) + d] + vn[i - 1]) + carry[i - 1]) \div B
  /\ AddBack(x, d)
       = [i \in DOMAIN x |->
            IF i \in d .. (d + n)
            THEN ((x[i] + (IF (i - d) < n THEN vn[i - d] ELSE 0)) + carry[i - d]) % B ELSE x[i]]

\* AddBack has such carries.
LEMMA AddBackIs ==
  ASSUME n \in Nat, NEW d \in Nat, NEW x, \A i \in 0 .. n : x[i + d] \in Int,
         \A i \in 0 .. (n - 1) : vn[i] \in Int
  PROVE  \E carry : IsAddBack(carry, x, d)
<1> DEFINE V(i, a) == IF i = 0 THEN 0 ELSE ((x[(i - 1) + d] + vn[i - 1]) + a) \div B
           P(f) == f = [i \in 0 .. n |-> V(i, f[i - 1])]
<1>1. B \in Nat /\ B >= 2
  BY BaseFacts
<1>2. ASSUME NEW i \in 0 .. n, NEW a \in Int PROVE V(i, a) \in Int
  <2>1. CASE i # 0
    <3>1. i - 1 \in 0 .. n /\ i - 1 \in 0 .. (n - 1)
      BY <2>1
    <3>2. PICK e : e = (x[(i - 1) + d] + vn[i - 1]) + a
      OBVIOUS
    <3>3. e \in Int
      BY <3>1, <3>2
    <3>4. e \div B \in Int
      BY <1>1, <3>3, DivInt
    <3> QED BY <2>1, <3>2, <3>4
  <2> QED BY <2>1
<1>4. PICK h : h = [p \in (1 .. n) \X Int |-> V(p[1], p[2])]
  OBVIOUS
<1>5. h \in [(1 .. n) \X Int -> Int] /\ V(0, 0) \in Int
  <2>1. \A p \in (1 .. n) \X Int : p[1] \in 0 .. n /\ p[2] \in Int
    OBVIOUS
  <2>2. \A p \in (1 .. n) \X Int : V(p[1], p[2]) \in Int
    <3> HIDE DEF V
    <3> QED BY <1>2, <2>1
  <2>3. 0 \in 0 .. n /\ 0 \in Int
    OBVIOUS
  <2> HIDE DEF V
  <2> QED BY <1>2, <1>4, <2>2, <2>3
<1>6. PICK f \in [0 .. n -> Int] : Steps(f, n, V(0, 0), h)
  <2> HIDE DEF V
  <2> QED BY <1>5, RecursionExists
<1>7. P(f)
  <2>1. ASSUME NEW i \in 0 .. n PROVE f[i] = V(i, f[i - 1])
    <3>1. CASE i = 0
      <4>1. f[0] = V(0, 0)
        BY <1>6 DEF Steps
      <4>2. V(0, 0) = V(0, f[0 - 1])
        OBVIOUS
      <4> HIDE DEF V
      <4> QED BY <3>1, <4>1, <4>2
    <3>2. CASE i # 0
      <4>1. i \in 1 .. n /\ i - 1 \in 0 .. n
        BY <3>2
      <4>2. f[i - 1] \in Int
        BY <1>6, <4>1
      <4>3. f[i] = h[<<i, f[i - 1]>>]
        BY <1>6, <4>1 DEF Steps
      <4> HIDE DEF V
      <4> QED BY <1>4, <4>1, <4>2, <4>3
    <3> QED BY <3>1, <3>2
  <2> HIDE DEF V
  <2> QED BY <1>6, <2>1
<1> DEFINE C == CHOOSE f_1 : P(f_1)
<1>8. PICK carry : carry = C
  OBVIOUS
<1>9. P(carry)
  <2>1. P(C)
    <3> HIDE DEF P
    <3> QED BY <1>7, Zenon
  <2> HIDE DEF P, C
  <2> QED BY <1>8, <2>1, Zenon
<1>10. AddBack(x, d)
         = [i \in DOMAIN x |->
              IF i \in d .. (d + n)
              THEN ((x[i] + (IF (i - d) < n THEN vn[i - d] ELSE 0)) + carry[i - d]) % B ELSE x[i]]
  <2>1. AddBack(x, d)
         = [i \in DOMAIN x |->
              IF i \in d .. (d + n)
              THEN ((x[i] + (IF (i - d) < n THEN vn[i - d] ELSE 0)) + C[i - d]) % B ELSE x[i]]
    BY SMT DEF AddBack
  <2> HIDE DEF C
  <2> QED BY <1>8, <2>1, Zenon
<1>11. \A i \in 0 .. n : carry[i] = V(i, carry[i - 1])
  <2> HIDE DEF V
  <2> QED BY <1>9, Zenon
<1>12. carry \in [0 .. n -> Int]
  <2>1. PICK T : T = {i \in 0 .. n : carry[i] \in Int}
    OBVIOUS
  <2>2. 0 \in T
    <3>1. carry[0] = V(0, carry[0 - 1]) /\ 0 \in 0 .. n
      BY <1>11
    <3>2. V(0, carry[0 - 1]) = V(0, 0)
      OBVIOUS
    <3> HIDE DEF V
    <3> QED BY <1>5, <2>1, <3>1, <3>2
  <2>3. ASSUME NEW i \in 0 .. (n - 1), i \in T PROVE i + 1 \in T
    <3>1. i + 1 \in 0 .. n /\ (i + 1) - 1 = i
      OBVIOUS
    <3>2. carry[i + 1] = V(i + 1, carry[i])
      <4> HIDE DEF V
      <4> QED BY <1>11, <3>1
    <3> HIDE DEF V
    <3> QED BY <1>2, <2>1, <2>3, <3>1, <3>2
  <2>4. \A i \in 0 .. n : i \in T
    BY <2>2, <2>3, UpTo
  <2>5. DOMAIN carry = 0 .. n /\ carry = [i \in DOMAIN carry |-> carry[i]]
    <3> HIDE DEF V
    <3> QED BY <1>9
  <2> QED BY <2>1, <2>4, <2>5
<1> QED
  <2> HIDE DEF V, P, C
  <2>1. \A i \in 0 .. n :
          carry[i] = IF i = 0 THEN 0 ELSE ((x[(i - 1) + d] + vn[i - 1]) + carry[i - 1]) \div B
    BY <1>11, Zenon DEF V
  <2>2. IsAddBack(carry, x, d)
    BY <1>10, <1>12, <2>1, Zenon DEF IsAddBack
  <2> QED BY <2>2

\* The window from d on becomes its sum with vn, up to a multiple of the place above it.
LEMMA AddBackValue ==
  ASSUME NEW d, NEW x, Stepping(d, x),
         NEW y, Window(y, x, d), NEW w, Window(w, AddBack(x, d), d)
  PROVE  \E e \in Int : Number(w, n + 1) = (Number(y, n + 1) + Number(vn, n)) - Place[n + 1] * e
<1> USE DEF Stepping, Window
<1>1. B \in Nat /\ B >= 2 /\ MaxLimbs \in Nat /\ n + 1 \in 0 .. (MaxLimbs + 1) /\ n \in 0 .. (MaxLimbs + 1)
  BY BaseFacts, TwosSteps
<1>2. \A i \in 0 .. n : /\ d + i \in 0 .. MaxLimbs /\ i + d = d + i /\ d + i \in d .. (d + n)
                        /\ (d + i) - d = i
  BY <1>1
<1>3. \A i \in 0 .. n : x[i + d] \in Int /\ y[i] \in Int
  <2> TAKE i \in 0 .. n
  <2>1. x[d + i] \in 0 .. (B - 1)
    BY <1>2
  <2>2. x[d + i] \in Int
    BY <1>1, <2>1
  <2> QED BY <1>2, <2>2
<1>20. \E t : IsAddBack(t, x, d)
  BY <1>3, AddBackIs
<1>21. PICK t \in [0 .. n -> Int] : IsAddBack(t, x, d)
  BY <1>20 DEF IsAddBack
<1>4. /\ \A i \in 0 .. n :
           t[i] = IF i = 0 THEN 0 ELSE ((x[(i - 1) + d] + vn[i - 1]) + t[i - 1]) \div B
      /\ AddBack(x, d)
           = [i \in DOMAIN x |->
                IF i \in d .. (d + n)
                THEN ((x[i] + (IF (i - d) < n THEN vn[i - d] ELSE 0)) + t[i - d]) % B ELSE x[i]]
  BY <1>21, Zenon DEF IsAddBack
<1>5. PICK add, c : /\ add = [i \in 0 .. n |-> IF i < n THEN vn[i] ELSE 0]
                    /\ c = [i \in 0 .. (n + 1) |-> IF i <= n THEN t[i] ELSE (y[n] + t[n]) \div B]
  OBVIOUS
<1>6. ASSUME NEW i \in 0 .. n
      PROVE  /\ c[i] \in Int /\ c[i + 1] \in Int /\ add[i] \in Int /\ w[i] \in Int
             /\ w[i] = ((y[i] + add[i]) + c[i]) - B * c[i + 1]
  <2>1. PICK b : b = (y[i] + add[i]) + t[i]
    OBVIOUS
  <2>2. add[i] \in Int /\ y[i] \in Int /\ t[i] \in Int
    <3>1. y[i] \in Int /\ t[i] \in Int
      BY <1>3
    <3>2. i < n => i \in 0 .. (n - 1)
      OBVIOUS
    <3>3. add[i] = IF i < n THEN vn[i] ELSE 0
      BY <1>5
    <3> QED BY <3>1, <3>2, <3>3
  <2>3. b \in Int
    BY <2>1, <2>2
  <2>4. b = (B * (b \div B)) + (b % B) /\ b \div B \in Int /\ b % B \in Int
    BY <1>1, <2>3, DivMod
  <2>5. w[i] = b % B
    <3>1. PICK l : l = d + i
      OBVIOUS
    <3>2. l \in DOMAIN x /\ l \in d .. (d + n) /\ l - d = i
      BY <1>2, <3>1
    <3>3. AddBack(x, d)[l] = ((x[l] + (IF i < n THEN vn[i] ELSE 0)) + t[i]) % B
      BY <1>4, <3>2
    <3>4. add[i] = (IF i < n THEN vn[i] ELSE 0) /\ y[i] = x[l] /\ w[i] = AddBack(x, d)[l]
      BY <1>5, <3>1
    <3> QED BY <2>1, <3>3, <3>4
  <2>6. c[i] = t[i]
    BY <1>5
  <2>7. c[i + 1] = b \div B
    <3>1. CASE i < n
      <4>1. i + 1 \in 0 .. n /\ (i + 1) - 1 = i /\ i + 1 # 0 /\ i + 1 \in 0 .. (n + 1) /\ i + 1 <= n
        BY <3>1
      <4>2. c[i + 1] = t[i + 1]
        BY <1>5, <4>1
      <4>3. t[i + 1] = ((x[i + d] + vn[i]) + t[i]) \div B
        BY <1>4, <4>1
      <4>4. add[i] = vn[i] /\ y[i] = x[i + d]
        BY <1>2, <1>5, <3>1
      <4> QED BY <2>1, <4>2, <4>3, <4>4
    <3>2. CASE ~(i < n)
      <4>1. i = n /\ i + 1 \in 0 .. (n + 1) /\ ~(i + 1 <= n) /\ add[i] = 0
        BY <1>5, <3>2
      <4>2. c[i + 1] = (y[n] + t[n]) \div B
        BY <1>5, <4>1
      <4>3. b = y[n] + t[n]
        BY <2>1, <2>2, <4>1
      <4> QED BY <4>2, <4>3
    <3> QED BY <3>1, <3>2
  <2>8. PICK bq, br, bb : bq = b \div B /\ br = b % B /\ bb = B * bq
    OBVIOUS
  <2>9. b = bb + br /\ bq \in Int /\ br \in Int
    BY <2>4, <2>8
  <2>10. bb \in Int
    <3>1. B \in Int
      BY <1>1
    <3> QED BY <2>8, <2>9, <3>1, ProductInt
  <2>11. br = b - bb
    BY <2>3, <2>9, <2>10
  <2>12. w[i] = ((y[i] + add[i]) + c[i]) - B * c[i + 1]
    BY <2>1, <2>5, <2>6, <2>7, <2>8, <2>11
  <2>13. c[i] \in Int /\ c[i + 1] \in Int /\ w[i] \in Int
    BY <2>2, <2>5, <2>6, <2>7, <2>8, <2>9
  <2> QED BY <2>2, <2>12, <2>13
<1>8. PICK N1, g : /\ N1 = [i \in 0 .. (n + 1) |-> IF i <= n THEN Number(vn, i) ELSE Number(vn, n)]
                   /\ g = [i \in 0 .. (n + 1) |-> (Number(y, i) + N1[i]) - c[i] * Place[i]]
  OBVIOUS
<1>9. /\ Number(vn, 0) = 0 /\ \A i \in 0 .. n : Number(vn, i) \in Int
      /\ \A i \in 0 .. (n - 1) : Number(vn, i + 1) = Number(vn, i) + vn[i] * Place[i]
  BY <1>1, NumberSteps
<1>10. /\ Number(y, 0) = 0 /\ \A i \in 0 .. (n + 1) : Number(y, i) \in Int
       /\ \A i \in 0 .. n : Number(y, i + 1) = Number(y, i) + y[i] * Place[i]
  <2>1. \A i \in 0 .. ((n + 1) - 1) : y[i] \in Int
    BY <1>3
  <2>2. 0 .. ((n + 1) - 1) = 0 .. n
    OBVIOUS
  <2>3. PICK M : M = n + 1
    OBVIOUS
  <2>4. M \in 0 .. (MaxLimbs + 1) /\ \A i \in 0 .. (M - 1) : y[i] \in Int
    BY <1>1, <2>1, <2>3
  <2>5. /\ Number(y, 0) = 0 /\ \A i \in 0 .. M : Number(y, i) \in Int
        /\ \A i \in 0 .. (M - 1) : Number(y, i + 1) = Number(y, i) + y[i] * Place[i]
    BY <2>4, NumberSteps
  <2> QED BY <2>2, <2>3, <2>5
<1>11. g[0] = 0
  <2>1. 0 \in 0 .. (n + 1) /\ 0 \in 0 .. n /\ Place[0] = 1
    BY PlaceSteps
  <2>2. N1[0] = 0
    BY <1>8, <1>9, <2>1
  <2>3. c[0] = 0
    <3>1. t[0] = 0
      BY <1>4, <2>1
    <3> QED BY <1>5, <2>1, <3>1
  <2>4. g[0] = (Number(y, 0) + N1[0]) - c[0] * Place[0]
    BY <1>8, <2>1
  <2> QED BY <1>10, <2>1, <2>2, <2>3, <2>4
<1>12. ASSUME NEW i \in 0 .. n PROVE g[i + 1] = g[i] + w[i] * Place[i]
  <2>1. i \in 0 .. (n + 1) /\ i + 1 \in 0 .. (n + 1) /\ i \in 0 .. MaxLimbs /\ i \in 0 .. (MaxLimbs + 1)
    BY <1>1
  <2>2. PICK a, y0, yi, N0, p, c0, c2 :
          /\ a = add[i] /\ y0 = Number(y, i) /\ yi = y[i] /\ N0 = N1[i]
          /\ p = Place[i] /\ c0 = c[i] /\ c2 = c[i + 1]
    OBVIOUS
  <2>3. /\ a \in Int /\ y0 \in Int /\ yi \in Int /\ N0 \in Int /\ p \in Int /\ c0 \in Int /\ c2 \in Int
        /\ B \in Int
    <3>1. a \in Int /\ c0 \in Int /\ c2 \in Int
      BY <1>6, <2>2
    <3>2. N0 \in Int
      BY <1>8, <1>9, <2>1, <2>2
    <3>3. p \in Int
      BY <2>1, <2>2, PlaceSteps
    <3>4. y0 \in Int /\ yi \in Int
      BY <1>3, <1>10, <2>1, <2>2
    <3> QED BY <1>1, <3>1, <3>2, <3>3, <3>4
  <2>4. N1[i + 1] = N0 + a * p
    <3>1. CASE i < n
      <4>1. i + 1 <= n /\ i <= n /\ i \in 0 .. (n - 1) /\ a = vn[i]
        BY <1>5, <2>2, <3>1
      <4> QED BY <1>8, <1>9, <2>1, <2>2, <3>1, <4>1
    <3>2. CASE ~(i < n)
      <4>1. i = n /\ ~(i + 1 <= n) /\ a = 0
        BY <1>5, <2>2, <3>2
      <4>2. a * p = 0
        BY <2>3, <4>1
      <4>3. N1[i + 1] = Number(vn, n) /\ N0 = Number(vn, n)
        BY <1>8, <2>1, <2>2, <4>1
      <4> QED BY <2>3, <4>2, <4>3
    <3> QED BY <3>1, <3>2
  <2>5. Number(y, i + 1) = y0 + yi * p /\ Place[i + 1] = B * p
    BY <1>10, <2>1, <2>2, PlaceSteps
  <2>6. w[i] = ((yi + a) + c0) - B * c2
    BY <1>6, <2>2
  <2>7. g[i + 1] = ((y0 + yi * p) + (N0 + a * p)) - c2 * (B * p)
    BY <1>8, <2>1, <2>2, <2>4, <2>5
  <2>8. g[i] = (y0 + N0) - c0 * p
    BY <1>8, <2>1, <2>2
  <2>9. ((y0 + yi * p) + (N0 + a * p)) - c2 * (B * p)
          = ((y0 + N0) - c0 * p) + (((yi + a) + c0) - B * c2) * p
    BY <2>3
  <2> QED BY <2>2, <2>6, <2>7, <2>8, <2>9
<1>13. Number(w, n + 1) = g[n + 1]
  <2>1. PICK N : N = n
    OBVIOUS
  <2>2. N \in 0 .. MaxLimbs
    BY <1>1, <2>1
  <2>3. \A i \in 0 .. N : w[i] \in Int
    BY <1>6, <2>1
  <2>4. \A i \in 0 .. N : g[i + 1] = g[i] + w[i] * Place[i]
    BY <1>12, <2>1
  <2>5. Number(w, N + 1) = g[N + 1]
    <3>1. Grows(g, w, N)
      BY <1>11, <2>3, <2>4 DEF Grows
    <3> QED BY <2>2, <3>1, SumsToNext
  <2> QED BY <2>1, <2>5
<1>14. PICK e : e = c[n + 1]
  OBVIOUS
<1>15. e \in Int
  BY <1>6, <1>14
<1>16. g[n + 1] = (Number(y, n + 1) + Number(vn, n)) - Place[n + 1] * e
  <2>1. n + 1 \in 0 .. (n + 1) /\ N1[n + 1] = Number(vn, n)
    BY <1>8
  <2>2. PICK p : p = Place[n + 1]
    OBVIOUS
  <2>3. p \in Int
    BY <1>1, <2>2, PlaceSteps
  <2>4. e * p = p * e
    BY <1>15, <2>3, Commutes
  <2> QED BY <1>8, <1>14, <2>1, <2>2, <2>4
<1> QED BY <1>13, <1>15, <1>16

----------------------------------------------------------------------------
(* Estimate: X and V are the rest and the divisor, p the place of the      *)
(* third of the limbs that the estimate looks at.                          *)

\* A factor cancels.
LEMMA LessFromProduct == \A a \in Nat, b, c \in Int : a * b < a * c => b < c
<1> TAKE a \in Nat, b, c \in Int
<1>1. c <= b => a * c <= a * b
  BY ProductLeq
<1>2. a * b \in Int /\ a * c \in Int
  BY ProductInt
<1> QED BY <1>1, <1>2

\* The numbers of an estimate: V and X by their high limbs and what is below,
\* Q and R the first quotient and its rest, c how much is taken off Q.
Estimating(p, v1, v2, x2, num, Vl, Xl, V, X, Q, R, c) ==
  /\ p \in Nat /\ v1 \in Nat /\ v1 > 0 /\ v2 \in 0 .. (B - 1) /\ x2 \in 0 .. (B - 1) /\ num \in Nat
  /\ Vl \in Nat /\ Vl < p /\ Xl \in Nat /\ Xl < p
  /\ V = ((v1 * B + v2) * p) + Vl /\ X = ((num * B + x2) * p) + Xl /\ X < V * B
  /\ Q \in Int /\ R \in Int /\ num = v1 * Q + R /\ R < v1 /\ c \in Int
Enough(v1, v2, x2, Q, R, c) ==
  R + c * v1 >= B \/ ~(Q - c >= B \/ (Q - c) * v2 > (R + c * v1) * B + x2)

\* The next digit is at most the estimate.
LEMMA EstimateHighEnough ==
  ASSUME NEW p, NEW v1, NEW v2, NEW x2, NEW num, NEW Vl, NEW Xl, NEW V, NEW X, NEW Q, NEW R, NEW c,
         Estimating(p, v1, v2, x2, num, Vl, Xl, V, X, Q, R, c),
         c = 0 \/ ~Enough(v1, v2, x2, Q, R, c - 1)
  PROVE  X < ((Q - c) + 1) * V
<1> USE DEF Estimating
<1>1. B \in Nat /\ B >= 2 /\ x2 \in Nat /\ x2 <= B - 1
  BY BaseFacts
<1>2. PICK k, b, G, V2, X3 : k = (Q - c) + 1 /\ b = B /\ G = b * p /\ V2 = v1 * b + v2 /\ X3 = num * b + x2
  OBVIOUS
<1>3. k \in Int /\ b \in Nat /\ b >= 2 /\ G \in Nat /\ V2 \in Nat /\ X3 \in Nat
  <2>1. v1 * b \in Nat /\ num * b \in Nat /\ b * p \in Nat
    BY <1>1, <1>2, ProductNat
  <2> QED BY <1>1, <1>2, <2>1
<1>4. V = V2 * p + Vl /\ X = X3 * p + Xl /\ V2 * p \in Nat /\ X3 * p \in Nat
  BY <1>2, <1>3, ProductNat
<1>5. V \in Nat /\ X \in Nat
  BY <1>4
<1>6. CASE c = 0
  <2>1. k = Q + 1 /\ num + 1 <= v1 * k
    <3>1. k = Q + 1
      BY <1>2, <1>6
    <3>2. v1 * k = v1 * Q + v1
      BY <3>1
    <3>3. v1 * Q \in Int
      BY ProductInt
    <3> QED BY <3>1, <3>2, <3>3
  <2>2. X < (num + 1) * G
    <3>1. p * x2 <= p * (b - 1)
      BY <1>1, <1>2, <1>3, ProductLeq
    <3>2. p * (b - 1) = G - p /\ x2 * p = p * x2 /\ x2 * p \in Nat
      BY <1>1, <1>2, <1>3
    <3>3. X3 * p = num * G + x2 * p
      <4>1. X3 * p = (num * b) * p + x2 * p
        BY <1>1, <1>2, <1>3
      <4>2. (num * b) * p = num * (b * p)
        BY <1>3
      <4> QED BY <1>2, <4>1, <4>2
    <3>4. (num + 1) * G = num * G + G /\ num * G \in Nat
      BY <1>3
    <3> QED BY <1>3, <1>4, <3>1, <3>2, <3>3, <3>4
  <2>3. (num + 1) * G <= (v1 * k) * G
    <3>1. PICK a, e : a = num + 1 /\ e = v1 * k
      OBVIOUS
    <3>2. a \in Int /\ e \in Int /\ a <= e
      BY <1>3, <2>1, <3>1, ProductInt
    <3>3. G * a <= G * e /\ G * a = a * G /\ G * e = e * G
      BY <1>3, <3>2, ProductLeq, Commutes
    <3> QED BY <3>1, <3>3
  <2>4. (v1 * k) * G <= k * V
    <3>1. k >= 1
      <4>1. k <= 0 => v1 * k <= v1 * 0
        BY <1>3, ProductLeq
      <4>2. v1 * 0 = 0 /\ v1 * k \in Int
        BY <1>3, ProductInt
      <4> QED BY <1>3, <2>1, <4>1, <4>2
    <3>2. k \in Nat
      BY <1>3, <3>1
    <3>3. V2 * p = v1 * G + v2 * p
      <4>1. V2 * p = (v1 * b) * p + v2 * p
        BY <1>1, <1>2, <1>3
      <4>2. (v1 * b) * p = v1 * (b * p)
        BY <1>3
      <4> QED BY <1>2, <4>1, <4>2
    <3>4. v1 * G \in Nat /\ v2 * p \in Nat
      BY <1>3, ProductNat
    <3>5. v1 * G <= V
      BY <1>4, <3>3, <3>4
    <3>6. k * (v1 * G) <= k * V
      BY <1>5, <3>2, <3>4, <3>5, ProductLeq
    <3>7. k * (v1 * G) = (v1 * k) * G
      BY <1>3
    <3> QED BY <3>6, <3>7
  <2>5. (num + 1) * G \in Int /\ (v1 * k) * G \in Int /\ k * V \in Int
    <3>1. v1 * k \in Int
      BY <1>3, ProductInt
    <3> QED BY <1>3, <1>5, <3>1, ProductInt
  <2>6. X < k * V
    BY <1>5, <2>2, <2>3, <2>4, <2>5
  <2> QED BY <1>2, <2>6
<1>7. CASE k >= b
  <2>1. V * b <= V * k /\ V * k = k * V /\ V * k \in Int /\ V * b \in Int
    BY <1>3, <1>5, <1>7, ProductLeq, Commutes
  <2>2. X < V * b
    BY <1>2
  <2> QED BY <1>2, <1>5, <2>1, <2>2
<1>8. CASE (Q - (c - 1)) * v2 > (R + (c - 1) * v1) * B + x2
  <2>1. PICK rh : rh = R + (c - 1) * v1
    OBVIOUS
  <2>2. rh = num - k * v1
    <3>1. (c - 1) * v1 = v1 * (c - 1) /\ k * v1 = v1 * Q - v1 * (c - 1)
      BY <1>2
    <3>2. v1 * Q \in Int /\ v1 * (c - 1) \in Int
      BY ProductInt
    <3> QED BY <2>1, <3>1, <3>2
  <2>3. k * v2 > rh * b + x2
    <3>1. k = Q - (c - 1)
      BY <1>2
    <3> QED BY <1>2, <1>8, <2>1, <3>1
  <2>4. rh * b = num * b - (k * v1) * b
    BY <1>3, <2>2
  <2>5. k * V2 = (k * v1) * b + k * v2
    BY <1>2, <1>3
  <2>6. num * b \in Int /\ (k * v1) * b \in Int /\ k * v2 \in Int
    <3>1. k * v1 \in Int
      BY <1>3, ProductInt
    <3> QED BY <1>3, <3>1, ProductInt
  <2>7. k * V2 > X3
    BY <1>1, <1>2, <2>3, <2>4, <2>5, <2>6
  <2>8. k * V2 \in Int
    BY <1>3, ProductInt
  <2>9. k > 0
    <3>1. k <= 0 => V2 * k <= V2 * 0
      BY <1>3, ProductLeq
    <3>2. V2 * 0 = 0 /\ V2 * k = k * V2
      BY <1>3, Commutes
    <3> QED BY <1>3, <2>7, <2>8, <3>1, <3>2
  <2>10. p * (X3 + 1) <= p * (k * V2)
    <3>1. X3 + 1 <= k * V2 /\ X3 + 1 \in Int
      BY <1>3, <2>7, <2>8
    <3> QED BY <2>8, <3>1, ProductLeq
  <2>11. p * (X3 + 1) = X3 * p + p /\ p * (k * V2) = (k * V2) * p
    BY <1>3, <2>8, Commutes
  <2>12. k * V = (k * V2) * p + k * Vl /\ k * Vl \in Nat /\ (k * V2) * p \in Int
    <3>1. k * V = k * (V2 * p) + k * Vl
      <4>1. PICK W : W = V2 * p
        OBVIOUS
      <4>2. W \in Int /\ V = W + Vl
        BY <1>4, <4>1
      <4>3. k * (W + Vl) = k * W + k * Vl
        BY <1>3, <4>2, Distributes
      <4> QED BY <4>1, <4>2, <4>3
    <3>2. k * (V2 * p) = (k * V2) * p
      BY <1>3
    <3>3. k * Vl \in Nat
      BY <1>3, <2>9, ProductNat
    <3> QED BY <2>8, <3>1, <3>2, <3>3, ProductInt
  <2>13. X < k * V
    BY <1>4, <2>10, <2>11, <2>12
  <2> QED BY <1>2, <2>13
<1>9. CASE Q - (c - 1) >= B
  BY <1>2, <1>7, <1>9
<1> QED BY <1>6, <1>8, <1>9 DEF Enough

\* The estimate is at most one more than the next digit.
LEMMA EstimateLowEnough ==
  ASSUME NEW p, NEW v1, NEW v2, NEW x2, NEW num, NEW Vl, NEW Xl, NEW V, NEW X, NEW Q, NEW R, NEW c,
         Estimating(p, v1, v2, x2, num, Vl, Xl, V, X, Q, R, c),
         Enough(v1, v2, x2, Q, R, c)
  PROVE  ((Q - c) - 1) * V <= X
<1> USE DEF Estimating
<1>1. B \in Nat /\ B >= 2 /\ v2 \in Nat /\ v2 <= B - 1
  BY BaseFacts
<1>2. PICK k, b, G, V2, X3 : k = Q - c /\ b = B /\ G = b * p /\ V2 = v1 * b + v2 /\ X3 = num * b + x2
  OBVIOUS
<1>3. k \in Int /\ b \in Nat /\ b >= 2 /\ G \in Nat /\ V2 \in Nat /\ X3 \in Nat
  <2>1. v1 * b \in Nat /\ num * b \in Nat /\ b * p \in Nat
    BY <1>1, <1>2, ProductNat
  <2> QED BY <1>1, <1>2, <2>1
<1>4. V = V2 * p + Vl /\ X = X3 * p + Xl /\ V2 * p \in Nat /\ X3 * p \in Nat
  BY <1>2, <1>3, ProductNat
<1>5. V \in Nat /\ X \in Nat
  BY <1>4
<1>6. PICK rh : rh = R + c * v1
  OBVIOUS
<1>7. rh = num - k * v1 /\ k * v1 \in Int /\ rh \in Int
  <2>1. c * v1 = v1 * c /\ k * v1 = v1 * Q - v1 * c
    BY <1>2
  <2>2. v1 * Q \in Int /\ v1 * c \in Int
    BY ProductInt
  <2> QED BY <1>6, <2>1, <2>2
<1>8. V2 * p = v1 * G + v2 * p /\ v1 * G \in Nat /\ v2 * p \in Nat
  <2>1. V2 * p = (v1 * b) * p + v2 * p
    BY <1>1, <1>2, <1>3
  <2>2. (v1 * b) * p = v1 * (b * p)
    BY <1>3
  <2>3. v1 * G \in Nat /\ v2 * p \in Nat
    BY <1>1, <1>3, ProductNat
  <2> QED BY <1>2, <2>1, <2>2, <2>3
<1>9. CASE k <= 0
  <2>1. V * (k - 1) <= V * 0 /\ V * 0 = 0 /\ V * (k - 1) = (k - 1) * V
    <3>1. k - 1 \in Int /\ k - 1 <= 0
      BY <1>3, <1>9
    <3> QED BY <1>5, <3>1, ProductLeq, Commutes
  <2>2. (k - 1) * V \in Int
    BY <1>3, <1>5, ProductInt
  <2> QED BY <1>2, <1>5, <2>1, <2>2
<1>10. CASE k > 0
  <2>1. k < b /\ k * V2 <= X3
    <3>1. k * V2 = (k * v1) * b + k * v2 /\ (k * v1) * b \in Int /\ k * v2 \in Int
      <4>1. k * V2 = (k * v1) * b + k * v2
        BY <1>1, <1>2, <1>3
      <4> QED BY <1>1, <1>3, <1>7, <4>1, ProductInt
    <3>2. rh * b = num * b - (k * v1) * b /\ num * b \in Int
      BY <1>3, <1>7
    <3>3. CASE rh >= b
      <4>1. v2 * p + Vl < G
        <5>1. p * v2 <= p * (b - 1)
          BY <1>1, <1>2, <1>3, ProductLeq
        <5>2. p * (b - 1) = G - p /\ v2 * p = p * v2
          BY <1>1, <1>2, <1>3
        <5> QED BY <1>3, <1>8, <5>1, <5>2
      <4>2. V < (v1 + 1) * G
        <5>1. (v1 + 1) * G = v1 * G + G
          BY <1>3
        <5> QED BY <1>3, <1>4, <1>8, <4>1, <5>1
      <4>3. num * G <= X
        <5>1. X3 * p = (num * b) * p + x2 * p
          BY <1>2, <1>3
        <5>2. (num * b) * p = num * (b * p)
          BY <1>3
        <5>3. x2 * p \in Nat /\ num * G \in Nat
          BY <1>3, ProductNat
        <5> QED BY <1>2, <1>4, <5>1, <5>2, <5>3
      <4>4. b * V <= b * ((v1 + 1) * G)
        <5>1. (v1 + 1) * G \in Int
          BY <1>3, ProductInt
        <5> QED BY <1>3, <1>5, <4>2, <5>1, ProductLeq
      <4>5. G * num < G * ((v1 + 1) * b)
        <5>1. b * ((v1 + 1) * G) = G * ((v1 + 1) * b)
          BY <1>3
        <5>2. G * num = num * G /\ b * V = V * b
          BY <1>3, <1>5, Commutes
        <5>3. X < V * b
          BY <1>2
        <5>4. G * num \in Int /\ b * V \in Int /\ b * ((v1 + 1) * G) \in Int
          <6>1. (v1 + 1) * G \in Int
            BY <1>3, ProductInt
          <6> QED BY <1>3, <1>5, <6>1, ProductInt
        <5> QED BY <1>5, <4>3, <4>4, <5>1, <5>2, <5>3, <5>4
      <4>6. num < (v1 + 1) * b /\ (v1 + 1) * b = v1 * b + b /\ v1 * b \in Int
        <5>1. (v1 + 1) * b \in Int
          BY <1>3, ProductInt
        <5>2. num < (v1 + 1) * b
          BY <1>3, <4>5, <5>1, LessFromProduct
        <5> QED BY <1>3, <5>2, ProductInt
      <4>7. k < b
        <5>1. v1 * k < v1 * b
          <6>1. PICK e, f : e = k * v1 /\ f = v1 * b
            OBVIOUS
          <6>2. e \in Int /\ f \in Int /\ rh = num - e /\ num < f + b
            BY <1>7, <4>6, <6>1
          <6>3. e < f
            BY <1>3, <1>7, <3>3, <6>2
          <6>4. k * v1 = v1 * k
            BY <1>3
          <6> QED BY <6>1, <6>3, <6>4
        <5> QED BY <1>3, <5>1, LessFromProduct
      <4>8. k * v2 <= b * b
        <5>1. k * v2 <= k * b
          BY <1>1, <1>2, <1>3, <1>10, ProductLeq
        <5>2. b * k <= b * b /\ b * k = k * b
          BY <1>3, <4>7, ProductLeq, Commutes
        <5>3. b * b \in Int /\ k * b \in Int
          BY <1>3, ProductInt
        <5> QED BY <3>1, <5>1, <5>2, <5>3
      <4>9. b * b <= rh * b
        <5>1. b * b <= b * rh /\ b * rh = rh * b
          BY <1>3, <1>7, <3>3, ProductLeq, Commutes
        <5> QED BY <5>1
      <4>10. k * V2 <= num * b
        <5>1. b * b \in Int /\ rh * b \in Int
          BY <1>3, <1>7, ProductInt
        <5> QED BY <3>1, <3>2, <4>8, <4>9, <5>1
      <4> QED BY <1>2, <1>3, <3>1, <3>2, <4>7, <4>10
    <3>4. CASE ~(Q - c >= B) /\ ~((Q - c) * v2 > (R + c * v1) * B + x2)
      <4>1. k < b /\ k * v2 <= rh * b + x2
        <5>1. ~(k >= b) /\ ~(k * v2 > rh * b + x2)
          BY <1>2, <1>6, <3>4
        <5>2. rh * b \in Int
          BY <1>3, <1>7, ProductInt
        <5> QED BY <1>3, <3>1, <5>1, <5>2
      <4>2. rh * b \in Int
        BY <1>3, <1>7, ProductInt
      <4> QED BY <1>2, <1>3, <3>1, <3>2, <4>1, <4>2
    <3> QED BY <1>2, <1>6, <3>3, <3>4 DEF Enough
  <2>2. k * V = (k * V2) * p + k * Vl
    <3>1. k * V = k * (V2 * p) + k * Vl
      <4>1. PICK W : W = V2 * p
        OBVIOUS
      <4>2. W \in Int /\ V = W + Vl
        BY <1>4, <4>1
      <4>3. k * (W + Vl) = k * W + k * Vl
        BY <1>3, <4>2, Distributes
      <4> QED BY <4>1, <4>2, <4>3
    <3>2. k * (V2 * p) = (k * V2) * p
      BY <1>3
    <3> QED BY <3>1, <3>2
  <2>3. (k * V2) * p <= X3 * p
    <3>1. PICK a : a = k * V2
      OBVIOUS
    <3>2. a \in Int /\ a <= X3
      BY <1>3, <2>1, <3>1, ProductInt
    <3>3. p * a <= p * X3 /\ p * a = a * p /\ p * X3 = X3 * p
      BY <1>3, <3>2, ProductLeq, Commutes
    <3> QED BY <3>1, <3>3
  <2>4. k * Vl <= G
    <3>1. k * Vl <= k * p
      BY <1>3, <1>10, ProductLeq
    <3>2. p * k <= p * b /\ p * k = k * p /\ p * b = G
      BY <1>2, <1>3, <2>1, ProductLeq, Commutes
    <3>3. k * Vl \in Int /\ k * p \in Int
      BY <1>3, ProductInt
    <3> QED BY <1>3, <3>1, <3>2, <3>3
  <2>5. G <= V
    <3>1. G * 1 <= G * v1 /\ G * 1 = G /\ G * v1 = v1 * G
      BY <1>3, ProductLeq, Commutes
    <3> QED BY <1>3, <1>4, <1>8, <3>1
  <2>6. (k - 1) * V = k * V - V
    BY <1>3, <1>5
  <2>7. (k * V2) * p \in Int /\ k * Vl \in Int /\ k * V \in Int
    <3>1. k * V2 \in Int
      BY <1>3, ProductInt
    <3> QED BY <1>3, <1>5, <3>1, ProductInt
  <2>8. (k - 1) * V <= X
    BY <1>3, <1>4, <1>5, <2>2, <2>3, <2>4, <2>5, <2>6, <2>7
  <2> QED BY <1>2, <2>8
<1> QED BY <1>3, <1>9, <1>10

\* The two highest limbs of the divisor and the three of the rest, and what is below.
LEMMA HighLimbs ==
  ASSUME NEW K \in Nat, K >= 2, K <= MaxLimbs,
         NEW y, \A i \in 0 .. K : y[i] \in 0 .. (B - 1), NEW z, \A i \in 0 .. (K - 1) : z[i] \in 0 .. (B - 1)
  PROVE  \E p \in Nat, Vl \in Nat, Xl \in Nat :
           /\ Vl < p /\ Xl < p
           /\ Number(z, K) = ((z[K - 1] * B + z[K - 2]) * p) + Vl
           /\ Number(y, K + 1) = (((y[K] * B + y[K - 1]) * B + y[K - 2]) * p) + Xl
<1>1. B \in Nat /\ B >= 2 /\ MaxLimbs \in Nat
  BY BaseFacts, TwosSteps
<1>2. PICK k, L : k = K - 2 /\ L = K + 1
  OBVIOUS
<1>3. /\ k \in Nat /\ K = k + 2 /\ K - 1 = k + 1 /\ k \in 0 .. MaxLimbs /\ k + 1 \in 0 .. MaxLimbs
      /\ k + 2 \in 0 .. MaxLimbs /\ k \in 0 .. (MaxLimbs + 1) /\ K \in 0 .. (MaxLimbs + 1)
      /\ L \in 0 .. (MaxLimbs + 1) /\ 0 .. (L - 1) = 0 .. K /\ L = (k + 2) + 1
      /\ k \in 0 .. K /\ k \in 0 .. L /\ k \in 0 .. (K - 1) /\ k + 1 \in 0 .. (K - 1)
      /\ k \in 0 .. (L - 1) /\ k + 1 \in 0 .. (L - 1) /\ k + 2 \in 0 .. (L - 1)
      /\ (k + 1) + 1 = k + 2
  BY <1>1, <1>2
<1>4. PICK p, Vl, Xl : p = Place[k] /\ Vl = Number(z, k) /\ Xl = Number(y, k)
  OBVIOUS
<1>5. p \in Nat /\ Place[k + 1] = B * p /\ Place[k + 2] = B * (B * p)
  <2>1. p \in Nat
    BY <1>3, <1>4, PlaceSteps
  <2>2. Place[k + 1] = B * p
    BY <1>3, <1>4, PlaceSteps
  <2>3. PICK l : l = k + 1
    OBVIOUS
  <2>4. Place[l + 1] = B * Place[l]
    BY <1>3, <2>3, PlaceSteps
  <2> QED BY <1>3, <2>1, <2>2, <2>3, <2>4
<1>6. Vl \in Nat /\ Vl < p
  BY <1>3, <1>4, NumberBound
<1>7. \A i \in 0 .. (L - 1) : y[i] \in 0 .. (B - 1)
  BY <1>3
<1>8. Xl \in Nat /\ Xl < p
  BY <1>3, <1>4, <1>7, NumberBound
<1>9. Number(z, K) = ((z[K - 1] * B + z[K - 2]) * p) + Vl
  <2>1. PICK v1, v2 : v1 = z[k + 1] /\ v2 = z[k]
    OBVIOUS
  <2>2. v1 \in Int /\ v2 \in Int
    BY <1>1, <1>3, <2>1
  <2>3. \A i \in 0 .. (K - 1) : z[i] \in Int
    BY <1>1
  <2>4. \A i \in 0 .. (K - 1) : Number(z, i + 1) = Number(z, i) + z[i] * Place[i]
    BY <1>3, <2>3, NumberSteps
  <2>5. Number(z, k + 1) = Vl + v2 * p
    BY <1>3, <1>4, <2>1, <2>4
  <2>6. Number(z, (k + 1) + 1) = Number(z, k + 1) + v1 * (B * p)
    BY <1>3, <1>5, <2>1, <2>4
  <2>7. (Vl + v2 * p) + v1 * (B * p) = ((v1 * B + v2) * p) + Vl
    BY <1>1, <1>5, <1>6, <2>2
  <2>8. Number(z, K) = ((v1 * B + v2) * p) + Vl
    BY <1>3, <2>5, <2>6, <2>7
  <2>9. z[K - 1] = v1 /\ z[K - 2] = v2
    BY <1>2, <1>3, <2>1
  <2> QED BY <2>8, <2>9
<1>10. Number(y, K + 1) = (((y[K] * B + y[K - 1]) * B + y[K - 2]) * p) + Xl
  <2>1. PICK v0, v1, v2 : v0 = y[k + 2] /\ v1 = y[k + 1] /\ v2 = y[k]
    OBVIOUS
  <2>2. v0 \in Int /\ v1 \in Int /\ v2 \in Int
    BY <1>1, <1>3, <1>7, <2>1
  <2>3. \A i \in 0 .. (L - 1) : y[i] \in Int
    BY <1>1, <1>7
  <2>4. \A i \in 0 .. (L - 1) : Number(y, i + 1) = Number(y, i) + y[i] * Place[i]
    BY <1>3, <2>3, NumberSteps
  <2>5. Number(y, k + 1) = Xl + v2 * p
    BY <1>3, <1>4, <2>1, <2>4
  <2>6. Number(y, (k + 1) + 1) = Number(y, k + 1) + v1 * (B * p)
    BY <1>3, <1>5, <2>1, <2>4
  <2>7. Number(y, (k + 2) + 1) = Number(y, k + 2) + v0 * (B * (B * p))
    BY <1>3, <1>5, <2>1, <2>4
  <2>8. ((Xl + v2 * p) + v1 * (B * p)) + v0 * (B * (B * p)) = (((v0 * B + v1) * B + v2) * p) + Xl
    BY <1>1, <1>5, <1>8, <2>2
  <2>9. Number(y, L) = (((v0 * B + v1) * B + v2) * p) + Xl
    BY <1>3, <2>5, <2>6, <2>7, <2>8
  <2>10. y[K] = v0 /\ y[K - 1] = v1 /\ y[K - 2] = v2
    BY <1>2, <1>3, <2>1
  <2> QED BY <1>2, <2>9, <2>10
<1> QED BY <1>5, <1>6, <1>8, <1>9, <1>10

\* Min of naturals is the least of them.
LEMMA MinFacts ==
  ASSUME NEW T \in SUBSET Nat, T # {}
  PROVE  Min(T) \in T /\ \A e \in T : Min(T) <= e
<1>1. \E a \in T : \A e \in T : a <= e
  BY LeastNat
<1> QED BY <1>1 DEF Min

\* What a digit's step starts from: the divisor fills its highest limb, and the
\* limbs d to d + n of the rest, taken as a number, give a digit.
Ready(y, d) ==
  /\ n \in Nat /\ n >= 2 /\ d \in Nat /\ d + n <= MaxLimbs
  /\ un \in [0 .. MaxLimbs -> 0 .. (B - 1)]
  /\ \A i \in 0 .. (n - 1) : vn[i] \in 0 .. (B - 1)
  /\ 2 * vn[n - 1] >= B
  /\ \A i \in 0 .. n : y[i] = un[d + i]
  /\ Number(y, n + 1) < Number(vn, n) * B

LEMMA EstimateIs ==
  ASSUME NEW d
  PROVE  \E num, qhat :
           /\ num = un[d + n] * B + un[d + (n - 1)] /\ qhat = num \div vn[n - 1]
           /\ Estimate(un, d)
                = qhat - Min({c \in 0 .. B :
                                (num % vn[n - 1]) + c * vn[n - 1] >= B
                                  \/ ~(\/ qhat - c >= B
                                       \/ (qhat - c) * vn[n - 2]
                                             > ((num % vn[n - 1]) + c * vn[n - 1]) * B + un[d + (n - 2)])})
<1>1. PICK num, qhat : num = un[d + n] * B + un[d + (n - 1)] /\ qhat = num \div vn[n - 1]
  OBVIOUS
<1>2. Estimate(un, d)
        = qhat - Min({c \in 0 .. B :
                        (num % vn[n - 1]) + c * vn[n - 1] >= B
                          \/ ~(\/ qhat - c >= B
                               \/ (qhat - c) * vn[n - 2]
                                     > ((num % vn[n - 1]) + c * vn[n - 1]) * B + un[d + (n - 2)])})
  BY <1>1, Zenon DEF Estimate
<1> QED BY <1>1, <1>2, Zenon

LEMMA EstimateBounds ==
  ASSUME NEW d, NEW y, Ready(y, d)
  PROVE  /\ Estimate(un, d) \in Int
         /\ Number(y, n + 1) < (Estimate(un, d) + 1) * Number(vn, n)
         /\ (Estimate(un, d) - 1) * Number(vn, n) <= Number(y, n + 1)
<1>1. /\ B \in Nat /\ B >= 2 /\ MaxLimbs \in Nat
      /\ n \in Nat /\ n >= 2 /\ d \in Nat /\ d + n <= MaxLimbs /\ n <= MaxLimbs
  BY BaseFacts, TwosSteps DEF Ready
<1>2. \A i \in 0 .. n : d + i \in 0 .. MaxLimbs /\ y[i] = un[d + i] /\ y[i] \in 0 .. (B - 1)
  <2> TAKE i \in 0 .. n
  <2>1. d + i \in 0 .. MaxLimbs /\ y[i] = un[d + i]
    <3>1. y[i] = un[d + i]
      BY Zenon DEF Ready
    <3> QED BY <1>1, <3>1
  <2>2. un[d + i] \in 0 .. (B - 1)
    BY <2>1 DEF Ready
  <2> QED BY <2>1, <2>2
<1>3. \A i \in 0 .. (n - 1) : vn[i] \in 0 .. (B - 1)
  BY DEF Ready
<1>4. PICK K, z : K = n /\ z = vn
  OBVIOUS
<1>5. PICK p \in Nat, Vl \in Nat, Xl \in Nat :
        /\ Vl < p /\ Xl < p
        /\ Number(z, K) = ((z[K - 1] * B + z[K - 2]) * p) + Vl
        /\ Number(y, K + 1) = (((y[K] * B + y[K - 1]) * B + y[K - 2]) * p) + Xl
  <2>1. K \in Nat /\ K >= 2 /\ K <= MaxLimbs
    BY <1>1, <1>4
  <2>2. \A i \in 0 .. K : y[i] \in 0 .. (B - 1)
    BY <1>2, <1>4
  <2>3. \A i \in 0 .. (K - 1) : z[i] \in 0 .. (B - 1)
    BY <1>3, <1>4
  <2> QED BY <2>1, <2>2, <2>3, HighLimbs
<1>6. PICK v1, v2, x0, x1, x2, V, X :
        /\ v1 = vn[n - 1] /\ v2 = vn[n - 2] /\ x0 = un[d + n] /\ x1 = un[d + (n - 1)] /\ x2 = un[d + (n - 2)]
        /\ V = Number(vn, n) /\ X = Number(y, n + 1)
  OBVIOUS
<1>7. /\ v1 \in 0 .. (B - 1) /\ v2 \in 0 .. (B - 1) /\ x0 \in 0 .. (B - 1) /\ x1 \in 0 .. (B - 1)
      /\ x2 \in 0 .. (B - 1) /\ y[K] = x0 /\ y[K - 1] = x1 /\ y[K - 2] = x2 /\ 2 * v1 >= B /\ X < V * B
  <2>1. /\ n \in 0 .. n /\ n - 1 \in 0 .. n /\ n - 2 \in 0 .. n /\ n - 1 \in 0 .. (n - 1) /\ n - 2 \in 0 .. (n - 1)
        /\ d + (n - 1) = (d + n) - 1 /\ d + (n - 2) = (d + n) - 2
    BY <1>1
  <2>2. v1 \in 0 .. (B - 1) /\ v2 \in 0 .. (B - 1)
    BY <1>3, <1>6, <2>1
  <2>3. y[K] = x0 /\ y[K - 1] = x1 /\ y[K - 2] = x2
    BY <1>2, <1>4, <1>6, <2>1
  <2>4. y[K] \in 0 .. (B - 1) /\ y[K - 1] \in 0 .. (B - 1) /\ y[K - 2] \in 0 .. (B - 1)
    BY <1>2, <1>4, <2>1
  <2>5. 2 * v1 >= B /\ X < V * B
    BY <1>6 DEF Ready
  <2> QED BY <2>2, <2>3, <2>4, <2>5
<1>8. PICK num : num = x0 * B + x1
  OBVIOUS
<1>9. num \in Nat /\ v1 \in Nat /\ v1 > 0 /\ v2 \in Nat /\ x2 \in Nat
  <2>1. x0 * B \in Nat
    BY <1>1, <1>7, ProductNat
  <2> QED BY <1>1, <1>7, <1>8, <2>1
<1>10. V = ((v1 * B + v2) * p) + Vl /\ X = ((num * B + x2) * p) + Xl
  BY <1>4, <1>5, <1>6, <1>7, <1>8
<1>11. PICK Q, R : Q = num \div v1 /\ R = num % v1
  OBVIOUS
<1>12. Q \in Int /\ R \in Int /\ num = v1 * Q + R /\ 0 <= R /\ R < v1
  BY <1>9, <1>11, DivMod
<1>13. PICK T : T = {c \in 0 .. B : Enough(v1, v2, x2, Q, R, c)}
  OBVIOUS
<1>14. Estimate(un, d) = Q - Min(T)
  <2>1. PICK num1, qhat :
          /\ num1 = un[d + n] * B + un[d + (n - 1)] /\ qhat = num1 \div vn[n - 1]
          /\ Estimate(un, d)
               = qhat - Min({c \in 0 .. B :
                               (num1 % vn[n - 1]) + c * vn[n - 1] >= B
                                 \/ ~(\/ qhat - c >= B
                                      \/ (qhat - c) * vn[n - 2]
                                            > ((num1 % vn[n - 1]) + c * vn[n - 1]) * B + un[d + (n - 2)])})
    BY EstimateIs, Zenon
  <2>3. num1 = num
    BY <1>6, <1>8, <2>1
  <2>4. qhat = Q /\ num1 % vn[n - 1] = R
    BY <1>6, <1>11, <2>1, <2>3
  <2>5. Estimate(un, d)
          = Q - Min({c \in 0 .. B :
                          R + c * v1 >= B \/ ~(Q - c >= B \/ (Q - c) * v2 > (R + c * v1) * B + x2)})
    BY <1>6, <2>1, <2>4, Zenon
  <2>6. T = {c \in 0 .. B :
                R + c * v1 >= B \/ ~(Q - c >= B \/ (Q - c) * v2 > (R + c * v1) * B + x2)}
    BY <1>13, Zenon DEF Enough
  <2> QED BY <2>5, <2>6, Zenon
<1>15. T \in SUBSET Nat
  BY <1>1, <1>13
<1>16. T # {}
  <2>1. 2 \in 0 .. B
    BY <1>1
  <2>2. R + 2 * v1 >= B
    <3>1. R \in Int /\ 0 <= R
      BY <1>12
    <3> QED BY <1>1, <1>7, <1>9, <3>1
  <2>3. Enough(v1, v2, x2, Q, R, 2)
    BY <2>2 DEF Enough
  <2> QED BY <1>13, <2>1, <2>3
<1>17. PICK c : c = Min(T)
  OBVIOUS
<1>18. c \in T /\ \A e \in T : c <= e
  BY <1>15, <1>16, <1>17, MinFacts
<1>19. c \in 0 .. B /\ Enough(v1, v2, x2, Q, R, c)
  BY <1>13, <1>18
<1>20. c = 0 \/ ~Enough(v1, v2, x2, Q, R, c - 1)
  <2>1. ASSUME c # 0, Enough(v1, v2, x2, Q, R, c - 1) PROVE FALSE
    <3>1. c - 1 \in 0 .. B /\ ~(c <= c - 1)
      BY <1>1, <1>19, <2>1
    <3>2. c - 1 \in T
      BY <1>13, <2>1, <3>1
    <3> QED BY <1>18, <3>1, <3>2
  <2> QED BY <2>1
<1>21. c \in Int
  BY <1>1, <1>19
<1>22. Estimating(p, v1, v2, x2, num, Vl, Xl, V, X, Q, R, c)
  BY <1>5, <1>7, <1>9, <1>10, <1>12, <1>21 DEF Estimating
<1>23. X < ((Q - c) + 1) * V
  BY <1>20, <1>22, EstimateHighEnough
<1>24. ((Q - c) - 1) * V <= X
  BY <1>19, <1>22, EstimateLowEnough
<1> QED BY <1>6, <1>12, <1>14, <1>17, <1>21, <1>23, <1>24

----------------------------------------------------------------------------
(* A digit and the rest that is left after it.                             *)

\* Limbs z that are those of x but in the window from d on.
Around(z, x, d) ==
  /\ z \in [0 .. MaxLimbs -> 0 .. (B - 1)]
  /\ \A i \in 0 .. MaxLimbs : i \notin d .. (d + n) => z[i] = x[i]

\* Subtract leaves limbs, those beyond the window alone.
LEMMA SubtractType ==
  ASSUME NEW d, NEW x, Stepping(d, x), NEW qhat \in Int
  PROVE  Around(Subtract(x, d, qhat).limbs, x, d)
<1> USE DEF Stepping, Around
<1>1. B \in Nat /\ B >= 2 /\ MaxLimbs \in Nat
  BY BaseFacts, TwosSteps
<1>2. \A i \in 0 .. n : x[i + d] \in Int
  <2> TAKE i \in 0 .. n
  <2>1. i + d \in 0 .. MaxLimbs
    BY <1>1
  <2>2. x[i + d] \in 0 .. (B - 1)
    BY <2>1
  <2> QED BY <1>1, <2>2
<1>3. \E t : IsSubtract(t, x, d, qhat)
  BY <1>2, SubtractIs
<1>4. PICK t \in [0 .. n -> Int] : IsSubtract(t, x, d, qhat)
  BY <1>3 DEF IsSubtract
<1>5. PICK z : z = Subtract(x, d, qhat).limbs
  OBVIOUS
<1>6. z = [i \in 0 .. MaxLimbs |-> IF i \in d .. (d + n) THEN t[i - d] % B ELSE x[i]]
  <2>1. DOMAIN x = 0 .. MaxLimbs
    OBVIOUS
  <2> QED BY <1>4, <1>5, <2>1, Zenon DEF IsSubtract
<1>7. \A i \in 0 .. MaxLimbs : z[i] \in 0 .. (B - 1)
  <2> TAKE i \in 0 .. MaxLimbs
  <2>1. CASE i \in d .. (d + n)
    <3>1. PICK a : a = t[i - d]
      OBVIOUS
    <3>2. i - d \in 0 .. n
      BY <2>1
    <3>3. a \in Int
      BY <3>1, <3>2
    <3>4. a % B \in 0 .. (B - 1)
      BY <1>1, <3>3
    <3> QED BY <1>6, <2>1, <3>1, <3>4
  <2>2. CASE i \notin d .. (d + n)
    BY <1>6, <2>2
  <2> QED BY <2>1, <2>2
<1> QED BY <1>5, <1>6, <1>7

\* So does AddBack.
LEMMA AddBackType ==
  ASSUME NEW d, NEW x, Stepping(d, x)
  PROVE  Around(AddBack(x, d), x, d)
<1> USE DEF Stepping, Around
<1>1. B \in Nat /\ B >= 2 /\ MaxLimbs \in Nat
  BY BaseFacts, TwosSteps
<1>2. \A i \in 0 .. MaxLimbs : x[i] \in Int
  <2> TAKE i \in 0 .. MaxLimbs
  <2>1. x[i] \in 0 .. (B - 1)
    OBVIOUS
  <2> QED BY <1>1, <2>1
<1>3. \A i \in 0 .. n : x[i + d] \in Int
  <2> TAKE i \in 0 .. n
  <2>1. i + d \in 0 .. MaxLimbs
    BY <1>1
  <2> QED BY <1>2, <2>1
<1>4. \E t : IsAddBack(t, x, d)
  BY <1>3, AddBackIs
<1>5. PICK t \in [0 .. n -> Int] : IsAddBack(t, x, d)
  BY <1>4 DEF IsAddBack
<1>6. PICK z : z = AddBack(x, d)
  OBVIOUS
<1>7. z = [i \in 0 .. MaxLimbs |->
             IF i \in d .. (d + n)
             THEN ((x[i] + (IF (i - d) < n THEN vn[i - d] ELSE 0)) + t[i - d]) % B ELSE x[i]]
  <2>1. DOMAIN x = 0 .. MaxLimbs
    OBVIOUS
  <2> QED BY <1>5, <1>6, <2>1, Zenon DEF IsAddBack
<1>8. \A i \in 0 .. MaxLimbs : z[i] \in 0 .. (B - 1)
  <2> TAKE i \in 0 .. MaxLimbs
  <2>1. CASE i \in d .. (d + n)
    <3>1. PICK a, b : b = (IF (i - d) < n THEN vn[i - d] ELSE 0) /\ a = (x[i] + b) + t[i - d]
      OBVIOUS
    <3>2. i - d \in 0 .. n
      BY <2>1
    <3>3. b \in Int /\ t[i - d] \in Int
      BY <3>1, <3>2
    <3>4. a \in Int
      BY <1>2, <3>1, <3>3
    <3>5. a % B \in 0 .. (B - 1)
      BY <1>1, <3>4
    <3> QED BY <1>7, <2>1, <3>1, <3>5
  <2>2. CASE i \notin d .. (d + n)
    BY <1>7, <2>2
  <2> QED BY <2>1, <2>2
<1> QED BY <1>6, <1>7, <1>8

\* What Subtract leaves when it does not borrow from beyond the window, and
\* what AddBack makes of it when it does.
LEMMA KeptValue ==
  ASSUME NEW X \in Nat, NEW V \in Nat, NEW qhat \in Int, NEW P \in Nat, NEW e \in Int, NEW W \in Nat,
         W = (X - qhat * V) - P * e, W < P, X < P, X < V * B, X < (qhat + 1) * V, ~(e < 0)
  PROVE  qhat \in 0 .. (B - 1) /\ W = X - qhat * V /\ W < V
<1>1. B \in Nat /\ B >= 2
  BY BaseFacts
<1>2. PICK b, a : b = B /\ a = V * qhat
  OBVIOUS
<1>3. b \in Nat /\ a \in Int /\ qhat * V = a /\ (qhat + 1) * V = a + V /\ X < V * b
  BY <1>1, <1>2
<1>4. qhat >= 0
  <2>1. qhat + 1 <= 0 => V * (qhat + 1) <= V * 0
    BY ProductLeq
  <2>2. V * (qhat + 1) = a + V /\ V * 0 = 0
    BY <1>2
  <2> QED BY <1>3, <2>1, <2>2
<1>5. a >= 0
  <2>1. V * qhat \in Nat
    BY <1>4, ProductNat
  <2> QED BY <1>2, <2>1
<1>6. e = 0
  <2>1. e >= 1 => P * 1 <= P * e
    BY ProductLeq
  <2>2. P * 1 = P /\ P * e \in Int
    BY ProductInt
  <2>3. PICK f : f = P * e
    OBVIOUS
  <2>4. f \in Int /\ (e >= 1 => P <= f) /\ W = (X - a) - f
    BY <1>3, <2>1, <2>2, <2>3
  <2> QED BY <1>3, <1>5, <2>4
<1>7. W = X - a
  <2>1. P * e = 0
    BY <1>6
  <2> QED BY <1>3, <2>1
<1>8. V * qhat < V * b
  BY <1>2, <1>3, <1>7
<1>9. qhat < b
  BY <1>3, <1>8, LessFromProduct
<1> QED BY <1>1, <1>2, <1>3, <1>4, <1>7, <1>9

\* With the divisor added back the digit is one less.
LEMMA CorrectedValue ==
  ASSUME NEW X \in Nat, NEW V \in Nat, NEW qhat \in Int, NEW P \in Nat, V < P,
         NEW e \in Int, NEW W \in Nat, W = (X - qhat * V) - P * e, W < P, X < V * B,
         (qhat - 1) * V <= X, e < 0,
         NEW f \in Int, NEW Z \in Nat, Z = (W + V) - P * f, Z < P
  PROVE  qhat - 1 \in 0 .. (B - 1) /\ Z = X - (qhat - 1) * V /\ Z < V
<1>1. B \in Nat /\ B >= 2
  BY BaseFacts
<1>2. PICK b, a, pe, pf : b = B /\ a = V * qhat /\ pe = P * e /\ pf = P * f
  OBVIOUS
<1>3. /\ b \in Nat /\ a \in Int /\ qhat * V = a /\ (qhat - 1) * V = a - V /\ X < V * b
      /\ pe \in Int /\ pf \in Int
  BY <1>1, <1>2
<1>4. pe <= -P /\ (e <= -2 => pe <= -(2 * P))
  <2>1. P * e <= P * (-1)
    BY ProductLeq
  <2>2. e <= -2 => P * e <= P * (-2)
    BY ProductLeq
  <2> QED BY <1>2, <1>3, <2>1, <2>2
<1>5. W = (X - a) - pe /\ Z = (W + V) - pf /\ a - V <= X
  BY <1>2, <1>3
<1>6. X < a
  BY <1>3, <1>4, <1>5
<1>7. e = -1
  BY <1>3, <1>4, <1>5
<1>8. W = (X - a) + P
  <2>1. pe = -P
    BY <1>2, <1>7
  <2> QED BY <1>3, <1>5, <2>1
<1>9. (f <= 0 => pf <= 0) /\ (f >= 2 => pf >= 2 * P)
  <2>1. f <= 0 => P * f <= P * 0
    BY ProductLeq
  <2>2. f >= 2 => P * 2 <= P * f
    BY ProductLeq
  <2> QED BY <1>2, <1>3, <2>1, <2>2
<1>10. f = 1
  BY <1>3, <1>5, <1>6, <1>8, <1>9
<1>11. Z = X - (a - V)
  <2>1. pf = P
    BY <1>2, <1>10
  <2> QED BY <1>3, <1>5, <1>8, <2>1
<1>12. qhat > 0
  <2>1. qhat <= 0 => V * qhat <= V * 0
    BY ProductLeq
  <2> QED BY <1>2, <1>3, <1>6, <2>1
<1>13. V * (qhat - 1) < V * b
  <2>1. V * (qhat - 1) = a - V
    BY <1>2
  <2>2. V * b \in Int
    BY <1>3, ProductInt
  <2> QED BY <1>3, <1>5, <2>1, <2>2
<1>14. qhat - 1 < b
  BY <1>3, <1>13, LessFromProduct
<1> QED BY <1>1, <1>2, <1>3, <1>6, <1>11, <1>12, <1>14

\* The limbs z hold what is left of the rest when the digit q1 at d is taken out.
Found(z, q1, y, d) ==
  /\ Around(z, un, d)
  /\ q1 \in 0 .. (B - 1)
  /\ \E w : /\ Window(w, z, d)
            /\ Number(w, n + 1) = Number(y, n + 1) - q1 * Number(vn, n)
            /\ Number(w, n + 1) \in Nat /\ Number(w, n + 1) < Number(vn, n)

\* The numbers of a window and of the divisor.
LEMMA WindowBounds ==
  ASSUME NEW d, NEW y, Ready(y, d), NEW z \in [0 .. MaxLimbs -> 0 .. (B - 1)],
         NEW w, Window(w, z, d)
  PROVE  /\ Number(w, n + 1) \in Nat /\ Number(w, n + 1) < Place[n + 1]
         /\ Number(vn, n) \in Nat /\ Number(vn, n) < Place[n + 1]
         /\ Place[n + 1] \in Nat
<1>1. /\ B \in Nat /\ B >= 2 /\ MaxLimbs \in Nat
      /\ n \in Nat /\ d \in Nat /\ d + n <= MaxLimbs
  BY BaseFacts, TwosSteps DEF Ready
<1>2. PICK K, L : K = n /\ L = n + 1
  OBVIOUS
<1>3. /\ K \in 0 .. (MaxLimbs + 1) /\ L \in 0 .. (MaxLimbs + 1) /\ 0 .. (L - 1) = 0 .. n /\ L \in 0 .. L
      /\ K \in 0 .. K /\ K \in 0 .. MaxLimbs
  BY <1>1, <1>2
<1>4. \A i \in 0 .. (L - 1) : w[i] \in 0 .. (B - 1)
  <2> TAKE i \in 0 .. (L - 1)
  <2>1. i \in 0 .. n
    BY <1>3
  <2>2. d + i \in 0 .. MaxLimbs /\ w[i] = z[d + i]
    BY <1>1, <2>1 DEF Window
  <2>3. z[d + i] \in 0 .. (B - 1)
    BY <2>2
  <2> QED BY <2>2, <2>3
<1>5. Number(w, L) \in Nat /\ Number(w, L) < Place[L]
  BY <1>3, <1>4, NumberBound
<1>6. PICK x : x = vn
  OBVIOUS
<1>7. \A i \in 0 .. (K - 1) : x[i] \in 0 .. (B - 1)
  BY <1>2, <1>6 DEF Ready
<1>8. Number(x, K) \in Nat /\ Number(x, K) < Place[K]
  BY <1>3, <1>7, NumberBound
<1>9. PICK p : p = Place[K]
  OBVIOUS
<1>10. p \in Nat /\ Place[L] = B * p /\ Place[L] \in Nat
  <2>1. K \in 0 .. (MaxLimbs + 1)
    BY <1>3
  <2>2. Place[K] \in Nat /\ Place[L] \in Nat
    BY <1>3, <2>1, PlaceSteps
  <2>3. Place[K + 1] = B * Place[K]
    BY <1>3, PlaceSteps
  <2> QED BY <1>2, <1>9, <2>2, <2>3
<1>11. p * 1 <= p * B /\ p * 1 = p /\ p * B = B * p
  BY <1>1, <1>10, ProductLeq, Commutes
<1>12. Number(x, K) < Place[L]
  BY <1>8, <1>9, <1>10, <1>11
<1> QED BY <1>2, <1>5, <1>6, <1>8, <1>10, <1>12

\* A digit that was not too large is found by the subtraction.
LEMMA KeptDigit ==
  ASSUME NEW d, NEW y, Ready(y, d), ~Subtract(un, d, Estimate(un, d)).negative
  PROVE  Found(Subtract(un, d, Estimate(un, d)).limbs, Estimate(un, d), y, d)
<1>1. PICK qhat : qhat = Estimate(un, d)
  OBVIOUS
<1>2. PICK z, x : z = Subtract(un, d, qhat).limbs /\ x = un
  OBVIOUS
<1>3. /\ n \in Nat /\ d \in Nat /\ d + n <= MaxLimbs /\ x \in [0 .. MaxLimbs -> 0 .. (B - 1)]
      /\ qhat \in Int /\ B \in Nat /\ B >= 2
  BY <1>1, <1>2, BaseFacts, EstimateBounds DEF Ready
<1>4. Stepping(d, x)
  <2>1. \A i \in 0 .. (n - 1) : vn[i] \in Int
    BY <1>3 DEF Ready
  <2> QED BY <1>3, <2>1 DEF Stepping
<1>5. Around(z, x, d)
  BY <1>2, <1>3, <1>4, SubtractType
<1>6. PICK w : w = [i \in 0 .. n |-> z[d + i]]
  OBVIOUS
<1>7. Window(w, z, d)
  BY <1>6 DEF Window
<1>8. Window(y, x, d)
  BY <1>2 DEF Ready, Window
<1>9. PICK X, V, P, W : X = Number(y, n + 1) /\ V = Number(vn, n) /\ P = Place[n + 1] /\ W = Number(w, n + 1)
  OBVIOUS
<1>10. X \in Nat /\ X < P /\ V \in Nat /\ V < P /\ P \in Nat
  BY <1>3, <1>8, <1>9, WindowBounds
<1>11. W \in Nat /\ W < P
  BY <1>5, <1>7, <1>9, WindowBounds DEF Around
<1>12. X < V * B /\ X < (qhat + 1) * V
  BY <1>1, <1>9, EstimateBounds DEF Ready
<1>13. Window(w, Subtract(x, d, qhat).limbs, d)
  BY <1>2, <1>7
<1>30. PICK e \in Int : Less(e, w, y, x, d, qhat)
  BY <1>3, <1>4, <1>8, <1>13, SubtractValue
<1>14. W = (X - qhat * V) - P * e /\ (Subtract(x, d, qhat).negative <=> e < 0)
  BY <1>9, <1>30, Zenon DEF Less
<1>15. ~(e < 0)
  BY <1>1, <1>2, <1>14
<1>16. qhat \in 0 .. (B - 1) /\ W = X - qhat * V /\ W < V
  BY <1>3, <1>10, <1>11, <1>12, <1>14, <1>15, KeptValue
<1>17. Found(z, qhat, y, d)
  BY <1>2, <1>5, <1>7, <1>9, <1>11, <1>16 DEF Found
<1> QED BY <1>1, <1>2, <1>17

\* One that was too large is found when the divisor is added back.
LEMMA CorrectedDigit ==
  ASSUME NEW d, NEW y, Ready(y, d), Subtract(un, d, Estimate(un, d)).negative
  PROVE  Found(AddBack(Subtract(un, d, Estimate(un, d)).limbs, d), Estimate(un, d) - 1, y, d)
<1>1. PICK qhat : qhat = Estimate(un, d)
  OBVIOUS
<1>2. PICK z0, x : z0 = Subtract(un, d, qhat).limbs /\ x = un
  OBVIOUS
<1>3. /\ n \in Nat /\ d \in Nat /\ d + n <= MaxLimbs /\ x \in [0 .. MaxLimbs -> 0 .. (B - 1)]
      /\ qhat \in Int /\ B \in Nat /\ B >= 2
  BY <1>1, <1>2, BaseFacts, EstimateBounds DEF Ready
<1>4. Stepping(d, x)
  <2>1. \A i \in 0 .. (n - 1) : vn[i] \in Int
    BY <1>3 DEF Ready
  <2> QED BY <1>3, <2>1 DEF Stepping
<1>5. Around(z0, x, d)
  BY <1>2, <1>3, <1>4, SubtractType
<1>6. PICK w : w = [i \in 0 .. n |-> z0[d + i]]
  OBVIOUS
<1>7. Window(w, z0, d)
  BY <1>6 DEF Window
<1>8. Window(y, x, d)
  BY <1>2 DEF Ready, Window
<1>9. PICK X, V, P, W : X = Number(y, n + 1) /\ V = Number(vn, n) /\ P = Place[n + 1] /\ W = Number(w, n + 1)
  OBVIOUS
<1>10. X \in Nat /\ X < P /\ V \in Nat /\ V < P /\ P \in Nat
  BY <1>3, <1>8, <1>9, WindowBounds
<1>11. W \in Nat /\ W < P
  BY <1>5, <1>7, <1>9, WindowBounds DEF Around
<1>12. X < V * B /\ (qhat - 1) * V <= X
  BY <1>1, <1>9, EstimateBounds DEF Ready
<1>13. Window(w, Subtract(x, d, qhat).limbs, d)
  BY <1>2, <1>7
<1>30. PICK e \in Int : Less(e, w, y, x, d, qhat)
  BY <1>3, <1>4, <1>8, <1>13, SubtractValue
<1>14. W = (X - qhat * V) - P * e /\ (Subtract(x, d, qhat).negative <=> e < 0)
  BY <1>9, <1>30, Zenon DEF Less
<1>15. e < 0
  BY <1>1, <1>2, <1>14
<1>16. PICK z : z = AddBack(z0, d)
  OBVIOUS
<1>17. Stepping(d, z0) /\ Around(z, z0, d)
  <2>1. Stepping(d, z0)
    BY <1>4, <1>5 DEF Stepping, Around
  <2> QED BY <1>16, <2>1, AddBackType
<1>18. PICK w2 : w2 = [i \in 0 .. n |-> z[d + i]]
  OBVIOUS
<1>19. Window(w2, z, d)
  BY <1>18 DEF Window
<1>20. PICK Z : Z = Number(w2, n + 1)
  OBVIOUS
<1>21. Z \in Nat /\ Z < P
  BY <1>9, <1>17, <1>19, <1>20, WindowBounds DEF Around
<1>22. Window(w2, AddBack(z0, d), d)
  BY <1>16, <1>19
<1>23. PICK f \in Int : Z = (W + V) - P * f
  BY <1>7, <1>9, <1>17, <1>20, <1>22, AddBackValue
<1>24. qhat - 1 \in 0 .. (B - 1) /\ Z = X - (qhat - 1) * V /\ Z < V
  BY <1>3, <1>10, <1>11, <1>12, <1>14, <1>15, <1>21, <1>23, CorrectedValue
<1>25. Found(z, qhat - 1, y, d)
  <2>1. Around(z, un, d)
    BY <1>2, <1>5, <1>17 DEF Around
  <2> QED BY <1>9, <1>19, <1>20, <1>21, <1>24, <2>1 DEF Found
<1> QED BY <1>1, <1>2, <1>16, <1>25

----------------------------------------------------------------------------
(* Normalise and Denormalise.                                              *)

\* A limb moved by a power of two C, where D is what C leaves of the base.
LEMMA ShiftedLimb ==
  ASSUME NEW C \in Nat, NEW D \in Nat, C > 0, D > 0, C * D = B, NEW x \in 0 .. (B - 1)
  PROVE  /\ (x * C) % B = C * x - B * (x \div D)
         /\ (x * C) % B \in 0 .. (B - C)
         /\ x \div D \in 0 .. (C - 1)
<1>1. B \in Nat /\ B >= 2 /\ x \in Nat /\ x < B
  BY BaseFacts
<1>2. PICK a, e, b : a = x \div D /\ e = x % D /\ b = B
  OBVIOUS
<1>3. x = (D * a) + e /\ a \in Int /\ e \in Int /\ 0 <= e /\ e < D /\ b \in Nat /\ b > 0 /\ C * D = b /\ x < b
  BY <1>1, <1>2, DivMod
<1>4. a >= 0
  <2>1. a <= -1 => D * a <= D * (-1)
    BY <1>3, ProductLeq
  <2>2. D * (-1) = -D /\ D * a \in Int
    BY <1>3, ProductInt
  <2> QED BY <1>1, <1>3, <2>1, <2>2
<1>5. a < C
  <2>1. D * a < D * C
    <3>1. D * C = b
      BY <1>3
    <3> QED BY <1>1, <1>3, <3>1
  <2> QED BY <1>3, <2>1, LessFromProduct
<1>6. x * C = b * a + C * e
  <2>1. x * C = (D * a) * C + e * C
    BY <1>3
  <2>2. (D * a) * C = (C * D) * a /\ e * C = C * e
    BY <1>3
  <2> QED BY <1>3, <2>1, <2>2
<1>7. C * e \in Nat /\ C * e <= b - C
  <2>1. C * e \in Nat
    BY <1>3, ProductNat
  <2>2. C * e <= C * (D - 1)
    BY <1>3, ProductLeq
  <2>3. C * (D - 1) = b - C
    BY <1>3
  <2> QED BY <2>1, <2>2, <2>3
<1>8. (x * C) % b = C * e
  <2>1. PICK f, g : f = x * C /\ g = C * e
    OBVIOUS
  <2>2. f \in Int /\ g \in Int /\ f = b * a + g /\ 0 <= g /\ g < b
    BY <1>1, <1>3, <1>6, <1>7, <2>1, ProductInt
  <2>3. f % b = g
    BY <1>3, <2>2, DivUnique
  <2> QED BY <2>1, <2>3
<1>9. C * e = C * x - b * a
  <2>1. C * x = x * C /\ b * a \in Int
    BY <1>1, <1>3
  <2> QED BY <1>6, <1>7, <2>1
<1> QED BY <1>2, <1>3, <1>4, <1>5, <1>7, <1>8, <1>9

\* The powers of two of a shift.
LEMMA ShiftFacts ==
  ASSUME NEW sh \in 0 .. (LimbBits - 1)
  PROVE  /\ Twos[sh] \in Nat /\ Twos[sh] > 0 /\ Twos[LimbBits - sh] \in Nat /\ Twos[LimbBits - sh] > 0
         /\ Twos[sh] * Twos[LimbBits - sh] = B /\ 2 * Twos[sh] <= B
<1>1. sh \in 0 .. LimbBits /\ LimbBits - sh \in 0 .. LimbBits
  BY TwosSteps
<1> QED BY <1>1, TwosFacts

\* y has the first limbs of x, moved up by sh bits.
Moved(y, x, sh, K) == \A i \in 0 .. (K - 1) : y[i] = Up(x, i, sh)

\* The limbs that Up makes are limbs.
LEMMA MovedLimbs ==
  ASSUME NEW sh \in 0 .. (LimbBits - 1), NEW K \in 1 .. MaxLimbs,
         NEW x \in [0 .. (MaxLimbs - 1) -> 0 .. (B - 1)], NEW i \in 0 .. (K - 1)
  PROVE  Up(x, i, sh) \in 0 .. (B - 1)
<1>1. B \in Nat /\ B >= 2 /\ MaxLimbs \in Nat
  BY BaseFacts, TwosSteps
<1>2. PICK C, D : C = Twos[sh] /\ D = Twos[LimbBits - sh]
  OBVIOUS
<1>3. C \in Nat /\ C > 0 /\ D \in Nat /\ D > 0 /\ C * D = B
  BY <1>2, ShiftFacts
<1>4. PICK a, b : a = (x[i] * C) % B /\ b = (IF i = 0 THEN 0 ELSE x[i - 1] \div D)
  OBVIOUS
<1>5. a \in 0 .. (B - C)
  <2>1. PICK l : l = x[i]
    OBVIOUS
  <2>2. l \in 0 .. (B - 1)
    BY <1>1, <2>1
  <2> QED BY <1>3, <1>4, <2>1, <2>2, ShiftedLimb
<1>6. b \in 0 .. (C - 1)
  <2>1. CASE i = 0
    BY <1>3, <1>4, <2>1
  <2>2. CASE i # 0
    <3>1. PICK l : l = x[i - 1]
      OBVIOUS
    <3>2. i - 1 \in 0 .. (MaxLimbs - 1)
      BY <1>1, <2>2
    <3>3. l \in 0 .. (B - 1)
      BY <3>1, <3>2
    <3>4. l \div D \in 0 .. (C - 1)
      BY <1>3, <3>3, ShiftedLimb
    <3> QED BY <1>4, <2>2, <3>1, <3>4
  <2> QED BY <2>1, <2>2
<1>7. a + b \in 0 .. (B - 1)
  BY <1>1, <1>3, <1>5, <1>6
<1> QED BY <1>2, <1>4, <1>7 DEF Up

\* The number that they make, but for the bits that leave the highest limb.
LEMMA MovedValue ==
  ASSUME NEW sh \in 0 .. (LimbBits - 1), NEW K \in 1 .. MaxLimbs,
         NEW x \in [0 .. (MaxLimbs - 1) -> 0 .. (B - 1)], NEW y, Moved(y, x, sh, K)
  PROVE  Number(y, K) = Twos[sh] * Number(x, K) - Place[K] * (x[K - 1] \div Twos[LimbBits - sh])
<1>1. B \in Nat /\ B >= 2 /\ MaxLimbs \in Nat
  BY BaseFacts, TwosSteps
<1>2. PICK C, D : C = Twos[sh] /\ D = Twos[LimbBits - sh]
  OBVIOUS
<1>3. C \in Nat /\ C > 0 /\ D \in Nat /\ D > 0 /\ C * D = B
  BY <1>2, ShiftFacts
<1>4. PICK c : c = [i \in 0 .. K |-> IF i = 0 THEN 0 ELSE x[i - 1] \div D]
  OBVIOUS
<1>5. \A i \in 0 .. (K - 1) : x[i] \in 0 .. (B - 1) /\ x[i] \in Int
  <2> TAKE i \in 0 .. (K - 1)
  <2>1. i \in 0 .. (MaxLimbs - 1)
    BY <1>1
  <2>2. x[i] \in 0 .. (B - 1)
    BY <2>1
  <2> QED BY <1>1, <2>2
<1>6. ASSUME NEW i \in 0 .. (K - 1)
      PROVE  /\ c[i] \in Int /\ c[i + 1] = x[i] \div D /\ c[i + 1] \in Int /\ y[i] \in Int
             /\ y[i] = (C * x[i] - B * c[i + 1]) + c[i]
  <2>1. c[i + 1] = x[i] \div D
    <3>1. i + 1 \in 0 .. K /\ i + 1 # 0 /\ (i + 1) - 1 = i
      OBVIOUS
    <3> QED BY <1>4, <3>1
  <2>2. PICK l : l = x[i]
    OBVIOUS
  <2>3. l \in 0 .. (B - 1)
    BY <1>5, <2>2
  <2>4. (l * C) % B = C * l - B * (l \div D) /\ l \div D \in 0 .. (C - 1)
    BY <1>3, <2>3, ShiftedLimb
  <2>5. y[i] = ((x[i] * C) % B) + c[i]
    <3>1. y[i] = Up(x, i, sh)
      BY DEF Moved
    <3>2. c[i] = IF i = 0 THEN 0 ELSE x[i - 1] \div D
      BY <1>4
    <3> QED BY <1>2, <3>1, <3>2 DEF Up
  <2>6. c[i + 1] \in Int
    BY <1>3, <2>1, <2>2, <2>4
  <2>7. c[i] \in Int
    <3>1. CASE i = 0
      BY <1>4, <3>1
    <3>2. CASE i # 0
      <4>1. PICK h : h = x[i - 1]
        OBVIOUS
      <4>2. i - 1 \in 0 .. (K - 1)
        BY <3>2
      <4>3. h \in Int
        BY <1>5, <4>1, <4>2
      <4>4. h \div D \in Int
        BY <1>3, <4>3, DivInt
      <4> QED BY <1>4, <3>2, <4>1, <4>4
    <3> QED BY <3>1, <3>2
  <2>8. y[i] = (C * x[i] - B * c[i + 1]) + c[i]
    BY <2>1, <2>2, <2>4, <2>5
  <2>9. y[i] \in Int
    <3>1. C * l \in Int /\ B * c[i + 1] \in Int
      BY <1>1, <1>3, <2>3, <2>6, ProductInt
    <3> QED BY <2>2, <2>7, <2>8, <3>1
  <2> QED BY <2>1, <2>6, <2>7, <2>8, <2>9
<1>7. PICK g : g = [i \in 0 .. K |-> C * Number(x, i) - Place[i] * c[i]]
  OBVIOUS
<1>8. K \in 0 .. (MaxLimbs + 1) /\ K \in Nat /\ K >= 1
  BY <1>1
<1>9. /\ Number(x, 0) = 0 /\ \A i \in 0 .. K : Number(x, i) \in Int
      /\ \A i \in 0 .. (K - 1) : Number(x, i + 1) = Number(x, i) + x[i] * Place[i]
  BY <1>5, <1>8, NumberSteps
<1>10. g[0] = 0
  <2>1. 0 \in 0 .. K /\ c[0] = 0 /\ Place[0] = 1
    BY <1>4, <1>8, PlaceSteps
  <2>2. g[0] = C * 0 - 1 * 0
    BY <1>7, <1>9, <2>1
  <2> QED BY <1>3, <2>2
<1>11. ASSUME NEW i \in 0 .. (K - 1) PROVE g[i + 1] = g[i] + y[i] * Place[i]
  <2>1. i \in 0 .. K /\ i + 1 \in 0 .. K /\ i \in 0 .. MaxLimbs /\ i \in 0 .. (MaxLimbs + 1)
    BY <1>1
  <2>2. PICK N0, l, p, c0, c2 : N0 = Number(x, i) /\ l = x[i] /\ p = Place[i] /\ c0 = c[i] /\ c2 = c[i + 1]
    OBVIOUS
  <2>3. N0 \in Int /\ l \in Int /\ p \in Int /\ c0 \in Int /\ c2 \in Int
    BY <1>5, <1>6, <1>9, <2>1, <2>2, PlaceSteps
  <2>4. Number(x, i + 1) = N0 + l * p /\ Place[i + 1] = B * p
    BY <1>9, <2>1, <2>2, PlaceSteps
  <2>5. g[i + 1] = C * (N0 + l * p) - (B * p) * c2 /\ g[i] = C * N0 - p * c0
    BY <1>7, <2>1, <2>2, <2>4
  <2>6. y[i] = (C * l - B * c2) + c0
    BY <1>6, <2>2
  <2>7. C * (N0 + l * p) - (B * p) * c2 = (C * N0 - p * c0) + ((C * l - B * c2) + c0) * p
    BY <1>1, <1>3, <2>3
  <2> QED BY <2>2, <2>5, <2>6, <2>7
<1>12. \A i \in 0 .. (K - 1) : y[i] \in Int
  BY <1>6
<1>13. Number(y, K) = g[K]
  <2>1. \A i \in 0 .. K : Number(y, i) = g[i]
    BY <1>8, <1>10, <1>11, <1>12, SumsTo
  <2> QED BY <1>8, <2>1
<1>14. g[K] = C * Number(x, K) - Place[K] * (x[K - 1] \div D)
  <2>1. K \in 0 .. K /\ K # 0
    BY <1>8
  <2> QED BY <1>4, <1>7, <2>1
<1> QED BY <1>2, <1>13, <1>14

----------------------------------------------------------------------------
(* The operands.                                                           *)

\* Max of naturals up to a bound is the greatest of them.
LEMMA MaxFacts ==
  ASSUME NEW N \in Nat, NEW T \in SUBSET (0 .. N), T # {}
  PROVE  Max(T) \in T /\ \A e \in T : e <= Max(T)
<1>1. PICK S : S = {a \in Nat : \E t \in T : a = N - t}
  OBVIOUS
<1>2. \A t \in T : N - t \in S
  BY <1>1
<1>3. S \in SUBSET Nat /\ S # {}
  BY <1>1, <1>2
<1>4. PICK a \in S : \A b \in S : a <= b
  BY <1>3, LeastNat
<1>5. PICK t \in T : a = N - t
  BY <1>1, <1>4
<1>6. \A e \in T : t >= e
  BY <1>2, <1>4, <1>5
<1>7. \E x \in T : \A e \in T : x >= e
  BY <1>6
<1>8. Max(T) \in T /\ \A e \in T : Max(T) >= e
  BY <1>7 DEF Max
<1> QED BY <1>8

\* Trim counts the limbs up to the highest that is not zero.
LEMMA TrimFacts ==
  ASSUME NEW x \in Limbs(MaxLimbs)
  PROVE  /\ Trim(x) \in 0 .. MaxLimbs
         /\ \A i \in 0 .. (MaxLimbs - 1) : i >= Trim(x) => x[i] = 0
         /\ Trim(x) > 0 => x[Trim(x) - 1] > 0
         /\ x # Zero(MaxLimbs) => Trim(x) > 0
<1>1. B \in Nat /\ B >= 2 /\ MaxLimbs \in Nat
  BY BaseFacts, TwosSteps
<1>2. x \in [0 .. (MaxLimbs - 1) -> 0 .. (B - 1)]
  BY DEF Limbs
<1>3. PICK T : T = {0} \cup {i + 1 : i \in {k \in DOMAIN x : x[k] # 0}}
  OBVIOUS
<1>4. Trim(x) = Max(T)
  BY <1>3 DEF Trim
<1>5. DOMAIN x = 0 .. (MaxLimbs - 1)
  BY <1>2
<1>6. T \in SUBSET (0 .. MaxLimbs) /\ T # {}
  BY <1>1, <1>3, <1>5
<1>7. PICK t : t = Max(T)
  OBVIOUS
<1>8. t \in T /\ \A e \in T : e <= t
  BY <1>1, <1>6, <1>7, MaxFacts
<1>9. t \in 0 .. MaxLimbs
  BY <1>6, <1>8
<1>10. ASSUME NEW i \in 0 .. (MaxLimbs - 1), i >= t PROVE x[i] = 0
  <2>1. x[i] # 0 => i + 1 \in T
    BY <1>3, <1>5
  <2>2. ~(i + 1 <= t)
    BY <1>9, <1>10
  <2> QED BY <1>8, <2>1, <2>2
<1>11. ASSUME t > 0 PROVE x[t - 1] > 0
  <2>1. PICK i \in 0 .. (MaxLimbs - 1) : x[i] # 0 /\ t = i + 1
    BY <1>3, <1>5, <1>8, <1>9, <1>11
  <2>2. t - 1 = i /\ x[i] \in 0 .. (B - 1)
    BY <1>2, <2>1
  <2>3. x[i] > 0
    BY <1>1, <2>1, <2>2
  <2> QED BY <2>2, <2>3
<1>12. ASSUME ~(t > 0) PROVE x = Zero(MaxLimbs)
  <2>1. \A i \in 0 .. (MaxLimbs - 1) : i >= t
    BY <1>9, <1>12
  <2>2. \A i \in 0 .. (MaxLimbs - 1) : x[i] = 0
    BY <1>10, <2>1
  <2> QED BY <1>2, <2>2 DEF Zero
<1> QED BY <1>4, <1>7, <1>9, <1>10, <1>11, <1>12

\* The value of a number by its limbs without the leading zeros.
LEMMA TrimmedValue ==
  ASSUME NEW x \in Limbs(MaxLimbs)
  PROVE  /\ Number(x, MaxLimbs) = Number(x, Trim(x)) /\ Number(x, MaxLimbs) \in Nat
         /\ Number(x, MaxLimbs) < Place[Trim(x)]
         /\ Trim(x) > 0 => Number(x, MaxLimbs) >= Place[Trim(x) - 1]
<1>1. B \in Nat /\ B >= 2 /\ MaxLimbs \in Nat
  BY BaseFacts, TwosSteps
<1>2. x \in [0 .. (MaxLimbs - 1) -> 0 .. (B - 1)]
  BY DEF Limbs
<1>3. PICK K, t : K = MaxLimbs /\ t = Trim(x)
  OBVIOUS
<1>4. /\ t \in 0 .. K /\ K \in 0 .. (MaxLimbs + 1) /\ K \in Nat
      /\ (\A i \in 0 .. (K - 1) : i >= t => x[i] = 0) /\ (t > 0 => x[t - 1] > 0)
  BY <1>1, <1>3, TrimFacts
<1>5. \A i \in 0 .. (K - 1) : x[i] \in 0 .. (B - 1) /\ x[i] \in Int
  BY <1>1, <1>2, <1>3
<1>6. Number(x, K) = Number(x, t)
  <2>1. \A i \in 0 .. K : i >= t => Number(x, i) = Number(x, t)
    BY <1>4, <1>5, HighZero
  <2> QED BY <1>4, <2>1
<1>7. \A i \in 0 .. K : Number(x, i) \in Nat /\ Number(x, i) < Place[i]
  BY <1>4, <1>5, NumberBound
<1>8. ASSUME t > 0 PROVE Number(x, t) >= Place[t - 1]
  <2>1. t - 1 \in 0 .. (K - 1) /\ t - 1 \in 0 .. K /\ (t - 1) + 1 = t /\ t - 1 \in 0 .. (MaxLimbs + 1)
    <3>1. t \in Nat /\ t <= K /\ t >= 1
      BY <1>4, <1>8
    <3> QED BY <1>1, <1>3, <3>1
  <2>2. PICK a, l, p : a = Number(x, t - 1) /\ l = x[t - 1] /\ p = Place[t - 1]
    OBVIOUS
  <2>3. a \in Nat /\ p \in Nat
    BY <1>7, <2>1, <2>2, PlaceSteps
  <2>4. l \in Int /\ l >= 1
    BY <1>4, <1>5, <1>8, <2>1, <2>2
  <2>5. Number(x, t) = a + l * p
    <3>1. \A i \in 0 .. (K - 1) : Number(x, i + 1) = Number(x, i) + x[i] * Place[i]
      BY <1>4, <1>5, NumberSteps
    <3> QED BY <2>1, <2>2, <3>1
  <2>6. p * 1 <= p * l /\ p * 1 = p /\ p * l = l * p /\ l * p \in Int
    BY <2>3, <2>4, ProductLeq, Commutes
  <2>7. Number(x, t) >= p
    BY <2>3, <2>5, <2>6
  <2> QED BY <2>2, <2>7
<1> QED BY <1>3, <1>4, <1>6, <1>7, <1>8

\* Limbs that are zero make up zero.
LEMMA ZeroValue ==
  ASSUME NEW K \in 0 .. (MaxLimbs + 1)
  PROVE  Number(Zero(K), K) = 0
<1>1. PICK x : x = Zero(K)
  OBVIOUS
<1>2. K \in Nat /\ 0 \in 0 .. K /\ K \in 0 .. K
  BY TwosSteps
<1>3. \A i \in 0 .. (K - 1) : x[i] = 0
  BY <1>1 DEF Zero
<1>4. \A i \in 0 .. (K - 1) : x[i] \in Int /\ (i >= 0 => x[i] = 0)
  BY <1>3
<1>5. \A i \in 0 .. K : i >= 0 => Number(x, i) = Number(x, 0)
  BY <1>2, <1>4, HighZero
<1>6. Number(x, 0) = 0
  BY <1>4, NumberSteps
<1> QED BY <1>1, <1>2, <1>5, <1>6

----------------------------------------------------------------------------
(* The inductive invariant.                                                *)

\* What a division starts with, which no step changes.
Operands ==
  /\ u \in Limbs(MaxLimbs) /\ v \in Limbs(MaxLimbs)
  /\ m = Trim(u) /\ n = Trim(v) /\ n > 0

\* The digits above j are found; un holds no more than can still be divided, and
\* the shifted divisor fills its highest limb.
Dividing ==
  /\ n >= 2 /\ m >= n /\ s \in 0 .. (LimbBits - 1) /\ j \in -1 .. (m - n)
  /\ un \in [0 .. MaxLimbs -> 0 .. (B - 1)]
  /\ vn \in [0 .. (MaxLimbs - 1) -> 0 .. (B - 1)]
  /\ q \in [0 .. (MaxLimbs - 1) -> 0 .. (B - 1)]
  /\ r = Zero(MaxLimbs)
  /\ \A i \in 0 .. MaxLimbs : i > j + n => un[i] = 0
  /\ \A i \in 0 .. (MaxLimbs - 1) : i <= j => q[i] = 0
  /\ \A i \in 0 .. (MaxLimbs - 1) : i >= n => vn[i] = 0
  /\ 2 * vn[n - 1] >= B
  /\ Number(vn, MaxLimbs) = Number(v, MaxLimbs) * Twos[s]
  /\ Number(u, MaxLimbs) * Twos[s]
       = Number(q, MaxLimbs) * Number(vn, MaxLimbs) + Number(un, MaxLimbs + 1)
  /\ Number(un, MaxLimbs + 1) < Number(vn, MaxLimbs) * Place[j + 1]

\* The answer.
Divided ==
  /\ Number(q, MaxLimbs) = Number(u, MaxLimbs) \div Number(v, MaxLimbs)
  /\ Number(r, MaxLimbs) = Number(u, MaxLimbs) % Number(v, MaxLimbs)

\* The steps keep this.
DivInv ==
  /\ Operands
  /\ pc \in {"start", "digits", "done"}
  /\ pc = "start" =>
       /\ q = Zero(MaxLimbs) /\ r = Zero(MaxLimbs)
       /\ un = Zero(MaxLimbs + 1) /\ vn = Zero(MaxLimbs)
  /\ pc = "digits" => Dividing
  /\ pc = "done" => Divided

\* The operands as numbers.
LEMMA OperandFacts ==
  ASSUME Operands
  PROVE  /\ m \in 0 .. MaxLimbs /\ n \in 1 .. MaxLimbs
         /\ u \in [0 .. (MaxLimbs - 1) -> 0 .. (B - 1)] /\ v \in [0 .. (MaxLimbs - 1) -> 0 .. (B - 1)]
         /\ Number(u, MaxLimbs) \in Nat /\ Number(v, MaxLimbs) \in Nat /\ Number(v, MaxLimbs) > 0
         /\ Number(u, MaxLimbs) = Number(u, m) /\ Number(v, MaxLimbs) = Number(v, n)
         /\ Number(u, MaxLimbs) < Place[m] /\ Number(v, MaxLimbs) >= Place[n - 1]
         /\ v[n - 1] > 0
<1>1. PICK a, b : a = u /\ b = v
  OBVIOUS
<1>2. a \in Limbs(MaxLimbs) /\ b \in Limbs(MaxLimbs) /\ m = Trim(a) /\ n = Trim(b) /\ n > 0
  BY <1>1 DEF Operands
<1>3. m \in 0 .. MaxLimbs /\ n \in 0 .. MaxLimbs /\ b[n - 1] > 0
  BY <1>2, TrimFacts
<1>4. MaxLimbs \in Nat
  BY TwosSteps
<1>5. /\ Number(a, MaxLimbs) = Number(a, m) /\ Number(a, MaxLimbs) \in Nat
      /\ Number(a, MaxLimbs) < Place[m]
  BY <1>2, TrimmedValue
<1>6. /\ Number(b, MaxLimbs) = Number(b, n) /\ Number(b, MaxLimbs) \in Nat
      /\ Number(b, MaxLimbs) >= Place[n - 1]
  BY <1>2, TrimmedValue
<1>7. Place[n - 1] \in Nat /\ Place[n - 1] > 0
  <2>1. n - 1 \in 0 .. (MaxLimbs + 1)
    BY <1>2, <1>3, <1>4
  <2> QED BY <2>1, PlaceSteps
<1>8. n \in 1 .. MaxLimbs
  BY <1>2, <1>3
<1> QED BY <1>1, <1>2, <1>3, <1>5, <1>6, <1>7, <1>8 DEF Limbs

\* It holds at first.
LEMMA DivInitInv == DivInit => DivInv
<1> SUFFICES ASSUME DivInit PROVE DivInv
  OBVIOUS
<1>1. PICK b : b = v
  OBVIOUS
<1>2. b \in Limbs(MaxLimbs) /\ b # Zero(MaxLimbs)
  BY <1>1 DEF DivInit
<1>3. Trim(b) > 0
  BY <1>2, TrimFacts
<1> QED BY <1>1, <1>2, <1>3 DEF DivInit, DivInv, Operands

\* A dividend with fewer limbs is the rest.
LEMMA SmallerInv == DivInv /\ Smaller => DivInv'
<1> SUFFICES ASSUME DivInv, Smaller PROVE DivInv'
  OBVIOUS
<1>1. Operands /\ q = Zero(MaxLimbs) /\ m < n /\ pc = "start"
  BY DEF DivInv, Smaller
<1>2. /\ u' = u /\ v' = v /\ m' = m /\ n' = n /\ q' = q /\ r' = u /\ pc' = "done"
  BY DEF Smaller
<1>3. Operands'
  BY <1>1, <1>2 DEF Operands
<1>4. PICK a, b : a = Number(u, MaxLimbs) /\ b = Number(v, MaxLimbs)
  OBVIOUS
<1>5. MaxLimbs \in Nat /\ B \in Nat /\ B >= 2
  BY TwosSteps, BaseFacts
<1>6. a \in Nat /\ b \in Nat /\ b > 0 /\ a < Place[m] /\ b >= Place[n - 1]
      /\ m \in 0 .. MaxLimbs /\ n \in 1 .. MaxLimbs
  BY <1>1, <1>4, OperandFacts
<1>7. Place[m] <= Place[n - 1]
  <2>1. PICK d, e, f : d = m /\ e = (n - 1) - m /\ f = n - 1
    OBVIOUS
  <2>2. /\ d \in Nat /\ e \in Nat /\ d + e = f /\ d + e <= MaxLimbs + 1 /\ e \in 0 .. e
        /\ d \in 0 .. (MaxLimbs + 1) /\ e \in 0 .. (MaxLimbs + 1) /\ f \in 0 .. (MaxLimbs + 1)
    BY <1>1, <1>5, <1>6, <2>1
  <2>3. Place[d + e] = Place[d] * Place[e]
    BY <2>2, PlaceAdds
  <2>4. PICK x, y : x = Place[d] /\ y = Place[e]
    OBVIOUS
  <2>5. x \in Nat /\ y \in Nat /\ y >= 1
    BY <2>2, <2>4, PlaceSteps
  <2>6. x * 1 <= x * y /\ x * 1 = x
    BY <2>5, ProductLeq
  <2> QED BY <2>1, <2>2, <2>3, <2>4, <2>6
<1>8. a < b
  <2>1. m \in 0 .. (MaxLimbs + 1) /\ n - 1 \in 0 .. (MaxLimbs + 1)
    BY <1>5, <1>6
  <2>2. Place[m] \in Nat /\ Place[n - 1] \in Nat
    BY <2>1, PlaceSteps
  <2> QED BY <1>6, <1>7, <2>2
<1>9. a \div b = 0 /\ a % b = a
  <2>1. a = b * 0 + a /\ 0 <= a
    BY <1>6
  <2> QED BY <1>6, <1>8, <2>1, DivUnique
<1>10. Number(q, MaxLimbs) = 0
  <2>1. MaxLimbs \in 0 .. (MaxLimbs + 1)
    BY <1>5
  <2> QED BY <1>1, <2>1, ZeroValue
<1>11. Divided'
  BY <1>2, <1>4, <1>9, <1>10 DEF Divided
<1> QED BY <1>2, <1>3, <1>11 DEF DivInv

\* The rests of the division by one limb, from the highest limb down.
IsRests(k) ==
  /\ k \in [0 .. m -> Int] /\ k[m] = 0
  /\ \A i \in 0 .. (m - 1) : k[i] = (k[i + 1] * B + u[i]) % v[0]
  /\ q' = [i \in DOMAIN q |-> IF i < m THEN (k[i + 1] * B + u[i]) \div v[0] ELSE 0]
  /\ r' = [r EXCEPT ![0] = k[0]]

\* The recursion of OneLimb defines such rests.
LEMMA OneLimbIs ==
  ASSUME OneLimb, m \in Nat, \A i \in 0 .. (m - 1) : u[i] \in Int, v[0] \in Nat, v[0] > 0
  PROVE  \E k : IsRests(k)
<1> DEFINE V(i, a) == IF i = m THEN 0 ELSE (a * B + u[i]) % v[0]
           P(f) == f = [i \in 0 .. m |-> V(i, f[i + 1])]
<1>1. B \in Nat /\ B >= 2
  BY BaseFacts
<1>2. ASSUME NEW i \in 0 .. m, NEW a \in Int PROVE V(i, a) \in Int
  <2>1. CASE i # m
    <3>1. i \in 0 .. (m - 1)
      BY <2>1
    <3>2. PICK e : e = a * B + u[i]
      OBVIOUS
    <3>3. e \in Int
      <4>1. a * B \in Int
        BY <1>1, ProductInt
      <4> QED BY <3>1, <3>2, <4>1
    <3>4. e % v[0] \in Int
      BY <3>3, DivInt
    <3> QED BY <2>1, <3>2, <3>4
  <2> QED BY <2>1
<1>4. PICK h : h = [p \in (1 .. m) \X Int |-> V(m - p[1], p[2])]
  OBVIOUS
<1>5. h \in [(1 .. m) \X Int -> Int] /\ 0 \in Int
  <2>1. \A p \in (1 .. m) \X Int : m - p[1] \in 0 .. m /\ p[2] \in Int
    OBVIOUS
  <2>2. \A p \in (1 .. m) \X Int : V(m - p[1], p[2]) \in Int
    <3> HIDE DEF V
    <3> QED BY <1>2, <2>1
  <2> HIDE DEF V
  <2> QED BY <1>4, <2>2
<1>6. PICK g \in [0 .. m -> Int] : Steps(g, m, 0, h)
  <2> HIDE DEF V
  <2> QED BY <1>5, RecursionExists
<1>7. PICK f : f = [i \in 0 .. m |-> g[m - i]]
  OBVIOUS
<1>8. P(f)
  <2>1. ASSUME NEW i \in 0 .. m PROVE f[i] = V(i, f[i + 1])
    <3>1. CASE i = m
      <4>1. f[i] = g[0]
        BY <1>7, <3>1
      <4>2. g[0] = 0
        BY <1>6 DEF Steps
      <4> QED BY <3>1, <4>1, <4>2
    <3>2. CASE i # m
      <4>1. i + 1 \in 0 .. m /\ m - i \in 1 .. m /\ (m - i) - 1 = m - (i + 1) /\ m - (m - i) = i
            /\ m - (i + 1) \in 0 .. m
        BY <3>2
      <4>2. g[m - (i + 1)] \in Int
        BY <1>6, <4>1
      <4>3. g[m - i] = h[<<m - i, g[m - (i + 1)]>>]
        BY <1>6, <4>1 DEF Steps
      <4>4. h[<<m - i, g[m - (i + 1)]>>] = V(i, g[m - (i + 1)])
        <5> HIDE DEF V
        <5> QED BY <1>4, <4>1, <4>2
      <4> HIDE DEF V
      <4> QED BY <1>7, <4>1, <4>3, <4>4
    <3> QED BY <3>1, <3>2
  <2> HIDE DEF V
  <2> QED BY <1>7, <2>1
<1> DEFINE C == CHOOSE f_1 : P(f_1)
<1>9. PICK k : k = C
  OBVIOUS
<1>10. P(k)
  <2>1. P(C)
    <3> HIDE DEF P
    <3> QED BY <1>8, Zenon
  <2> HIDE DEF P, C
  <2> QED BY <1>9, <2>1, Zenon
<1>11. /\ q' = [i \in DOMAIN q |-> IF i < m THEN (k[i + 1] * B + u[i]) \div v[0] ELSE 0]
       /\ r' = [r EXCEPT ![0] = k[0]]
  <2>1. q' = [i \in DOMAIN q |-> IF i < m THEN (C[i + 1] * B + u[i]) \div v[0] ELSE 0]
    BY SMT DEF OneLimb
  <2>2. r' = [r EXCEPT ![0] = C[0]]
    BY SMT DEF OneLimb
  <2> HIDE DEF C
  <2> QED BY <1>9, <2>1, <2>2, Zenon
<1>12. \A i \in 0 .. m : k[i] = V(i, k[i + 1])
  <2> HIDE DEF V
  <2> QED BY <1>10, Zenon
<1>13. k[m] = 0 /\ \A i \in 0 .. (m - 1) : k[i] = (k[i + 1] * B + u[i]) % v[0]
  <2>1. m \in 0 .. m /\ \A i \in 0 .. (m - 1) : i \in 0 .. m /\ i # m
    OBVIOUS
  <2>2. k[m] = 0
    BY <1>12, <2>1
  <2>3. \A i \in 0 .. (m - 1) : k[i] = (k[i + 1] * B + u[i]) % v[0]
    BY <1>12, <2>1, Zenon
  <2> QED BY <2>2, <2>3
<1>14. k \in [0 .. m -> Int]
  <2>1. PICK T : T = {i \in 0 .. m : k[m - i] \in Int}
    OBVIOUS
  <2>2. 0 \in T
    <3>1. m - 0 = m
      OBVIOUS
    <3> QED BY <1>13, <2>1, <3>1
  <2>3. ASSUME NEW i \in 0 .. (m - 1), i \in T PROVE i + 1 \in T
    <3>1. i + 1 \in 0 .. m /\ m - (i + 1) \in 0 .. m /\ (m - (i + 1)) + 1 = m - i
      OBVIOUS
    <3>2. k[m - i] \in Int
      BY <2>1, <2>3
    <3>3. k[m - (i + 1)] = V(m - (i + 1), k[m - i])
      <4> HIDE DEF V
      <4> QED BY <1>12, <3>1
    <3>4. V(m - (i + 1), k[m - i]) \in Int
      <4> HIDE DEF V
      <4> QED BY <1>2, <3>1, <3>2
    <3> HIDE DEF V
    <3> QED BY <2>1, <3>1, <3>3, <3>4
  <2>4. \A i \in 0 .. m : i \in T
    BY <2>2, <2>3, UpTo
  <2>5. \A i \in 0 .. m : k[i] \in Int
    <3> TAKE i \in 0 .. m
    <3>1. m - i \in 0 .. m /\ m - (m - i) = i
      OBVIOUS
    <3>2. m - i \in T
      BY <2>4, <3>1
    <3> QED BY <2>1, <3>1, <3>2
  <2>6. DOMAIN k = 0 .. m /\ k = [i \in DOMAIN k |-> k[i]]
    <3> HIDE DEF V
    <3> QED BY <1>10
  <2> QED BY <2>5, <2>6
<1> QED
  <2> HIDE DEF V, P, C
  <2>1. IsRests(k)
    BY <1>11, <1>13, <1>14, Zenon DEF IsRests
  <2> QED BY <2>1

\* Division by one limb: the rests carried down make the quotient exact.
LEMMA OneLimbInv == DivInv /\ OneLimb => DivInv'
<1> SUFFICES ASSUME DivInv, OneLimb PROVE DivInv'
  OBVIOUS
<1>1. Operands /\ q = Zero(MaxLimbs) /\ r = Zero(MaxLimbs) /\ m >= n /\ n = 1
  BY DEF DivInv, OneLimb
<1>2. u' = u /\ v' = v /\ m' = m /\ n' = n /\ pc' = "done"
  BY DEF OneLimb
<1>3. Operands'
  BY <1>1, <1>2 DEF Operands
<1>4. PICK a, b, l, K : a = Number(u, MaxLimbs) /\ b = Number(v, MaxLimbs) /\ l = v[0] /\ K = m
  OBVIOUS
<1>5. MaxLimbs \in Nat /\ MaxLimbs > 0 /\ B \in Nat /\ B >= 2
  BY TwosSteps, BaseFacts
<1>6. /\ a \in Nat /\ b \in Nat /\ a = Number(u, m) /\ b = Number(v, 1) /\ m \in 1 .. MaxLimbs
      /\ u \in [0 .. (MaxLimbs - 1) -> 0 .. (B - 1)] /\ v \in [0 .. (MaxLimbs - 1) -> 0 .. (B - 1)]
      /\ v[0] > 0
  <2>1. n - 1 = 0 /\ m >= 1
    BY <1>1
  <2> QED BY <1>1, <1>4, <2>1, OperandFacts
<1>7. \A i \in 0 .. (m - 1) : u[i] \in Int
  <2> TAKE i \in 0 .. (m - 1)
  <2>1. i \in 0 .. (MaxLimbs - 1)
    BY <1>5, <1>6
  <2>2. u[i] \in 0 .. (B - 1)
    BY <1>6, <2>1
  <2> QED BY <1>5, <2>2
<1>8. l \in Nat /\ l > 0
  <2>1. 0 \in 0 .. (MaxLimbs - 1)
    BY <1>5
  <2>2. v[0] \in 0 .. (B - 1)
    BY <1>6, <2>1
  <2> QED BY <1>4, <1>5, <1>6, <2>2
<1>9. b = l
  <2>1. PICK x : x = v
    OBVIOUS
  <2>2. \A i \in 0 .. (1 - 1) : x[i] \in Int
    BY <1>4, <1>8, <2>1
  <2>3. 1 \in 0 .. (MaxLimbs + 1)
    BY <1>5
  <2>4. Number(x, 0) = 0 /\ Number(x, 0 + 1) = Number(x, 0) + x[0] * Place[0]
    BY <2>2, <2>3, NumberSteps
  <2>5. Place[0] = 1
    BY PlaceSteps
  <2> QED BY <1>4, <1>6, <1>8, <2>1, <2>4, <2>5
<1>10. \E k : IsRests(k)
  BY <1>4, <1>6, <1>7, <1>8, OneLimbIs
<1>11. PICK k \in [0 .. m -> Int] : IsRests(k)
  BY <1>10 DEF IsRests
<1>12. PICK y, x, z : y = q' /\ x = u /\ z = r'
  OBVIOUS
<1>13. /\ K \in 0 .. (MaxLimbs + 1) /\ K \in Nat /\ K >= 1 /\ k[K] = 0 /\ K = m
       /\ \A i \in 0 .. (MaxLimbs - 1) : y[i] = IF i < K THEN (k[i + 1] * B + x[i]) \div l ELSE 0
       /\ \A i \in 0 .. (K - 1) : k[i] = (k[i + 1] * B + x[i]) % l
       /\ \A i \in 0 .. (MaxLimbs - 1) : z[i] = IF i = 0 THEN k[0] ELSE 0
  <2>1. DOMAIN q = 0 .. (MaxLimbs - 1) /\ r = [i \in 0 .. (MaxLimbs - 1) |-> 0]
    BY <1>1 DEF Zero
  <2>2. K \in 0 .. (MaxLimbs + 1) /\ K \in Nat /\ K >= 1 /\ k[K] = 0 /\ K = m
    BY <1>4, <1>5, <1>6, <1>11 DEF IsRests
  <2>3. \A i \in 0 .. (MaxLimbs - 1) : y[i] = IF i < K THEN (k[i + 1] * B + x[i]) \div l ELSE 0
    BY <1>4, <1>11, <1>12, <2>1 DEF IsRests
  <2>4. \A i \in 0 .. (K - 1) : k[i] = (k[i + 1] * B + x[i]) % l
    BY <1>4, <1>11, <1>12 DEF IsRests
  <2>5. \A i \in 0 .. (MaxLimbs - 1) : z[i] = IF i = 0 THEN k[0] ELSE 0
    BY <1>11, <1>12, <2>1 DEF IsRests
  <2> QED BY <2>2, <2>3, <2>4, <2>5
<1>14. ASSUME NEW i \in 0 .. (K - 1)
       PROVE  /\ x[i] \in Int /\ y[i] \in Int /\ k[i] \in Int /\ k[i + 1] \in Int
              /\ k[i + 1] * B + x[i] = l * y[i] + k[i] /\ 0 <= k[i] /\ k[i] < l
  <2>1. x[i] \in Int /\ k[i] \in Int /\ k[i + 1] \in Int /\ i \in 0 .. (MaxLimbs - 1) /\ i < K
    BY <1>5, <1>6, <1>7, <1>12, <1>13
  <2>2. PICK e : e = k[i + 1] * B + x[i]
    OBVIOUS
  <2>3. e \in Int
    <3>1. k[i + 1] * B \in Int
      BY <1>5, <2>1, ProductInt
    <3> QED BY <2>1, <2>2, <3>1
  <2>4. e = (l * (e \div l)) + (e % l) /\ e \div l \in Int /\ 0 <= e % l /\ e % l < l
    BY <1>8, <2>3, DivMod
  <2>5. y[i] = e \div l /\ k[i] = e % l
    BY <1>13, <2>1, <2>2
  <2> QED BY <2>1, <2>2, <2>4, <2>5
<1>15. \A i \in 0 .. (K - 1) : x[i] \in Int /\ y[i] \in Int
  BY <1>14
<1>16. /\ Number(y, 0) = 0 /\ \A i \in 0 .. K : Number(y, i) \in Int
       /\ \A i \in 0 .. (K - 1) : Number(y, i + 1) = Number(y, i) + y[i] * Place[i]
  BY <1>13, <1>15, NumberSteps
<1>17. PICK g : g = [i \in 0 .. K |-> (l * Number(y, i) + k[0]) - k[i] * Place[i]]
  OBVIOUS
<1>18. k[0] \in Int /\ 0 <= k[0] /\ k[0] < l
  <2>1. 0 \in 0 .. (K - 1)
    BY <1>13
  <2> QED BY <1>14, <2>1
<1>19. g[0] = 0
  <2>1. 0 \in 0 .. K /\ Place[0] = 1
    BY <1>13, PlaceSteps
  <2>2. g[0] = (l * 0 + k[0]) - k[0] * 1
    BY <1>16, <1>17, <2>1
  <2> QED BY <1>8, <1>18, <2>2
<1>20. ASSUME NEW i \in 0 .. (K - 1) PROVE g[i + 1] = g[i] + x[i] * Place[i]
  <2>1. i \in 0 .. K /\ i + 1 \in 0 .. K /\ i \in 0 .. MaxLimbs /\ i \in 0 .. (MaxLimbs + 1)
    BY <1>5, <1>13
  <2>2. PICK N0, p, xi, yi, c0, c1, c2 :
          /\ N0 = Number(y, i) /\ p = Place[i] /\ xi = x[i] /\ yi = y[i] /\ c0 = k[0] /\ c1 = k[i]
          /\ c2 = k[i + 1]
    OBVIOUS
  <2>3. /\ N0 \in Int /\ p \in Int /\ xi \in Int /\ yi \in Int /\ c0 \in Int /\ c1 \in Int /\ c2 \in Int
    <3>1. N0 \in Int /\ p \in Int
      BY <1>16, <2>1, <2>2, PlaceSteps
    <3> QED BY <1>14, <1>18, <2>2, <3>1
  <2>4. Number(y, i + 1) = N0 + yi * p /\ Place[i + 1] = B * p
    BY <1>16, <2>1, <2>2, PlaceSteps
  <2>5. g[i + 1] = (l * (N0 + yi * p) + c0) - c2 * (B * p) /\ g[i] = (l * N0 + c0) - c1 * p
    BY <1>17, <2>1, <2>2, <2>4
  <2>6. PICK e : e = c2 * B
    OBVIOUS
  <2>7. e \in Int /\ xi = (l * yi + c1) - e
    <3>1. e \in Int
      BY <1>5, <2>3, <2>6, ProductInt
    <3>2. e + xi = l * yi + c1
      BY <1>14, <2>2, <2>6
    <3>3. l * yi \in Int
      BY <1>8, <2>3, ProductInt
    <3> QED BY <2>3, <3>1, <3>2, <3>3
  <2>8. (l * (N0 + yi * p) + c0) - c2 * (B * p) = ((l * N0 + c0) - c1 * p) + ((l * yi + c1) - c2 * B) * p
    BY <1>5, <1>8, <2>3
  <2> QED BY <2>2, <2>5, <2>6, <2>7, <2>8
<1>21. a = l * Number(y, K) + k[0]
  <2>1. \A i \in 0 .. K : Number(x, i) = g[i]
    <3>1. K \in 0 .. (MaxLimbs + 1)
      BY <1>13
    <3>2. \A i \in 0 .. (K - 1) : x[i] \in Int
      BY <1>15
    <3>3. \A i \in 0 .. (K - 1) : g[i + 1] = g[i] + x[i] * Place[i]
      BY <1>20
    <3>4. Sums(g, x, K)
      BY <1>19, <3>2, <3>3 DEF Sums
    <3> QED BY <3>1, <3>4, SumsToAll
  <2>2. K \in 0 .. K /\ Place[K] \in Int
    BY <1>13, PlaceSteps
  <2>3. g[K] = (l * Number(y, K) + k[0]) - 0 * Place[K]
    BY <1>13, <1>17, <2>2
  <2>4. l * Number(y, K) \in Int /\ 0 * Place[K] = 0
    <3>1. Number(y, K) \in Int
      BY <1>16, <2>2
    <3> QED BY <1>8, <2>2, <3>1, ProductInt
  <2> QED BY <1>6, <1>12, <1>13, <1>18, <2>1, <2>2, <2>3, <2>4
<1>22. PICK L : L = MaxLimbs
  OBVIOUS
<1>23. L \in 0 .. (MaxLimbs + 1) /\ L \in Nat /\ K \in 0 .. L /\ L \in 0 .. L /\ 1 \in 0 .. L
  BY <1>4, <1>5, <1>6, <1>22
<1>24. Number(y, L) = Number(y, K)
  <2>1. \A i \in 0 .. (L - 1) : y[i] \in Int /\ (i >= K => y[i] = 0)
    <3> TAKE i \in 0 .. (L - 1)
    <3>1. CASE i < K
      <4>1. i \in 0 .. (K - 1)
        BY <3>1, <1>13
      <4> QED BY <1>13, <1>14, <3>1, <4>1
    <3>2. CASE ~(i < K)
      BY <1>13, <1>22, <3>2
    <3> QED BY <3>1, <3>2
  <2>2. \A i \in 0 .. L : i >= K => Number(y, i) = Number(y, K)
    BY <1>23, <2>1, HighZero
  <2> QED BY <1>23, <2>2
<1>25. Number(z, L) = k[0]
  <2>1. \A i \in 0 .. (L - 1) : z[i] \in Int /\ (i >= 1 => z[i] = 0)
    BY <1>13, <1>18, <1>22
  <2>2. \A i \in 0 .. L : i >= 1 => Number(z, i) = Number(z, 1)
    BY <1>23, <2>1, HighZero
  <2>3. \A i \in 0 .. (L - 1) : z[i] \in Int
    BY <2>1
  <2>4. Number(z, 0) = 0 /\ Number(z, 0 + 1) = Number(z, 0) + z[0] * Place[0]
    <3>1. 0 \in 0 .. (L - 1)
      BY <1>23
    <3> QED BY <1>23, <2>3, <3>1, NumberSteps
  <2>5. Place[0] = 1 /\ z[0] = k[0]
    <3>1. 0 \in 0 .. (MaxLimbs - 1)
      BY <1>5
    <3> QED BY <1>13, <3>1, PlaceSteps
  <2> QED BY <1>18, <1>23, <2>2, <2>4, <2>5
<1>26. a \div b = Number(y, L) /\ a % b = Number(z, L)
  <2>1. PICK e : e = Number(y, K)
    OBVIOUS
  <2>2. e \in Int
    <3>1. K \in 0 .. K
      BY <1>13
    <3> QED BY <1>16, <2>1, <3>1
  <2>3. a = l * e + k[0]
    BY <1>21, <2>1
  <2>4. a \div l = e /\ a % l = k[0]
    <3>1. PICK c : c = k[0]
      OBVIOUS
    <3>2. c \in Int /\ 0 <= c /\ c < l /\ a = l * e + c
      BY <1>18, <2>3, <3>1
    <3>3. a \in Int
      BY <1>6
    <3>4. a \div l = e /\ a % l = c
      BY <1>8, <2>2, <3>2, <3>3, DivUnique
    <3> QED BY <3>1, <3>4
  <2> QED BY <1>9, <1>24, <1>25, <2>1, <2>4
<1>27. Divided'
  BY <1>2, <1>4, <1>12, <1>22, <1>26 DEF Divided
<1> QED BY <1>2, <1>3, <1>27 DEF DivInv

\* The shift moves the highest bit of a limb to the top.
LEMMA ShiftChosen ==
  ASSUME NEW x \in 0 .. (B - 1), x > 0, NEW sh,
         sh = Max({k \in 0 .. (LimbBits - 1) : x * Twos[k] < B})
  PROVE  /\ sh \in 0 .. (LimbBits - 1)
         /\ x * Twos[sh] < B /\ 2 * (x * Twos[sh]) >= B
<1>1. B \in Nat /\ B >= 2 /\ x \in Nat /\ x < B /\ LimbBits \in Nat /\ LimbBits > 0 /\ Twos[0] = 1
  BY BaseFacts, TwosSteps
<1>2. PICK T : T = {k \in 0 .. (LimbBits - 1) : x * Twos[k] < B}
  OBVIOUS
<1>3. 0 \in T
  <2>1. 0 \in 0 .. (LimbBits - 1) /\ x * Twos[0] < B
    BY <1>1
  <2> QED BY <1>2, <2>1
<1>4. T \in SUBSET (0 .. (LimbBits - 1)) /\ T # {} /\ sh = Max(T) /\ LimbBits - 1 \in Nat
  BY <1>1, <1>2, <1>3
<1>5. sh \in T /\ \A e \in T : e <= sh
  BY <1>4, MaxFacts
<1>6. sh \in 0 .. (LimbBits - 1) /\ x * Twos[sh] < B
  BY <1>2, <1>5
<1>7. PICK C : C = Twos[sh]
  OBVIOUS
<1>8. C \in Nat /\ C > 0
  BY <1>6, <1>7, ShiftFacts
<1>9. CASE sh = LimbBits - 1
  <2>1. C * 2 = B
    BY <1>7, <1>9, TwosFacts
  <2>2. C * 1 <= C * x /\ C * 1 = C /\ C * x = x * C /\ x * C \in Int
    BY <1>1, <1>8, ProductLeq, Commutes
  <2>3. 2 * (x * C) >= B
    BY <1>8, <2>1, <2>2
  <2> QED BY <1>6, <1>7, <2>3
<1>10. CASE sh # LimbBits - 1
  <2>1. sh + 1 \in 0 .. (LimbBits - 1) /\ ~(sh + 1 <= sh)
    BY <1>1, <1>6, <1>10
  <2>2. sh + 1 \notin T
    BY <1>5, <2>1
  <2>3. ~(x * Twos[sh + 1] < B)
    BY <1>2, <2>1, <2>2
  <2>4. Twos[sh + 1] = 2 * C
    BY <1>6, <1>7, TwosFacts
  <2>5. x * (2 * C) = 2 * (x * C) /\ x * (2 * C) \in Int
    <3>1. 2 * C \in Int
      BY <1>8
    <3> QED BY <1>1, <1>8, <3>1, ProductInt
  <2>6. 2 * (x * C) >= B
    BY <1>1, <2>3, <2>4, <2>5
  <2> QED BY <1>6, <1>7, <2>6
<1> QED BY <1>9, <1>10

\* The shift multiplies both operands and loses no bit of either.
LEMMA NormaliseInv == DivInv /\ Normalise => DivInv'
<1> SUFFICES ASSUME DivInv, Normalise PROVE DivInv'
  OBVIOUS
<1>1. /\ Operands /\ q = Zero(MaxLimbs) /\ r = Zero(MaxLimbs)
      /\ un = Zero(MaxLimbs + 1) /\ vn = Zero(MaxLimbs) /\ m >= n /\ n > 1
  BY DEF DivInv, Normalise
<1>2. PICK sh, x, y, a, b : sh = s' /\ x = un' /\ y = vn' /\ a = u /\ b = v
  OBVIOUS
<1>3. /\ u' = u /\ v' = v /\ m' = m /\ n' = n /\ q' = q /\ r' = r /\ pc' = "digits" /\ j' = m - n
      /\ sh = Max({k \in 0 .. (LimbBits - 1) : v[n - 1] * Twos[k] < B})
      /\ y = [i \in DOMAIN vn |-> IF i < n THEN Up(v, i, sh) ELSE 0]
      /\ x = [i \in DOMAIN un |-> CASE i < m -> Up(u, i, sh)
                                    [] i = m -> u[m - 1] \div Twos[LimbBits - sh]
                                    [] i > m -> 0]
  BY <1>2 DEF Normalise
<1>4. Operands'
  BY <1>1, <1>3 DEF Operands
<1>5. MaxLimbs \in Nat /\ MaxLimbs > 0 /\ B \in Nat /\ B >= 2 /\ LimbBits \in Nat /\ LimbBits > 0
  BY TwosSteps, BaseFacts
<1>6. /\ m \in 1 .. MaxLimbs /\ n \in 2 .. MaxLimbs
      /\ a \in [0 .. (MaxLimbs - 1) -> 0 .. (B - 1)] /\ b \in [0 .. (MaxLimbs - 1) -> 0 .. (B - 1)]
      /\ Number(a, MaxLimbs) \in Nat /\ Number(b, MaxLimbs) \in Nat
      /\ Number(a, MaxLimbs) = Number(a, m) /\ Number(b, MaxLimbs) = Number(b, n)
      /\ Number(a, MaxLimbs) < Place[m] /\ b[n - 1] > 0
  BY <1>1, <1>2, OperandFacts
<1>7. PICK top : top = b[n - 1]
  OBVIOUS
<1>8. top \in 0 .. (B - 1) /\ top > 0 /\ top \in Nat
  <2>1. n - 1 \in 0 .. (MaxLimbs - 1)
    BY <1>5, <1>6
  <2>2. b[n - 1] \in 0 .. (B - 1)
    BY <1>6, <2>1
  <2> QED BY <1>5, <1>6, <1>7, <2>2
<1>9. sh \in 0 .. (LimbBits - 1) /\ top * Twos[sh] < B /\ 2 * (top * Twos[sh]) >= B
  <2>1. sh = Max({k \in 0 .. (LimbBits - 1) : top * Twos[k] < B})
    BY <1>2, <1>3, <1>7, Zenon
  <2> QED BY <1>8, <2>1, ShiftChosen
<1>10. PICK C, D : C = Twos[sh] /\ D = Twos[LimbBits - sh]
  OBVIOUS
<1>11. C \in Nat /\ C > 0 /\ D \in Nat /\ D > 0 /\ C * D = B /\ 2 * C <= B
  BY <1>9, <1>10, ShiftFacts
\* The divisor.
<1>12. \A i \in 0 .. (MaxLimbs - 1) : y[i] = IF i < n THEN Up(b, i, sh) ELSE 0
  <2>1. DOMAIN vn = 0 .. (MaxLimbs - 1)
    BY <1>1 DEF Zero
  <2> QED BY <1>2, <1>3, <2>1
<1>13. y \in [0 .. (MaxLimbs - 1) -> 0 .. (B - 1)]
  <2>1. ASSUME NEW i \in 0 .. (MaxLimbs - 1) PROVE y[i] \in 0 .. (B - 1)
    <3>1. CASE i < n
      <4>1. i \in 0 .. (n - 1) /\ n \in 1 .. MaxLimbs
        BY <1>6, <3>1
      <4>2. Up(b, i, sh) \in 0 .. (B - 1)
        BY <1>6, <1>9, <4>1, MovedLimbs
      <4> QED BY <1>12, <3>1, <4>2
    <3>2. CASE ~(i < n)
      BY <1>5, <1>12, <3>2
    <3> QED BY <3>1, <3>2
  <2>2. y = [i \in 0 .. (MaxLimbs - 1) |-> IF i < n THEN Up(v, i, sh) ELSE 0]
    <3>1. DOMAIN vn = 0 .. (MaxLimbs - 1)
      BY <1>1 DEF Zero
    <3> QED BY <1>3, <3>1
  <2>3. DOMAIN y = 0 .. (MaxLimbs - 1) /\ y = [i \in DOMAIN y |-> y[i]]
    BY <2>2
  <2> QED BY <2>1, <2>3
<1>14. PICK K, M, L, L1 : K = n /\ M = m /\ L = MaxLimbs /\ L1 = MaxLimbs + 1
  OBVIOUS
<1>15. /\ K \in 1 .. MaxLimbs /\ M \in 1 .. MaxLimbs /\ L \in 0 .. (MaxLimbs + 1) /\ L1 \in 0 .. (MaxLimbs + 1)
       /\ K \in 0 .. L /\ L \in 0 .. L /\ L1 \in 0 .. L1 /\ M + 1 \in 0 .. L1 /\ M \in 0 .. MaxLimbs
       /\ M \in 0 .. (L1 - 1) /\ 0 .. (L1 - 1) = 0 .. MaxLimbs /\ M \in 0 .. M
  BY <1>5, <1>6, <1>14
<1>16. top \div D = 0
  <2>1. (top * C) % B = C * top - B * (top \div D) /\ top \div D \in 0 .. (C - 1)
    BY <1>8, <1>11, ShiftedLimb
  <2>2. PICK f, g : f = top * C /\ g = top \div D
    OBVIOUS
  <2>3. f \in Nat /\ f < B /\ C * top = f
    BY <1>8, <1>9, <1>10, <1>11, <2>2, ProductNat, Commutes
  <2>4. f % B = f
    BY <1>5, <2>3
  <2>5. g \in Nat
    BY <1>11, <2>1, <2>2
  <2>6. f = f - B * g
    BY <2>1, <2>2, <2>3, <2>4
  <2>7. g >= 1 => B * 1 <= B * g
    BY <1>5, <2>5, ProductLeq
  <2>8. B * g \in Int
    BY <1>5, <2>5, ProductInt
  <2>9. g = 0
    BY <1>5, <2>3, <2>5, <2>6, <2>7, <2>8
  <2> QED BY <2>2, <2>9
<1>17. Number(y, K) = C * Number(b, K)
  <2>1. Moved(y, b, sh, K)
    <3>1. \A i \in 0 .. (K - 1) : i \in 0 .. (MaxLimbs - 1) /\ i < n
      BY <1>5, <1>6, <1>14
    <3> QED BY <1>12, <3>1 DEF Moved
  <2>2. Number(y, K) = C * Number(b, K) - Place[K] * (top \div D)
    <3>1. b[K - 1] = top
      BY <1>7, <1>14
    <3> QED BY <1>6, <1>9, <1>10, <1>15, <2>1, <3>1, MovedValue
  <2>3. PICK e, f : e = C * Number(b, K) /\ f = Place[K]
    OBVIOUS
  <2>4. e \in Int /\ f \in Int
    <3>1. K \in 0 .. (MaxLimbs + 1)
      BY <1>5, <1>15
    <3>2. Number(b, K) \in Int
      BY <1>6, <1>14
    <3> QED BY <1>11, <2>3, <3>1, <3>2, PlaceSteps, ProductInt
  <2> QED BY <1>16, <2>2, <2>3, <2>4
<1>18. Number(y, L) = Number(y, K)
  <2>1. \A i \in 0 .. (L - 1) : y[i] \in Int /\ (i >= K => y[i] = 0)
    <3> TAKE i \in 0 .. (L - 1)
    <3>1. y[i] \in 0 .. (B - 1)
      BY <1>13, <1>14
    <3>2. i >= K => y[i] = 0
      BY <1>6, <1>12, <1>14
    <3> QED BY <1>5, <3>1, <3>2
  <2>2. \A i \in 0 .. L : i >= K => Number(y, i) = Number(y, K)
    BY <1>15, <2>1, HighZero
  <2> QED BY <1>15, <2>2
<1>19. 2 * y[n - 1] >= B
  <2>1. n - 1 \in 0 .. (MaxLimbs - 1) /\ n - 1 < n /\ n - 1 # 0 /\ (n - 1) - 1 \in 0 .. (MaxLimbs - 1)
    BY <1>5, <1>6
  <2>2. PICK l, e : l = b[(n - 1) - 1] /\ e = l \div D
    OBVIOUS
  <2>3. l \in 0 .. (B - 1)
    BY <1>6, <2>1, <2>2
  <2>4. e \in 0 .. (C - 1)
    BY <1>11, <2>2, <2>3, ShiftedLimb
  <2>5. y[n - 1] = ((top * C) % B) + e
    <3>1. y[n - 1] = Up(b, n - 1, sh)
      BY <1>12, <2>1
    <3> QED BY <1>7, <1>10, <2>1, <2>2, <3>1 DEF Up
  <2>6. PICK f : f = top * C
    OBVIOUS
  <2>7. f \in Nat /\ f < B /\ 2 * f >= B
    BY <1>8, <1>9, <1>10, <1>11, <2>6, ProductNat
  <2>8. f % B = f
    BY <1>5, <2>7
  <2> QED BY <1>5, <1>11, <2>4, <2>5, <2>6, <2>7, <2>8
\* The dividend.
<1>20. PICK high : high = a[m - 1] \div D
  OBVIOUS
<1>21. high \in 0 .. (C - 1)
  <2>1. PICK l : l = a[m - 1]
    OBVIOUS
  <2>2. m - 1 \in 0 .. (MaxLimbs - 1)
    BY <1>5, <1>6
  <2>3. l \in 0 .. (B - 1)
    BY <1>6, <2>1, <2>2
  <2> QED BY <1>11, <1>20, <2>1, <2>3, ShiftedLimb
<1>22. \A i \in 0 .. MaxLimbs :
         /\ i < m => x[i] = Up(a, i, sh)
         /\ i = m => x[i] = high
         /\ i > m => x[i] = 0
  <2>1. DOMAIN un = 0 .. MaxLimbs
    BY <1>1, <1>5 DEF Zero
  <2> TAKE i \in 0 .. MaxLimbs
  <2>2. x[i] = CASE i < m -> Up(u, i, sh)
                 [] i = m -> u[m - 1] \div Twos[LimbBits - sh]
                 [] i > m -> 0
    BY <1>3, <2>1
  <2>3. i < m => x[i] = Up(a, i, sh)
    <3> SUFFICES ASSUME i < m PROVE x[i] = Up(a, i, sh)
      OBVIOUS
    <3>1. ~(i = m) /\ ~(i > m)
      BY <1>6
    <3> QED BY <1>2, <2>2, <3>1
  <2>4. i = m => x[i] = high
    <3> SUFFICES ASSUME i = m PROVE x[i] = high
      OBVIOUS
    <3>1. ~(i < m) /\ ~(i > m)
      BY <1>6
    <3> QED BY <1>2, <1>10, <1>20, <2>2, <3>1
  <2>5. i > m => x[i] = 0
    <3> SUFFICES ASSUME i > m PROVE x[i] = 0
      OBVIOUS
    <3>1. ~(i < m) /\ ~(i = m)
      BY <1>6
    <3> QED BY <2>2, <3>1
  <2> QED BY <2>3, <2>4, <2>5
<1>23. x \in [0 .. MaxLimbs -> 0 .. (B - 1)]
  <2>1. ASSUME NEW i \in 0 .. MaxLimbs PROVE x[i] \in 0 .. (B - 1)
    <3>1. CASE i < m
      <4>1. i \in 0 .. (m - 1)
        BY <1>6, <3>1
      <4>2. Up(a, i, sh) \in 0 .. (B - 1)
        BY <1>6, <1>9, <4>1, MovedLimbs
      <4> QED BY <1>22, <3>1, <4>2
    <3>2. CASE i = m
      <4>1. high \in 0 .. (B - 1)
        BY <1>5, <1>11, <1>21
      <4> QED BY <1>22, <3>2, <4>1
    <3>3. CASE i > m
      BY <1>5, <1>22, <3>3
    <3> QED BY <1>6, <3>1, <3>2, <3>3
  <2>2. DOMAIN x = 0 .. MaxLimbs /\ x = [i \in DOMAIN x |-> x[i]]
    <3>1. DOMAIN un = 0 .. MaxLimbs
      BY <1>1, <1>5 DEF Zero
    <3> DEFINE Moving(i) == CASE i < m -> Up(u, i, sh)
                         [] i = m -> u[m - 1] \div Twos[LimbBits - sh]
                         [] i > m -> 0
    <3>2. x = [i \in DOMAIN un |-> Moving(i)]
      BY <1>3, Zenon
    <3> HIDE DEF Moving
    <3> QED BY <3>1, <3>2
  <2> QED BY <2>1, <2>2
<1>24. \A i \in 0 .. (L1 - 1) : x[i] \in Int /\ (i >= M + 1 => x[i] = 0)
  <2> TAKE i \in 0 .. (L1 - 1)
  <2>1. i \in 0 .. MaxLimbs
    BY <1>15
  <2>2. x[i] \in 0 .. (B - 1)
    BY <1>23, <2>1
  <2>3. i >= M + 1 => x[i] = 0
    BY <1>6, <1>14, <1>22, <2>1
  <2> QED BY <1>5, <2>2, <2>3
<1>25. Number(x, L1) = C * Number(a, M)
  <2>1. Moved(x, a, sh, M)
    <3>1. \A i \in 0 .. (M - 1) : i \in 0 .. MaxLimbs /\ i < m
      BY <1>5, <1>6, <1>14
    <3> QED BY <1>22, <3>1 DEF Moved
  <2>2. Number(x, M) = C * Number(a, M) - Place[M] * high
    <3>1. a[M - 1] = a[m - 1]
      BY <1>14
    <3>2. Number(x, M) = Twos[sh] * Number(a, M) - Place[M] * (a[M - 1] \div Twos[LimbBits - sh])
      BY <1>6, <1>9, <1>15, <2>1, MovedValue
    <3> QED BY <1>10, <1>20, <3>1, <3>2
  <2>3. PICK e, f : e = C * Number(a, M) /\ f = Place[M] * high
    OBVIOUS
  <2>4. e \in Int /\ f \in Int
    <3>1. M \in 0 .. (MaxLimbs + 1)
      BY <1>5, <1>15
    <3>2. Number(a, M) \in Int
      BY <1>6, <1>14
    <3>3. high \in Int /\ Place[M] \in Int
      BY <1>11, <1>21, <3>1, PlaceSteps
    <3> QED BY <1>11, <2>3, <3>2, <3>3, ProductInt
  <2>5. Number(x, M + 1) = Number(x, M) + x[M] * Place[M]
    <3>1. \A i \in 0 .. (L1 - 1) : x[i] \in Int
      BY <1>24
    <3> QED BY <1>15, <3>1, NumberSteps
  <2>6. x[M] * Place[M] = f
    <3>1. x[M] = high
      BY <1>6, <1>14, <1>15, <1>22
    <3>2. M \in 0 .. (MaxLimbs + 1)
      BY <1>5, <1>15
    <3>3. high \in Int /\ Place[M] \in Int
      BY <1>11, <1>21, <3>2, PlaceSteps
    <3> QED BY <2>3, <3>1, <3>3, Commutes
  <2>7. Number(x, M + 1) = e
    BY <2>2, <2>3, <2>4, <2>5, <2>6
  <2>8. \A i \in 0 .. L1 : i >= M + 1 => Number(x, i) = Number(x, M + 1)
    BY <1>15, <1>24, HighZero
  <2>9. L1 >= M + 1
    BY <1>15
  <2> QED BY <1>15, <2>3, <2>7, <2>8, <2>9
<1>26. Number(x, L1) < Number(y, L) * Place[(m - n) + 1]
  <2>1. PICK k, d : k = n - 1 /\ d = (m - n) + 1
    OBVIOUS
  <2>2. /\ k \in 0 .. MaxLimbs /\ d \in 0 .. MaxLimbs /\ k + d = M /\ k + 1 = K /\ k \in Nat /\ d \in Nat
        /\ k + d <= MaxLimbs + 1 /\ d \in 0 .. d /\ k \in 0 .. (MaxLimbs + 1) /\ d \in 0 .. (MaxLimbs + 1)
        /\ k \in 0 .. (K - 1) /\ K \in 0 .. (MaxLimbs + 1) /\ k \in 0 .. K
    BY <1>1, <1>5, <1>6, <1>14, <2>1
  <2>3. PICK p, pd, l, e, N0 : /\ p = Place[k] /\ pd = Place[d] /\ l = y[k] /\ e = Number(y, k)
                              /\ N0 = Number(a, M)
    OBVIOUS
  <2>4. p \in Nat /\ p > 0 /\ pd \in Nat /\ pd > 0 /\ Place[M] = p * pd
    <3>1. Place[k + d] = Place[k] * Place[d]
      BY <2>2, PlaceAdds
    <3> QED BY <2>2, <2>3, <3>1, PlaceSteps
  <2>5. \A i \in 0 .. (K - 1) : y[i] \in 0 .. (B - 1) /\ y[i] \in Int
    <3> TAKE i \in 0 .. (K - 1)
    <3>1. i \in 0 .. (MaxLimbs - 1)
      BY <1>5, <1>15
    <3>2. y[i] \in 0 .. (B - 1)
      BY <1>13, <3>1
    <3> QED BY <1>5, <3>2
  <2>6. e \in Nat
    BY <2>2, <2>3, <2>5, NumberBound
  <2>7. l \in Nat /\ 2 * l >= B
    <3>1. y[k] \in 0 .. (B - 1)
      BY <2>2, <2>5
    <3> QED BY <1>5, <1>19, <2>1, <2>3, <3>1
  <2>8. Number(y, K) = e + l * p
    <3>1. \A i \in 0 .. (K - 1) : Number(y, i + 1) = Number(y, i) + y[i] * Place[i]
      BY <2>2, <2>5, NumberSteps
    <3> QED BY <2>2, <2>3, <3>1
  <2>9. N0 \in Nat /\ N0 < p * pd
    BY <1>6, <1>14, <2>3, <2>4
  <2>10. C <= l
    BY <1>5, <1>11, <2>7
  <2>11. C * N0 < C * (p * pd)
    <3>1. p * pd \in Int
      BY <2>4, ProductInt
    <3> QED BY <1>11, <2>9, <3>1, ProductLess
  <2>12. C * (p * pd) <= (l * p) * pd
    <3>1. PICK pp : pp = p * pd
      OBVIOUS
    <3>2. pp \in Nat
      BY <2>4, <3>1, ProductNat
    <3>3. pp * C <= pp * l /\ pp * C = C * pp /\ pp * l = l * pp
      BY <1>11, <2>7, <2>10, <3>2, ProductLeq, Commutes
    <3>4. l * (p * pd) = (l * p) * pd
      BY <2>4, <2>7, Associates
    <3> QED BY <3>1, <3>3, <3>4
  <2>13. (l * p) * pd <= (e + l * p) * pd
    <3>1. PICK f : f = l * p
      OBVIOUS
    <3>2. f \in Nat
      BY <2>4, <2>7, <3>1, ProductNat
    <3>3. pd * f <= pd * (e + f) /\ pd * f = f * pd /\ pd * (e + f) = (e + f) * pd
      <4>1. e + f \in Int /\ f <= e + f
        BY <2>6, <3>2
      <4> QED BY <2>4, <3>2, <4>1, ProductLeq, Commutes
    <3> QED BY <3>1, <3>3
  <2>14. C * N0 \in Int /\ C * (p * pd) \in Int /\ (l * p) * pd \in Int /\ (e + l * p) * pd \in Int
    <3>1. p * pd \in Int /\ l * p \in Int
      BY <2>4, <2>7, ProductInt
    <3>2. e + l * p \in Int
      BY <2>6, <3>1
    <3> QED BY <1>11, <2>4, <2>9, <3>1, <3>2, ProductInt
  <2>15. C * N0 < (e + l * p) * pd
    BY <2>11, <2>12, <2>13, <2>14
  <2> QED BY <1>18, <1>25, <2>1, <2>3, <2>8, <2>15
\* The invariant.
<1>27. Number(y, MaxLimbs) = Number(v, MaxLimbs) * Twos[sh]
  <2>1. PICK e : e = Number(b, K)
    OBVIOUS
  <2>2. e \in Int /\ Number(v, MaxLimbs) = e
    BY <1>2, <1>6, <1>14, <2>1
  <2>3. C * e = e * C
    BY <1>11, <2>2, Commutes
  <2> QED BY <1>10, <1>14, <1>17, <1>18, <2>1, <2>2, <2>3
<1>28. Number(q, MaxLimbs) = 0 /\ q \in [0 .. (MaxLimbs - 1) -> 0 .. (B - 1)]
       /\ \A i \in 0 .. (MaxLimbs - 1) : q[i] = 0
  <2>1. MaxLimbs \in 0 .. (MaxLimbs + 1)
    BY <1>5
  <2>2. q = [i \in 0 .. (MaxLimbs - 1) |-> 0] /\ 0 \in 0 .. (B - 1)
    BY <1>1, <1>5 DEF Zero
  <2>3. Number(q, MaxLimbs) = 0
    BY <1>1, <2>1, ZeroValue
  <2> QED BY <2>2, <2>3
<1>29. Number(u, MaxLimbs) * Twos[sh]
         = Number(q, MaxLimbs) * Number(y, MaxLimbs) + Number(x, MaxLimbs + 1)
  <2>1. PICK e, f : e = Number(a, M) /\ f = Number(y, MaxLimbs)
    OBVIOUS
  <2>2. e \in Int /\ Number(u, MaxLimbs) = e
    BY <1>2, <1>6, <1>14, <2>1
  <2>3. f \in Int
    <3>1. Number(b, K) \in Int
      BY <1>6, <1>14
    <3> QED BY <1>11, <1>14, <1>17, <1>18, <2>1, <3>1, ProductInt
  <2>4. Number(x, MaxLimbs + 1) = C * e /\ C * e = e * C /\ C * e \in Int
    BY <1>11, <1>14, <1>25, <2>1, <2>2, Commutes
  <2>5. 0 * f = 0
    BY <2>3
  <2> QED BY <1>10, <1>28, <2>1, <2>2, <2>4, <2>5
<1>30. Dividing'
  <2>1. n' >= 2 /\ m' >= n' /\ s' \in 0 .. (LimbBits - 1) /\ j' \in -1 .. (m' - n') /\ r' = Zero(MaxLimbs)
    BY <1>1, <1>2, <1>3, <1>6, <1>9
  <2>2. /\ un' \in [0 .. MaxLimbs -> 0 .. (B - 1)]
        /\ vn' \in [0 .. (MaxLimbs - 1) -> 0 .. (B - 1)]
        /\ q' \in [0 .. (MaxLimbs - 1) -> 0 .. (B - 1)]
    BY <1>2, <1>3, <1>13, <1>23, <1>28
  <2>3. \A i \in 0 .. MaxLimbs : i > j' + n' => un'[i] = 0
    <3>1. j' + n' = m
      BY <1>3, <1>6
    <3> QED BY <1>2, <1>22, <3>1
  <2>4. \A i \in 0 .. (MaxLimbs - 1) : i <= j' => q'[i] = 0
    BY <1>3, <1>28
  <2>5. \A i \in 0 .. (MaxLimbs - 1) : i >= n' => vn'[i] = 0
    <3> TAKE i \in 0 .. (MaxLimbs - 1)
    <3>1. n' = n /\ i \in Int /\ n \in Int
      BY <1>3, <1>5, <1>6
    <3>2. i >= n => y[i] = 0
      <4> SUFFICES ASSUME i >= n PROVE y[i] = 0
        OBVIOUS
      <4>1. ~(i < n)
        BY <3>1
      <4> QED BY <1>12, <4>1
    <3> QED BY <1>2, <3>1, <3>2
  <2>6. 2 * vn'[n' - 1] >= B
    BY <1>2, <1>3, <1>19
  <2>7. Number(vn', MaxLimbs) = Number(v', MaxLimbs) * Twos[s']
    BY <1>2, <1>3, <1>27
  <2>8. Number(u', MaxLimbs) * Twos[s']
          = Number(q', MaxLimbs) * Number(vn', MaxLimbs) + Number(un', MaxLimbs + 1)
    BY <1>2, <1>3, <1>29
  <2>9. Number(un', MaxLimbs + 1) < Number(vn', MaxLimbs) * Place[j' + 1]
    BY <1>2, <1>3, <1>14, <1>26
  <2> QED BY <2>1, <2>2, <2>3, <2>4, <2>5, <2>6, <2>7, <2>8, <2>9 DEF Dividing
<1> QED BY <1>3, <1>4, <1>30 DEF DivInv

\* The rest as the window from d on and what is below it.
Split(y, d) ==
  /\ Ready(y, d)
  /\ Number(un, MaxLimbs + 1) = Number(un, d) + Place[d] * Number(y, n + 1)
  /\ Number(un, d) \in Nat /\ Number(un, d) < Place[d]
  /\ Number(vn, MaxLimbs) = Number(vn, n)
  /\ Number(vn, n) \in Nat /\ Number(vn, n) < Place[n]

\* Before a digit is taken out the rest splits so.
LEMMA DigitReady ==
  ASSUME Operands, Dividing, j >= 0
  PROVE  \E y : Split(y, j)
<1>1. PICK d, K, L, x, vv : d = j /\ K = n /\ L = MaxLimbs + 1 /\ x = un /\ vv = vn
  OBVIOUS
<1>2. MaxLimbs \in Nat /\ MaxLimbs > 0 /\ B \in Nat /\ B >= 2
  BY TwosSteps, BaseFacts
<1>3. m \in 0 .. MaxLimbs /\ n \in 1 .. MaxLimbs
  BY OperandFacts
<1>4. /\ n >= 2 /\ m >= n /\ j \in -1 .. (m - n)
      /\ x \in [0 .. MaxLimbs -> 0 .. (B - 1)]
      /\ vv \in [0 .. (MaxLimbs - 1) -> 0 .. (B - 1)]
      /\ 2 * vv[n - 1] >= B
      /\ \A i \in 0 .. MaxLimbs : i > j + n => x[i] = 0
      /\ \A i \in 0 .. (MaxLimbs - 1) : i >= n => vv[i] = 0
      /\ Number(x, MaxLimbs + 1) < Number(vv, MaxLimbs) * Place[j + 1]
  BY <1>1 DEF Dividing
<1>5. /\ K \in Nat /\ K >= 2 /\ d \in Nat /\ d + K <= MaxLimbs /\ L \in Nat /\ L \in 0 .. (MaxLimbs + 1)
      /\ K \in 0 .. (MaxLimbs + 1) /\ K \in 0 .. MaxLimbs /\ d \in 0 .. MaxLimbs
      /\ d \in 0 .. (MaxLimbs + 1) /\ L \in 0 .. L /\ d \in 0 .. L /\ K \in 0 .. K
      /\ MaxLimbs \in 0 .. (MaxLimbs + 1) /\ MaxLimbs \in 0 .. MaxLimbs
      /\ d + (K + 1) \in 0 .. L /\ K + 1 \in 0 .. (K + 1) /\ K + 1 \in Nat /\ K + 1 \in 0 .. (MaxLimbs + 1)
      /\ d + (K + 1) <= MaxLimbs + 1 /\ L >= d + (K + 1)
  BY <1>1, <1>2, <1>3, <1>4
<1>6. PICK y : y = [i \in 0 .. K |-> x[d + i]]
  OBVIOUS
<1>7. \A i \in 0 .. (L - 1) : x[i] \in 0 .. (B - 1) /\ x[i] \in Int /\ (i >= d + (K + 1) => x[i] = 0)
  <2> TAKE i \in 0 .. (L - 1)
  <2>1. i \in 0 .. MaxLimbs
    BY <1>1, <1>2
  <2>2. x[i] \in 0 .. (B - 1)
    BY <1>4, <2>1
  <2>3. i >= d + (K + 1) => i > j + n
    BY <1>1, <1>5
  <2> QED BY <1>2, <1>4, <2>1, <2>2, <2>3
<1>8. \A i \in 0 .. (K + 1 - 1) : y[i] = x[d + i] /\ y[i] \in 0 .. (B - 1)
  <2> TAKE i \in 0 .. (K + 1 - 1)
  <2>1. i \in 0 .. K /\ d + i \in 0 .. MaxLimbs
    BY <1>2, <1>5
  <2>2. x[d + i] \in 0 .. (B - 1)
    BY <1>4, <2>1
  <2> QED BY <1>6, <2>1, <2>2
<1>9. Number(x, L) = Number(x, d) + Place[d] * Number(y, K + 1)
  <2>1. \A i \in 0 .. L : i >= d + (K + 1) => Number(x, i) = Number(x, d + (K + 1))
    BY <1>5, <1>7, HighZero
  <2>2. \A i \in 0 .. (d + (K + 1) - 1) : x[i] \in Int
    <3> TAKE i \in 0 .. (d + (K + 1) - 1)
    <3>1. i \in 0 .. (L - 1)
      BY <1>2, <1>1, <1>5
    <3> QED BY <1>7, <3>1
  <2>3. PICK M : M = K + 1
    OBVIOUS
  <2>4. \A i \in 0 .. M : Number(x, d + i) = Number(x, d) + Place[d] * Number(y, i)
    <3>1. /\ M \in Nat /\ d + M <= MaxLimbs + 1 /\ \A i \in 0 .. (d + M - 1) : x[i] \in Int
          /\ \A i \in 0 .. (M - 1) : y[i] = x[d + i]
      BY <1>5, <1>8, <2>2, <2>3
    <3> QED BY <1>5, <3>1, WindowValue
  <2> QED BY <1>5, <2>1, <2>3, <2>4
<1>10. Number(x, d) \in Nat /\ Number(x, d) < Place[d]
  BY <1>5, <1>7, NumberBound
<1>11. \A i \in 0 .. (MaxLimbs - 1) : vv[i] \in 0 .. (B - 1) /\ vv[i] \in Int /\ (i >= K => vv[i] = 0)
  <2> TAKE i \in 0 .. (MaxLimbs - 1)
  <2>1. vv[i] \in 0 .. (B - 1)
    BY <1>4
  <2> QED BY <1>1, <1>2, <1>4, <2>1
<1>12. Number(vv, MaxLimbs) = Number(vv, K)
  <2>1. PICK M : M = MaxLimbs
    OBVIOUS
  <2>2. /\ M \in 0 .. (MaxLimbs + 1) /\ K \in 0 .. M /\ M \in 0 .. M /\ M >= K
        /\ \A i \in 0 .. (M - 1) : vv[i] \in Int /\ (i >= K => vv[i] = 0)
    BY <1>2, <1>5, <1>11, <2>1
  <2>3. \A i \in 0 .. M : i >= K => Number(vv, i) = Number(vv, K)
    BY <2>2, HighZero
  <2> QED BY <2>1, <2>2, <2>3
<1>13. \A i \in 0 .. (K - 1) : vv[i] \in 0 .. (B - 1)
  <2> TAKE i \in 0 .. (K - 1)
  <2>1. i \in 0 .. (MaxLimbs - 1)
    BY <1>2, <1>5
  <2> QED BY <1>11, <2>1
<1>14. Number(vv, K) \in Nat /\ Number(vv, K) < Place[K]
  BY <1>5, <1>13, NumberBound
<1>15. Number(y, K + 1) < Number(vv, K) * B
  <2>1. PICK p, X, V, low : p = Place[d] /\ X = Number(y, K + 1) /\ V = Number(vv, K) /\ low = Number(x, d)
    OBVIOUS
  <2>2. p \in Nat /\ p > 0 /\ Place[d + 1] = B * p
    BY <1>5, <2>1, PlaceSteps
  <2>3. X \in Nat
    <3>1. PICK M : M = K + 1
      OBVIOUS
    <3>2. /\ M \in 0 .. (MaxLimbs + 1) /\ M \in 0 .. M
          /\ \A i \in 0 .. (M - 1) : y[i] \in 0 .. (B - 1)
      BY <1>5, <1>8, <3>1
    <3>3. Number(y, M) \in Nat
      BY <3>2, NumberBound
    <3> QED BY <2>1, <3>1, <3>3
  <2>4. V \in Nat /\ low \in Nat
    BY <1>10, <1>14, <2>1
  <2>5. low + p * X < V * (B * p)
    BY <1>1, <1>4, <1>9, <1>12, <2>1, <2>2
  <2>6. V * (B * p) = p * (V * B)
    <3>1. V * (B * p) = (V * B) * p /\ V * B \in Int
      BY <1>2, <2>2, <2>4, Associates, ProductInt
    <3> QED BY <2>2, <3>1, Commutes
  <2>7. p * X < p * (V * B)
    <3>1. PICK e, f : e = p * X /\ f = p * (V * B)
      OBVIOUS
    <3>2. V * B \in Int
      BY <1>2, <2>4, ProductInt
    <3>3. e \in Int /\ f \in Int
      BY <2>2, <2>3, <3>1, <3>2, ProductInt
    <3>4. low + e < f
      BY <2>5, <2>6, <3>1
    <3> QED BY <2>4, <3>1, <3>3, <3>4
  <2>8. X < V * B
    <3>1. V * B \in Int /\ X \in Int
      BY <1>2, <2>3, <2>4, ProductInt
    <3> QED BY <2>2, <2>7, <3>1, LessFromProduct
  <2> QED BY <2>1, <2>8
<1>16. Ready(y, d)
  <2>1. \A i \in 0 .. n : y[i] = un[d + i]
    <3> TAKE i \in 0 .. n
    <3>1. i \in 0 .. (K + 1 - 1)
      BY <1>1, <1>5
    <3> QED BY <1>1, <1>8, <3>1
  <2> QED BY <1>1, <1>4, <1>5, <1>13, <1>15, <2>1 DEF Ready
<1>17. Split(y, d)
  BY <1>1, <1>9, <1>10, <1>12, <1>14, <1>16 DEF Split
<1> QED BY <1>1, <1>17

\* Limbs y that are K of those of x, from d on.
Within(y, x, d, K) ==
  /\ d \in Nat /\ K \in Nat /\ d + K <= MaxLimbs + 1
  /\ \A i \in 0 .. (d + K - 1) : x[i] \in Int
  /\ \A i \in 0 .. (K - 1) : y[i] = x[d + i]

\* What such limbs add to the number.
LEMMA WithinValue ==
  ASSUME NEW d, NEW K, NEW x, NEW y, Within(y, x, d, K)
  PROVE  \A i \in 0 .. K : Number(x, d + i) = Number(x, d) + Place[d] * Number(y, i)
<1> USE DEF Within
<1> QED BY WindowValue

\* Taking out a digit keeps the equation and the bound.
LEMMA DigitSums ==
  ASSUME NEW U \in Int, NEW Q \in Int, NEW V \in Nat, NEW low \in Nat, NEW p \in Nat, NEW X \in Int,
         NEW W \in Nat, NEW q1 \in Int,
         U = Q * V + (low + p * X), W = X - q1 * V, W < V, low < p
  PROVE  U = (Q + q1 * p) * V + (low + p * W) /\ low + p * W < V * p
<1>1. PICK a, b, c, e : a = q1 * V /\ b = Q * V /\ c = p * X /\ e = q1 * p
  OBVIOUS
<1>2. a \in Int /\ b \in Int /\ c \in Int /\ e \in Int
  BY <1>1, ProductInt
<1>3. p * W = c - p * a
  <2>1. p * (X - a) = p * X - p * a
    BY <1>2, Distributes
  <2> QED BY <1>1, <2>1
<1>4. (Q + e) * V = b + p * a
  <2>1. (Q + e) * V = Q * V + e * V
    <3>1. V * (Q + e) = V * Q + V * e /\ V * Q = Q * V /\ V * e = e * V /\ V * (Q + e) = (Q + e) * V
      <4>1. Q + e \in Int
        BY <1>2
      <4> QED BY <1>2, <4>1, Distributes, Commutes
    <3> QED BY <3>1
  <2>2. e * V = p * a
    <3>1. (p * q1) * V = p * (q1 * V) /\ p * q1 = q1 * p
      BY Associates, Commutes
    <3> QED BY <1>1, <3>1
  <2> QED BY <1>1, <2>1, <2>2
<1>5. PICK f : f = p * a
  OBVIOUS
<1>6. f \in Int
  BY <1>2, <1>5, ProductInt
<1>7. U = (Q + q1 * p) * V + (low + p * W)
  <2>1. U = b + (low + c)
    BY <1>1
  <2>2. U = (b + f) + (low + (c - f))
    BY <1>2, <1>6, <2>1
  <2> QED BY <1>1, <1>3, <1>4, <1>5, <2>2
<1>8. low + p * W < V * p
  <2>1. p * (W + 1) <= p * V /\ p * (W + 1) = p * W + p * 1 /\ p * 1 = p /\ p * V = V * p
    BY ProductLeq, Distributes, Commutes
  <2>2. PICK g, h : g = p * W /\ h = V * p
    OBVIOUS
  <2>3. g \in Int /\ h \in Int
    BY <2>2, ProductInt
  <2>4. g + p <= h
    BY <2>1, <2>2
  <2> QED BY <2>2, <2>3, <2>4
<1> QED BY <1>7, <1>8

\* A step that finds a digit and moves on keeps what Dividing says.
LEMMA DigitStep ==
  ASSUME Operands, Dividing, j >= 0, NEW y, Split(y, j), NEW q1, Found(un', q1, y, j),
         q' = [q EXCEPT ![j] = q1 % B], j' = j - 1,
         u' = u, v' = v, m' = m, n' = n, s' = s, vn' = vn, r' = r
  PROVE  Dividing'
<1>1. PICK d, K, L, x, z, vv, a, b : /\ d = j /\ K = n /\ L = MaxLimbs + 1 /\ x = un /\ z = un' /\ vv = vn
                                    /\ a = q /\ b = q'
  OBVIOUS
<1>2. MaxLimbs \in Nat /\ MaxLimbs > 0 /\ B \in Nat /\ B >= 2
  BY TwosSteps, BaseFacts
<1>3. m \in 0 .. MaxLimbs /\ n \in 1 .. MaxLimbs /\ Number(u, MaxLimbs) \in Nat
  BY OperandFacts
<1>4. /\ n >= 2 /\ m >= n /\ s \in 0 .. (LimbBits - 1) /\ j \in -1 .. (m - n)
      /\ x \in [0 .. MaxLimbs -> 0 .. (B - 1)]
      /\ vn \in [0 .. (MaxLimbs - 1) -> 0 .. (B - 1)]
      /\ a \in [0 .. (MaxLimbs - 1) -> 0 .. (B - 1)]
      /\ r = Zero(MaxLimbs)
      /\ \A i \in 0 .. MaxLimbs : i > j + n => x[i] = 0
      /\ \A i \in 0 .. (MaxLimbs - 1) : i <= j => a[i] = 0
      /\ \A i \in 0 .. (MaxLimbs - 1) : i >= n => vn[i] = 0
      /\ 2 * vn[n - 1] >= B
      /\ Number(vn, MaxLimbs) = Number(v, MaxLimbs) * Twos[s]
      /\ Number(u, MaxLimbs) * Twos[s]
           = Number(a, MaxLimbs) * Number(vn, MaxLimbs) + Number(x, MaxLimbs + 1)
  BY <1>1 DEF Dividing
<1>5. /\ K \in Nat /\ K >= 2 /\ d \in Nat /\ d + K <= MaxLimbs /\ L \in Nat /\ L \in 0 .. (MaxLimbs + 1)
      /\ K \in 0 .. MaxLimbs /\ d \in 0 .. MaxLimbs
      /\ d \in 0 .. (MaxLimbs + 1) /\ L \in 0 .. L /\ d \in 0 .. d /\ K \in 0 .. K
      /\ d + (K + 1) \in 0 .. L /\ K + 1 \in 0 .. (K + 1) /\ K + 1 \in Nat /\ K + 1 \in 0 .. (MaxLimbs + 1)
      /\ d + (K + 1) <= MaxLimbs + 1 /\ L >= d + (K + 1) /\ d \in 0 .. (MaxLimbs - 1)
      /\ K \in 0 .. ((K + 1) - 1) /\ d + K \in 0 .. MaxLimbs /\ (d - 1) + K = (d + K) - 1
  <2>1. K \in Nat /\ K >= 2 /\ d \in Nat /\ d + K <= MaxLimbs /\ L = MaxLimbs + 1
    BY <1>1, <1>2, <1>3, <1>4
  <2>2. d + (K + 1) <= MaxLimbs + 1 /\ K <= MaxLimbs /\ d <= MaxLimbs - 1
    BY <1>2, <2>1
  <2>3. (d - 1) + K = (d + K) - 1 /\ (K + 1) - 1 = K
    BY <2>1
  <2> QED BY <1>2, <2>1, <2>2, <2>3
<1>6. /\ Number(x, L) = Number(x, d) + Place[d] * Number(y, K + 1)
      /\ Number(x, d) \in Nat /\ Number(x, d) < Place[d]
      /\ Number(vv, MaxLimbs) = Number(vv, K)
      /\ Number(vv, K) \in Nat /\ Number(vv, K) < Place[K]
      /\ Ready(y, d)
  BY <1>1 DEF Split
<1>7. /\ z \in [0 .. MaxLimbs -> 0 .. (B - 1)]
      /\ \A i \in 0 .. MaxLimbs : i \notin d .. (d + K) => z[i] = x[i]
      /\ q1 \in 0 .. (B - 1)
  BY <1>1 DEF Found, Around
<1>8. PICK w : /\ \A i \in 0 .. K : w[i] = z[d + i]
               /\ Number(w, K + 1) = Number(y, K + 1) - q1 * Number(vv, K)
               /\ Number(w, K + 1) \in Nat /\ Number(w, K + 1) < Number(vv, K)
  BY <1>1 DEF Found, Window
<1>9. PICK p, X, V, low, W, M : /\ p = Place[d] /\ X = Number(y, K + 1) /\ V = Number(vv, K) /\ low = Number(x, d)
                                /\ W = Number(w, K + 1) /\ M = K + 1
  OBVIOUS
<1>10. p \in Nat /\ p > 0 /\ V \in Nat /\ low \in Nat /\ low < p /\ W \in Nat /\ W < V /\ V < Place[K]
       /\ W = X - q1 * V /\ q1 \in Int /\ X \in Int
  <2>1. p \in Nat /\ p > 0
    BY <1>5, <1>9, PlaceSteps
  <2>2. V \in Nat /\ low \in Nat /\ low < p /\ W \in Nat /\ W < V /\ V < Place[K] /\ W = X - q1 * V
    BY <1>6, <1>8, <1>9
  <2>3. q1 \in Int
    BY <1>2, <1>7
  <2>4. X \in Int
    <3>1. \A i \in 0 .. (M - 1) : y[i] \in Int
      <4> TAKE i \in 0 .. (M - 1)
      <4>1. i \in 0 .. n /\ d + i \in 0 .. MaxLimbs
        BY <1>1, <1>2, <1>5, <1>9
      <4>2. y[i] = un[d + i] /\ un[d + i] \in 0 .. (B - 1)
        BY <1>6, <4>1 DEF Ready
      <4> QED BY <1>2, <4>2
    <3>2. M \in 0 .. (MaxLimbs + 1) /\ M \in 0 .. M
      BY <1>5, <1>9
    <3>3. Number(y, M) \in Int
      BY <3>1, <3>2, NumberSteps
    <3> QED BY <1>9, <3>3
  <2> QED BY <2>1, <2>2, <2>3, <2>4
<1>11. \A i \in 0 .. (M - 1) : w[i] = z[d + i] /\ w[i] \in 0 .. (B - 1) /\ w[i] \in Int
  <2> TAKE i \in 0 .. (M - 1)
  <2>1. i \in 0 .. K /\ d + i \in 0 .. MaxLimbs
    BY <1>2, <1>5, <1>9
  <2>2. z[d + i] \in 0 .. (B - 1)
    BY <1>7, <2>1
  <2> QED BY <1>2, <1>8, <2>1, <2>2
\* The window has no limb beyond the divisor's.
<1>12. w[K] = 0
  <2>1. PICK e, f, g : e = w[K] /\ f = Place[K] /\ g = Number(w, K)
    OBVIOUS
  <2>2. /\ M \in 0 .. (MaxLimbs + 1) /\ K \in 0 .. (M - 1) /\ K \in 0 .. M
        /\ \A i \in 0 .. (M - 1) : w[i] \in 0 .. (B - 1)
        /\ \A i \in 0 .. (M - 1) : w[i] \in Int
    BY <1>5, <1>9, <1>11
  <2>3. Number(w, K + 1) = Number(w, K) + w[K] * Place[K]
    BY <2>2, NumberSteps
  <2>4. g \in Nat
    BY <2>1, <2>2, NumberBound
  <2>5. e \in Nat /\ f \in Nat
    <3>1. K \in 0 .. (MaxLimbs + 1)
      BY <1>2, <1>5
    <3>2. f \in Nat
      BY <2>1, <3>1, PlaceSteps
    <3>3. e \in 0 .. (B - 1)
      BY <2>1, <2>2
    <3> QED BY <1>2, <3>2, <3>3
  <2>6. e >= 1 => f * 1 <= f * e
    BY <2>5, ProductLeq
  <2>7. f * e = e * f /\ e * f \in Int
    BY <2>5, Commutes
  <2>8. W = g + e * f
    BY <1>9, <2>1, <2>3
  <2>9. W < f
    BY <1>10, <2>1, <2>5
  <2>10. f * 1 = f
    BY <2>5
  <2>11. PICK h : h = e * f
    OBVIOUS
  <2>12. e = 0
    BY <2>4, <2>5, <2>6, <2>7, <2>8, <2>9, <2>10, <2>11
  <2> QED BY <2>1, <2>12
<1>13. \A i \in 0 .. MaxLimbs : i > (d - 1) + K => z[i] = 0
  <2> TAKE i \in 0 .. MaxLimbs
  <2>1. CASE i = d + K
    <3>1. K \in 0 .. K
      BY <1>5
    <3> QED BY <1>8, <1>12, <2>1, <3>1
  <2>2. CASE i > d + K
    <3>1. i \notin d .. (d + K)
      BY <1>5, <2>2
    <3>2. i > j + n
      BY <1>1, <2>2
    <3> QED BY <1>4, <1>7, <3>1, <3>2
  <2> QED BY <1>2, <1>5, <2>1, <2>2
<1>14. Number(z, L) = low + p * W
  <2>1. \A i \in 0 .. (L - 1) : z[i] \in Int /\ (i >= d + (K + 1) => z[i] = 0)
    <3> TAKE i \in 0 .. (L - 1)
    <3>1. i \in 0 .. MaxLimbs
      BY <1>1, <1>2
    <3>2. z[i] \in 0 .. (B - 1)
      BY <1>7, <3>1
    <3>3. i >= d + (K + 1) => i > (d - 1) + K
      BY <1>5
    <3> QED BY <1>2, <1>13, <3>1, <3>2, <3>3
  <2>2. \A i \in 0 .. L : i >= d + (K + 1) => Number(z, i) = Number(z, d + (K + 1))
    BY <1>5, <2>1, HighZero
  <2>3. \A i \in 0 .. M : Number(z, d + i) = Number(z, d) + Place[d] * Number(w, i)
    <3>1. \A i \in 0 .. (d + M - 1) : z[i] \in Int
      <4> TAKE i \in 0 .. (d + M - 1)
      <4>1. i \in 0 .. (L - 1)
        BY <1>1, <1>2, <1>5, <1>9
      <4> QED BY <2>1, <4>1
    <3>2. M \in Nat /\ d \in Nat /\ d + M <= MaxLimbs + 1
      BY <1>5, <1>9
    <3>3. \A i \in 0 .. (M - 1) : w[i] = z[d + i]
      BY <1>11
    <3>4. \A i \in 0 .. M : Number(z, d + i) = Number(z, d) + Place[d] * Number(w, i)
      <4>1. Within(w, z, d, M)
        BY <3>1, <3>2, <3>3 DEF Within
      <4> QED BY <4>1, WithinValue
    <3> QED BY <3>4
  <2>4. Number(z, d) = Number(x, d)
    <3>1. \A i \in 0 .. (d - 1) : x[i] \in Int /\ z[i] = x[i]
      <4> TAKE i \in 0 .. (d - 1)
      <4>1. i \in 0 .. MaxLimbs /\ i \notin d .. (d + K)
        BY <1>2, <1>5
      <4>2. x[i] \in 0 .. (B - 1)
        BY <1>4, <4>1
      <4> QED BY <1>2, <1>7, <4>1, <4>2
    <3>2. \A i \in 0 .. d : Number(z, i) = Number(x, i)
      BY <1>5, <3>1, SameLimbs
    <3> QED BY <1>5, <3>2
  <2>5. Number(z, L) = Number(z, d + M) /\ M \in 0 .. M
    BY <1>5, <1>9, <2>2
  <2> QED BY <1>9, <2>3, <2>4, <2>5
\* The new digit of the quotient.
<1>15. q1 % B = q1
  BY <1>2, <1>7
<1>16. b = [a EXCEPT ![d] = q1]
  BY <1>1, <1>15
<1>17. \A i \in 0 .. (MaxLimbs - 1) : b[i] = IF i = d THEN q1 ELSE a[i]
  BY <1>4, <1>16
<1>18. b \in [0 .. (MaxLimbs - 1) -> 0 .. (B - 1)]
  BY <1>4, <1>5, <1>7, <1>16
<1>19. Number(b, MaxLimbs) = Number(a, MaxLimbs) + q1 * p
  <2>1. PICK N : N = MaxLimbs
    OBVIOUS
  <2>2. N \in 0 .. (MaxLimbs + 1) /\ d \in 0 .. (N - 1)
    BY <1>2, <1>5, <2>1
  <2>3. \A i \in 0 .. (N - 1) : a[i] \in Int /\ b[i] = IF i = d THEN q1 ELSE a[i]
    <3> TAKE i \in 0 .. (N - 1)
    <3>1. a[i] \in 0 .. (B - 1)
      BY <1>4, <2>1
    <3> QED BY <1>2, <1>17, <2>1, <3>1
  <2>4. a[d] = 0
    BY <1>1, <1>4, <1>5
  <2>5. Number(b, N) = Number(a, N) + q1 * Place[d]
    BY <1>10, <2>2, <2>3, <2>4, OneMoreLimb
  <2> QED BY <1>9, <2>1, <2>5
<1>20. Number(a, MaxLimbs) \in Int
  <2>1. PICK N : N = MaxLimbs
    OBVIOUS
  <2>2. N \in 0 .. (MaxLimbs + 1) /\ N \in 0 .. N
    BY <1>2, <2>1
  <2>3. \A i \in 0 .. (N - 1) : a[i] \in Int
    <3> TAKE i \in 0 .. (N - 1)
    <3>1. a[i] \in 0 .. (B - 1)
      BY <1>4, <2>1
    <3> QED BY <1>2, <3>1
  <2> QED BY <2>1, <2>2, <2>3, NumberSteps
<1>21. PICK U, Q : U = Number(u, MaxLimbs) * Twos[s] /\ Q = Number(a, MaxLimbs)
  OBVIOUS
<1>22. U \in Int /\ Q \in Int
  <2>1. Twos[s] \in Int
    BY <1>4, ShiftFacts
  <2> QED BY <1>3, <1>20, <1>21, <2>1, ProductInt
<1>23. U = (Q + q1 * p) * V + (low + p * W) /\ low + p * W < V * p
  <2>1. U = Q * V + (low + p * X)
    BY <1>1, <1>4, <1>6, <1>9, <1>21
  <2> QED BY <1>10, <1>22, <2>1, DigitSums
<1>24. V = Number(vn, MaxLimbs)
  BY <1>1, <1>6, <1>9
\* The invariant.
<1>25. n' >= 2 /\ m' >= n' /\ s' \in 0 .. (LimbBits - 1) /\ j' \in -1 .. (m' - n') /\ r' = Zero(MaxLimbs)
  BY <1>3, <1>4
<1>26. /\ un' \in [0 .. MaxLimbs -> 0 .. (B - 1)]
       /\ vn' \in [0 .. (MaxLimbs - 1) -> 0 .. (B - 1)]
       /\ q' \in [0 .. (MaxLimbs - 1) -> 0 .. (B - 1)]
  BY <1>1, <1>4, <1>7, <1>18
<1>27. \A i \in 0 .. MaxLimbs : i > j' + n' => un'[i] = 0
  BY <1>1, <1>13
<1>28. \A i \in 0 .. (MaxLimbs - 1) : i <= j' => q'[i] = 0
  <2> SUFFICES ASSUME NEW i \in 0 .. (MaxLimbs - 1), i <= d - 1 PROVE b[i] = 0
    BY <1>1
  <2>1. i # d /\ i <= j
    BY <1>1, <1>5
  <2> QED BY <1>4, <1>17, <2>1
<1>29. \A i \in 0 .. (MaxLimbs - 1) : i >= n' => vn'[i] = 0
  BY <1>4
<1>30. 2 * vn'[n' - 1] >= B
  BY <1>4
<1>31. Number(vn', MaxLimbs) = Number(v', MaxLimbs) * Twos[s']
  BY <1>4
<1>32. Number(u', MaxLimbs) * Twos[s']
         = Number(q', MaxLimbs) * Number(vn', MaxLimbs) + Number(un', MaxLimbs + 1)
  <2>1. Number(u', MaxLimbs) * Twos[s'] = U /\ Number(un', MaxLimbs + 1) = low + p * W
    BY <1>1, <1>14, <1>21
  <2>2. Number(q', MaxLimbs) = Q + q1 * p /\ Number(vn', MaxLimbs) = V
    BY <1>1, <1>19, <1>21, <1>24
  <2> QED BY <1>23, <2>1, <2>2
<1>33. Number(un', MaxLimbs + 1) < Number(vn', MaxLimbs) * Place[j' + 1]
  <2>1. j' + 1 = d
    BY <1>1, <1>5
  <2>2. Number(un', MaxLimbs + 1) = low + p * W /\ Number(vn', MaxLimbs) = V
    BY <1>1, <1>14, <1>24
  <2> QED BY <1>9, <1>23, <2>1, <2>2
<1> QED BY <1>25, <1>26, <1>27, <1>28, <1>29, <1>30, <1>31, <1>32, <1>33 DEF Dividing

\* Both ways to end the loop body find a digit.
LEMMA DigitInv == DivInv /\ Digit => DivInv'
<1> SUFFICES ASSUME DivInv, Digit PROVE DivInv'
  OBVIOUS
<1>1. Operands /\ Dividing /\ j >= 0
  BY DEF DivInv, Digit
<1>2. /\ u' = u /\ v' = v /\ m' = m /\ n' = n /\ s' = s /\ vn' = vn /\ r' = r /\ pc' = pc /\ pc = "digits"
      /\ ~Subtract(un, j, Estimate(un, j)).negative
      /\ un' = Subtract(un, j, Estimate(un, j)).limbs /\ q' = [q EXCEPT ![j] = Estimate(un, j) % B]
      /\ j' = j - 1
  BY DEF Digit
<1>3. Operands'
  BY <1>1, <1>2 DEF Operands
<1>4. PICK y : Split(y, j)
  BY <1>1, DigitReady
<1>5. PICK d, q1, z : d = j /\ q1 = Estimate(un, j) /\ z = un'
  OBVIOUS
<1>6. Found(Subtract(un, d, Estimate(un, d)).limbs, Estimate(un, d), y, d)
  <2>1. Ready(y, d) /\ ~Subtract(un, d, Estimate(un, d)).negative
    BY <1>2, <1>4, <1>5, Zenon DEF Split
  <2> QED BY <2>1, KeptDigit
<1>7. Found(un', q1, y, j)
  BY <1>2, <1>5, <1>6, Zenon
<1>8. q' = [q EXCEPT ![j] = q1 % B]
  BY <1>2, <1>5, Zenon
<1>9. Dividing'
  BY <1>1, <1>2, <1>4, <1>7, <1>8, DigitStep
<1> QED BY <1>2, <1>3, <1>9 DEF DivInv

\* The estimate was one too large.
LEMMA DigitAddBackInv == DivInv /\ DigitAddBack => DivInv'
<1> SUFFICES ASSUME DivInv, DigitAddBack PROVE DivInv'
  OBVIOUS
<1>1. Operands /\ Dividing /\ j >= 0
  BY DEF DivInv, DigitAddBack
<1>2. /\ u' = u /\ v' = v /\ m' = m /\ n' = n /\ s' = s /\ vn' = vn /\ r' = r /\ pc' = pc /\ pc = "digits"
      /\ Subtract(un, j, Estimate(un, j)).negative
      /\ un' = AddBack(Subtract(un, j, Estimate(un, j)).limbs, j)
      /\ q' = [q EXCEPT ![j] = (Estimate(un, j) - 1) % B]
      /\ j' = j - 1
  BY DEF DigitAddBack
<1>3. Operands'
  BY <1>1, <1>2 DEF Operands
<1>4. PICK y : Split(y, j)
  BY <1>1, DigitReady
<1>5. PICK d, q1, z : d = j /\ q1 = Estimate(un, j) - 1 /\ z = un'
  OBVIOUS
<1>6. Found(AddBack(Subtract(un, d, Estimate(un, d)).limbs, d), Estimate(un, d) - 1, y, d)
  <2>1. Ready(y, d) /\ Subtract(un, d, Estimate(un, d)).negative
    BY <1>2, <1>4, <1>5, Zenon DEF Split
  <2> QED BY <2>1, CorrectedDigit
<1>7. Found(un', q1, y, j)
  BY <1>2, <1>5, <1>6, Zenon
<1>8. q' = [q EXCEPT ![j] = q1 % B]
  BY <1>2, <1>5, Zenon
<1>9. Dividing'
  BY <1>1, <1>2, <1>4, <1>7, <1>8, DigitStep
<1> QED BY <1>2, <1>3, <1>9 DEF DivInv

\* A rest that is a multiple of the shift's factor C, up to less than C, is that multiple.
LEMMA ShiftedBack ==
  ASSUME NEW C \in Nat, C > 0, NEW R \in Nat, NEW y \in Int, NEW e \in Int, 0 <= e, e < C,
         C * y = R - e, NEW U \in Nat, NEW Q \in Int, NEW V \in Nat,
         U * C = Q * (V * C) + R, R < V * C
  PROVE  U \div V = Q /\ U % V = y
<1>1. PICK a, b : a = Q * V /\ b = U - a
  OBVIOUS
<1>2. a \in Int /\ b \in Int
  BY <1>1, ProductInt
<1>3. R = C * b
  <2>1. Q * (V * C) = (Q * V) * C
    BY Associates
  <2>2. C * (U - a) = C * U - C * a /\ C * U = U * C /\ C * a = a * C
    BY <1>2, Distributes, Commutes
  <2>3. PICK f, g : f = U * C /\ g = a * C
    OBVIOUS
  <2>4. f \in Int /\ g \in Int
    BY <1>2, <2>3, ProductInt
  <2>5. f = g + R
    BY <1>1, <2>1, <2>3
  <2> QED BY <1>1, <2>2, <2>3, <2>4, <2>5
<1>4. y = b
  <2>1. C * (b - y) = C * b - C * y
    BY <1>2, Distributes
  <2>2. C * (b - y) = e
    <3>1. PICK f, g : f = C * b /\ g = C * y
      OBVIOUS
    <3>2. f \in Int /\ g \in Int
      BY <1>2, <3>1, ProductInt
    <3> QED BY <1>3, <2>1, <3>1, <3>2
  <2>3. b - y >= 1 => C * 1 <= C * (b - y)
    <3>1. b - y \in Int
      BY <1>2
    <3> QED BY <3>1, ProductLeq
  <2>4. b - y <= -1 => C * (b - y) <= C * (-1)
    <3>1. b - y \in Int
      BY <1>2
    <3> QED BY <3>1, ProductLeq
  <2>5. C * 1 = C /\ C * (-1) = -C
    OBVIOUS
  <2>6. ~(b - y >= 1) /\ ~(b - y <= -1)
    BY <2>2, <2>3, <2>4, <2>5
  <2> QED BY <1>2, <2>6
<1>5. C * y = R
  BY <1>3, <1>4
<1>6. y < V
  <2>1. C * y < C * V
    BY <1>5, Commutes
  <2> QED BY <2>1, LessFromProduct
<1>7. y >= 0
  <2>1. y <= -1 => C * y <= C * (-1)
    BY ProductLeq
  <2>2. C * (-1) = -C
    OBVIOUS
  <2> QED BY <1>5, <2>1, <2>2
<1>8. U = V * Q + y
  BY <1>1, <1>2, <1>4, Commutes
<1> QED BY <1>6, <1>7, <1>8, DivUnique

\* The limbs of x moved down: what falls out of a limb's low end comes in at the high end
\* of the one below it.
MovedBack(y, x, C, D, K) ==
  /\ C \in Nat /\ C > 0 /\ D \in Nat /\ D > 0 /\ C * D = B
  /\ K \in 0 .. MaxLimbs
  /\ \A i \in 0 .. K : x[i] \in 0 .. (B - 1)
  /\ \A i \in 0 .. (K - 1) : y[i] = (x[i] \div C) + ((x[i + 1] * D) % B)

\* One limb of it.
LEMMA MovedBackLimb ==
  ASSUME NEW x, NEW y, NEW C, NEW D, NEW K, MovedBack(y, x, C, D, K), NEW i \in 0 .. (K - 1)
  PROVE  /\ y[i] \in Int
         /\ C * y[i] = (x[i] - (x[i] % C)) + B * (x[i + 1] % C)
<1>1. /\ C \in Nat /\ C > 0 /\ D \in Nat /\ D > 0 /\ C * D = B /\ K \in 0 .. MaxLimbs
      /\ B \in Nat /\ B >= 2 /\ MaxLimbs \in Nat
  BY BaseFacts, TwosSteps DEF MovedBack
<1>2. PICK a, b : a = x[i] /\ b = x[i + 1]
  OBVIOUS
<1>3. a \in 0 .. (B - 1) /\ b \in 0 .. (B - 1)
  <2>1. i \in 0 .. K /\ i + 1 \in 0 .. K
    BY <1>1
  <2> QED BY <1>2, <2>1 DEF MovedBack
<1>4. y[i] = (a \div C) + ((b * D) % B)
  BY <1>2 DEF MovedBack
<1>5. PICK ah, al, bh, bl, c : /\ ah = a \div C /\ al = a % C /\ bh = b \div C /\ bl = b % C
                               /\ c = (b * D) % B
  OBVIOUS
<1>6. /\ a \in Int /\ b \in Int /\ ah \in Int /\ al \in Int /\ bh \in Int /\ bl \in Int
      /\ a = C * ah + al /\ b = C * bh + bl
  BY <1>1, <1>3, <1>5, DivMod, DivInt
<1>7. D * C = B
  BY <1>1, Commutes
<1>8. c = D * b - B * bh
  BY <1>1, <1>3, <1>5, <1>7, ShiftedLimb
<1>9. c = D * bl
  <2>1. D * (C * bh + bl) = D * (C * bh) + D * bl /\ D * (C * bh) = (D * C) * bh
    <3>1. C * bh \in Int
      BY <1>1, <1>6, ProductInt
    <3> QED BY <1>1, <1>6, <3>1, Distributes, Associates
  <2>2. PICK f, g : f = B * bh /\ g = D * bl
    OBVIOUS
  <2>3. f \in Int /\ g \in Int
    BY <1>1, <1>6, <2>2, ProductInt
  <2>4. D * b = f + g
    BY <1>6, <1>7, <2>1, <2>2
  <2> QED BY <1>8, <2>2, <2>3, <2>4
<1>10. c \in Int
  BY <1>1, <1>6, <1>9, ProductInt
<1>11. C * (ah + c) = C * ah + B * bl
  <2>1. C * (ah + c) = C * ah + C * c
    BY <1>1, <1>6, <1>10, Distributes
  <2>2. C * (D * bl) = (C * D) * bl
    BY <1>1, <1>6, Associates
  <2> QED BY <1>1, <1>9, <2>1, <2>2
<1>12. C * ah = a - al
  <2>1. PICK f : f = C * ah
    OBVIOUS
  <2>2. f \in Int
    BY <1>1, <1>6, <2>1, ProductInt
  <2> QED BY <1>6, <2>1, <2>2
<1>13. y[i] = ah + c
  BY <1>4, <1>5
<1>14. C * y[i] = (a - al) + B * bl
  BY <1>11, <1>12, <1>13
<1>15. y[i] \in Int
  BY <1>6, <1>10, <1>13
<1>16. C * y[i] = (x[i] - (x[i] % C)) + B * (x[i + 1] % C)
  BY <1>2, <1>5, <1>14, Zenon
<1> QED BY <1>15, <1>16, Zenon

\* All of them: only the bits below the lowest limb are lost.
LEMMA MovedBackValue ==
  ASSUME NEW x, NEW y, NEW C, NEW D, NEW K, MovedBack(y, x, C, D, K), x[K] = 0
  PROVE  /\ Number(x, K) \in Nat /\ Number(y, K) \in Int
         /\ x[0] % C \in Int /\ 0 <= x[0] % C /\ x[0] % C < C
         /\ C * Number(y, K) = Number(x, K) - (x[0] % C)
<1>1. /\ C \in Nat /\ C > 0 /\ K \in 0 .. MaxLimbs /\ \A i \in 0 .. K : x[i] \in 0 .. (B - 1)
      /\ B \in Nat /\ B >= 2 /\ MaxLimbs \in Nat
  BY BaseFacts, TwosSteps DEF MovedBack
<1>2. K \in 0 .. (MaxLimbs + 1) /\ K \in 0 .. K /\ 0 \in 0 .. K /\ K \in Nat
  BY <1>1
<1>3. \A i \in 0 .. (K - 1) : x[i] \in 0 .. (B - 1) /\ x[i] \in Int /\ y[i] \in Int
  <2> TAKE i \in 0 .. (K - 1)
  <2>1. x[i] \in 0 .. (B - 1)
    <3>1. i \in 0 .. K
      BY <1>2
    <3> QED BY <1>1, <3>1
  <2>2. y[i] \in Int
    BY MovedBackLimb
  <2> QED BY <1>1, <2>1, <2>2
<1>4. PICK e : e = [i \in 0 .. K |-> x[i] % C]
  OBVIOUS
<1>5. \A i \in 0 .. K : e[i] \in Int /\ 0 <= e[i] /\ e[i] < C /\ e[i] = x[i] % C
  <2> TAKE i \in 0 .. K
  <2>1. PICK a : a = x[i]
    OBVIOUS
  <2>2. a \in Int
    <3>1. x[i] \in 0 .. (B - 1)
      BY <1>1
    <3> QED BY <1>1, <2>1, <3>1
  <2>3. a % C \in Int /\ 0 <= a % C /\ a % C < C
    BY <1>1, <2>2, DivMod, DivInt
  <2> QED BY <1>4, <2>1, <2>3
<1>6. /\ Number(x, 0) = 0 /\ Number(y, 0) = 0
      /\ \A i \in 0 .. K : Number(x, i) \in Int /\ Number(y, i) \in Int
      /\ \A i \in 0 .. (K - 1) : Number(x, i + 1) = Number(x, i) + x[i] * Place[i]
      /\ \A i \in 0 .. (K - 1) : Number(y, i + 1) = Number(y, i) + y[i] * Place[i]
  <2>1. \A i \in 0 .. (K - 1) : x[i] \in Int
    BY <1>3
  <2>2. \A i \in 0 .. (K - 1) : y[i] \in Int
    BY <1>3
  <2>3. /\ Number(x, 0) = 0 /\ \A i \in 0 .. K : Number(x, i) \in Int
        /\ \A i \in 0 .. (K - 1) : Number(x, i + 1) = Number(x, i) + x[i] * Place[i]
    BY <1>2, <2>1, NumberSteps
  <2>4. /\ Number(y, 0) = 0 /\ \A i \in 0 .. K : Number(y, i) \in Int
        /\ \A i \in 0 .. (K - 1) : Number(y, i + 1) = Number(y, i) + y[i] * Place[i]
    BY <1>2, <2>2, NumberSteps
  <2> QED BY <2>3, <2>4
<1>7. PICK T : T = {i \in 0 .. K : C * Number(y, i) = (Number(x, i) - e[0]) + Place[i] * e[i]}
  OBVIOUS
<1>8. 0 \in T
  <2>1. Place[0] = 1 /\ e[0] \in Int
    BY <1>2, <1>5, PlaceSteps
  <2>2. C * 0 = (0 - e[0]) + 1 * e[0]
    BY <1>1, <2>1
  <2> QED BY <1>2, <1>6, <1>7, <2>1, <2>2
<1>9. ASSUME NEW i \in 0 .. (K - 1), i \in T PROVE i + 1 \in T
  <2>1. i \in 0 .. K /\ i + 1 \in 0 .. K /\ i \in 0 .. MaxLimbs /\ i \in 0 .. (MaxLimbs + 1)
    BY <1>1
  <2>2. PICK Nx, Ny, p, xi, yi, e0, ei, ej :
          /\ Nx = Number(x, i) /\ Ny = Number(y, i) /\ p = Place[i] /\ xi = x[i] /\ yi = y[i]
          /\ e0 = e[0] /\ ei = e[i] /\ ej = e[i + 1]
    OBVIOUS
  <2>3. /\ Nx \in Int /\ Ny \in Int /\ p \in Int /\ xi \in Int /\ yi \in Int /\ e0 \in Int /\ ei \in Int
        /\ ej \in Int
    <3>1. Nx \in Int /\ Ny \in Int /\ p \in Int
      BY <1>6, <2>1, <2>2, PlaceSteps
    <3>2. e0 \in Int /\ ei \in Int /\ ej \in Int
      BY <1>2, <1>5, <2>1, <2>2
    <3> QED BY <1>3, <2>2, <3>1, <3>2
  <2>4. C * Ny = (Nx - e0) + p * ei
    BY <1>7, <1>9, <2>2
  <2>5. C * yi = (xi - ei) + B * ej
    <3>1. C * y[i] = (x[i] - (x[i] % C)) + B * (x[i + 1] % C)
      BY MovedBackLimb
    <3>2. e[i] = x[i] % C /\ e[i + 1] = x[i + 1] % C
      BY <1>5, <2>1
    <3> QED BY <2>2, <3>1, <3>2, Zenon
  <2>6. Number(x, i + 1) = Nx + xi * p /\ Number(y, i + 1) = Ny + yi * p /\ Place[i + 1] = B * p
    BY <1>6, <2>1, <2>2, PlaceSteps
  <2>7. C * (Ny + yi * p) = C * Ny + (C * yi) * p
    BY <1>1, <2>3
  <2>8. ((xi - ei) + B * ej) * p = (xi * p - p * ei) + (B * p) * ej
    BY <1>1, <2>3
  <2>9. PICK f, g, h, k : f = p * ei /\ g = xi * p /\ h = (B * p) * ej /\ k = C * Ny
    OBVIOUS
  <2>10. f \in Int /\ g \in Int /\ h \in Int /\ k \in Int
    <3>1. B * p \in Int
      BY <1>1, <2>3, ProductInt
    <3> QED BY <1>1, <2>3, <2>9, <3>1, ProductInt
  <2>11. C * (Ny + yi * p) = k + ((g - f) + h) /\ k = (Nx - e0) + f
    BY <2>4, <2>5, <2>7, <2>8, <2>9
  <2>12. C * (Ny + yi * p) = ((Nx + g) - e0) + h
    BY <2>3, <2>10, <2>11
  <2> QED BY <1>7, <2>1, <2>2, <2>6, <2>9, <2>12
<1>10. K \in T
  BY <1>2, <1>8, <1>9, UpTo
<1>11. C * Number(y, K) = Number(x, K) - e[0]
  <2>1. C * Number(y, K) = (Number(x, K) - e[0]) + Place[K] * e[K]
    BY <1>7, <1>10
  <2>2. e[K] = 0
    <3>1. 0 % C = 0
      <4>1. 0 = C * 0 + 0
        BY <1>1
      <4> QED BY <1>1, <4>1, DivUnique
    <3> QED BY <1>2, <1>5, <3>1
  <2>3. Place[K] * 0 = 0 /\ Number(x, K) - e[0] \in Int
    <3>1. Place[K] \in Int /\ Number(x, K) \in Int /\ e[0] \in Int
      BY <1>2, <1>5, <1>6, PlaceSteps
    <3> QED BY <3>1
  <2> QED BY <2>1, <2>2, <2>3
<1>12. Number(x, K) \in Nat
  <2>1. \A i \in 0 .. (K - 1) : x[i] \in 0 .. (B - 1)
    BY <1>3
  <2> QED BY <1>2, <2>1, NumberBound
<1>13. e[0] = x[0] % C /\ e[0] \in Int /\ 0 <= e[0] /\ e[0] < C
  BY <1>2, <1>5
<1>14. Number(y, K) \in Int
  BY <1>2, <1>6
<1>15. C * Number(y, K) = Number(x, K) - (x[0] % C)
  BY <1>11, <1>13, Zenon
<1>16. x[0] % C \in Int /\ 0 <= x[0] % C /\ x[0] % C < C
  BY <1>13, Zenon
<1> QED BY <1>12, <1>14, <1>15, <1>16, Zenon

\* Undoing the shift loses nothing, for the rest is a multiple of its factor.
LEMMA DenormaliseInv == DivInv /\ Denormalise => DivInv'
<1> SUFFICES ASSUME DivInv, Denormalise PROVE DivInv'
  OBVIOUS
<1>1. Operands /\ Dividing /\ j < 0
  BY DEF DivInv, Denormalise
<1>2. /\ u' = u /\ v' = v /\ m' = m /\ n' = n /\ q' = q /\ pc' = "done"
      /\ r' = [i \in DOMAIN r |->
                 IF i < n THEN (un[i] \div Twos[s]) + ((un[i + 1] * Twos[LimbBits - s]) % B) ELSE 0]
  BY <1>1 DEF Denormalise
<1>3. Operands'
  BY <1>1, <1>2 DEF Operands
<1>4. MaxLimbs \in Nat /\ MaxLimbs > 0 /\ B \in Nat /\ B >= 2
  BY TwosSteps, BaseFacts
<1>5. PICK C, D, K, L, x, y, z : /\ C = Twos[s] /\ D = Twos[LimbBits - s] /\ K = n /\ L = MaxLimbs
                                 /\ x = un /\ y = r' /\ z = q
  OBVIOUS
<1>6. PICK U, Q, V : /\ U = Number(u, MaxLimbs) /\ Q = Number(z, MaxLimbs) /\ V = Number(v, MaxLimbs)
  OBVIOUS
<1>7. /\ K \in 1 .. MaxLimbs /\ U \in Nat /\ V \in Nat
  BY <1>1, <1>5, <1>6, OperandFacts
<1>8. /\ n >= 2 /\ m >= n /\ s \in 0 .. (LimbBits - 1) /\ j \in -1 .. (m - n)
      /\ x \in [0 .. MaxLimbs -> 0 .. (B - 1)]
      /\ z \in [0 .. (MaxLimbs - 1) -> 0 .. (B - 1)]
      /\ r = Zero(MaxLimbs)
      /\ \A i \in 0 .. MaxLimbs : i > j + n => x[i] = 0
      /\ Number(vn, MaxLimbs) = V * C
      /\ U * C = Q * Number(vn, MaxLimbs) + Number(x, MaxLimbs + 1)
      /\ Number(x, MaxLimbs + 1) < Number(vn, MaxLimbs) * Place[j + 1]
  BY <1>1, <1>5, <1>6 DEF Dividing
<1>9. m \in 0 .. MaxLimbs
  BY <1>1, OperandFacts
<1>10. j = -1
  BY <1>1, <1>4, <1>5, <1>7, <1>8, <1>9
<1>11. /\ C \in Nat /\ C > 0 /\ D \in Nat /\ D > 0 /\ C * D = B
  BY <1>5, <1>8, ShiftFacts
<1>12. \A i \in 0 .. (L - 1) :
         y[i] = IF i < K THEN (x[i] \div C) + ((x[i + 1] * D) % B) ELSE 0
  <2>1. DOMAIN r = 0 .. (MaxLimbs - 1)
    BY <1>8 DEF Zero
  <2> QED BY <1>2, <1>5, <2>1
<1>13. MovedBack(y, x, C, D, K) /\ x[K] = 0
  <2>1. \A i \in 0 .. K : x[i] \in 0 .. (B - 1)
    <3> TAKE i \in 0 .. K
    <3>1. i \in 0 .. MaxLimbs
      BY <1>4, <1>7
    <3> QED BY <1>8, <3>1
  <2>2. \A i \in 0 .. (K - 1) : y[i] = (x[i] \div C) + ((x[i + 1] * D) % B)
    <3> TAKE i \in 0 .. (K - 1)
    <3>1. i \in 0 .. (L - 1) /\ i < K
      BY <1>4, <1>5, <1>7
    <3> QED BY <1>12, <3>1
  <2>3. x[K] = 0
    <3>1. K \in 0 .. MaxLimbs /\ K > j + n
      BY <1>4, <1>5, <1>7, <1>10
    <3> QED BY <1>8, <3>1
  <2>4. K \in 0 .. MaxLimbs
    BY <1>4, <1>7
  <2> QED BY <1>11, <2>1, <2>2, <2>3, <2>4 DEF MovedBack
<1>14. PICK R, Y, e : R = Number(x, K) /\ Y = Number(y, K) /\ e = x[0] % C
  OBVIOUS
<1>15. R \in Nat /\ Y \in Int /\ e \in Int /\ 0 <= e /\ e < C /\ C * Y = R - e
  <2>1. /\ Number(x, K) \in Nat /\ Number(y, K) \in Int
        /\ x[0] % C \in Int /\ 0 <= x[0] % C /\ x[0] % C < C
        /\ C * Number(y, K) = Number(x, K) - (x[0] % C)
    BY <1>13, MovedBackValue
  <2> QED BY <1>14, <2>1, Zenon
<1>16. Number(x, MaxLimbs + 1) = R
  <2>1. PICK M : M = MaxLimbs + 1
    OBVIOUS
  <2>2. M \in 0 .. (MaxLimbs + 1) /\ K \in 0 .. M /\ M \in 0 .. M /\ M >= K
    BY <1>4, <1>7, <2>1
  <2>3. \A i \in 0 .. (M - 1) : x[i] \in Int /\ (i >= K => x[i] = 0)
    <3> TAKE i \in 0 .. (M - 1)
    <3>1. i \in 0 .. MaxLimbs
      BY <1>4, <2>1
    <3>2. x[i] \in 0 .. (B - 1)
      BY <1>8, <3>1
    <3>3. i >= K => i > j + n
      BY <1>5, <1>7, <1>10, <3>1
    <3> QED BY <1>4, <1>8, <3>1, <3>2, <3>3
  <2>4. \A i \in 0 .. M : i >= K => Number(x, i) = Number(x, K)
    BY <2>2, <2>3, HighZero
  <2> QED BY <1>14, <2>1, <2>2, <2>4
<1>17. Q \in Int
  <2>1. PICK M : M = MaxLimbs
    OBVIOUS
  <2>2. M \in 0 .. (MaxLimbs + 1) /\ M \in 0 .. M
    BY <1>4, <2>1
  <2>3. \A i \in 0 .. (M - 1) : z[i] \in Int
    <3> TAKE i \in 0 .. (M - 1)
    <3>1. z[i] \in 0 .. (B - 1)
      BY <1>8, <2>1
    <3> QED BY <1>4, <3>1
  <2> QED BY <1>6, <2>1, <2>2, <2>3, NumberSteps
<1>18. U * C = Q * (V * C) + R /\ R < V * C
  <2>1. Place[j + 1] = 1
    BY <1>10, PlaceSteps
  <2>2. (V * C) * 1 = V * C
    <3>1. V * C \in Int
      BY <1>7, <1>11, ProductInt
    <3> QED BY <3>1
  <2> QED BY <1>8, <1>16, <2>1, <2>2
<1>19. U \div V = Q /\ U % V = Y
  BY <1>7, <1>11, <1>15, <1>17, <1>18, ShiftedBack
<1>20. Number(y, MaxLimbs) = Y
  <2>1. L \in 0 .. (MaxLimbs + 1) /\ K \in 0 .. L /\ L \in 0 .. L /\ L >= K
    BY <1>4, <1>5, <1>7
  <2>2. \A i \in 0 .. (L - 1) : y[i] \in Int /\ (i >= K => y[i] = 0)
    <3> TAKE i \in 0 .. (L - 1)
    <3>1. CASE i < K
      <4>1. i \in 0 .. (K - 1)
        BY <1>7, <3>1
      <4>2. y[i] \in Int
        BY <1>13, <4>1, MovedBackLimb
      <4> QED BY <1>7, <3>1, <4>2
    <3>2. CASE ~(i < K)
      BY <1>12, <3>2
    <3> QED BY <3>1, <3>2
  <2>3. \A i \in 0 .. L : i >= K => Number(y, i) = Number(y, K)
    BY <2>1, <2>2, HighZero
  <2> QED BY <1>5, <1>14, <2>1, <2>3
<1>21. Divided'
  BY <1>2, <1>5, <1>6, <1>19, <1>20 DEF Divided
<1> QED BY <1>2, <1>3, <1>21 DEF DivInv

\* Every step of the division.
LEMMA DivNextInv == DivInv /\ [DivNext]_divVars => DivInv'
<1> SUFFICES ASSUME DivInv, [DivNext]_divVars PROVE DivInv'
  OBVIOUS
<1>1. CASE Smaller
  BY <1>1, SmallerInv
<1>2. CASE OneLimb
  BY <1>2, OneLimbInv
<1>3. CASE Normalise
  BY <1>3, NormaliseInv
<1>4. CASE Digit
  BY <1>4, DigitInv
<1>5. CASE DigitAddBack
  BY <1>5, DigitAddBackInv
<1>6. CASE Denormalise
  BY <1>6, DenormaliseInv
<1>7. CASE UNCHANGED divVars
  BY <1>7 DEF divVars, DivInv, Operands, Dividing, Divided
<1> QED BY <1>1, <1>2, <1>3, <1>4, <1>5, <1>6, <1>7 DEF DivNext

\* udivrem_wide, for limbs of every width and operands of any number of limbs: the digits
\* found and what is left make up the dividend all along, every digit is in range, and
\* the quotient and the rest at the end are those of the operands.
THEOREM LongDivisionIsExact == DivSpec => []DivisionExact
<1>1. DivInit => DivInv
  BY DivInitInv
<1>2. DivInv /\ [DivNext]_divVars => DivInv'
  BY DivNextInv
<1>3. DivInv => DivisionExact
  BY DEF DivInv, Dividing, Divided, DivisionExact
<1> QED BY <1>1, <1>2, <1>3, PTL DEF DivSpec
=============================================================================
