---------------------------- MODULE IrTablesProofs ----------------------------
(***************************************************************************)
(* What every edit of a module keeps in step, for any size of it.          *)
(*                                                                         *)
(* FunctionStorage: the map and the vector of the functions stay in sync,  *)
(* and every loop over the vector reaches every function it found and no   *)
(* other, for any loaded module, any number of workers and passes.         *)
(*                                                                         *)
(* UseLists: the list of a value holds the operands that name it.  A loop  *)
(* over operands is a fold; its states are named by the lemmas on folds,   *)
(* and what it does to the lists is told by the set of records it takes    *)
(* out and puts in, each at most once.                                     *)
(***************************************************************************)
EXTENDS FunctionStorage, UseLists, FiniteSetTheorems, FunctionTheorems, SequenceTheorems,
        WellFoundedInduction, TLAPS

(* Folds over finite sets, numbers up to n *)

\* A set of subsets of a finite set has a smallest one.
LEMMA MinimalSet ==
  ASSUME NEW S, IsFiniteSet(S), NEW T \in SUBSET SUBSET S, T # {}
  PROVE  \E x \in T : \A y \in T : y \subseteq x => y = x
<1>1. T \subseteq FiniteSubsetsOf(S)
  BY FS_Subset DEF FiniteSubsetsOf
<1>2. PICK x \in T : \A y \in T : ~(<<y, x>> \in StrictSubsetOrdering(S))
  BY <1>1, FS_StrictSubsetOrderingWellFounded, WFMin, Zenon
<1>3. ASSUME NEW y \in T, y \subseteq x, y # x PROVE FALSE
  <2>1. <<y, x>> \in StrictSubsetOrdering(S)
    BY <1>3 DEF StrictSubsetOrdering
  <2> QED BY <2>1, <1>2
<1> QED BY <1>3

\* A solution of the recursion of a fold on the subsets of U: ch names the element
\* that is taken last.
Solves(g, U, base, ch, f) ==
  \A s \in SUBSET U :
    g[s] = IF s = {} THEN base ELSE f[<<ch[s], g[s \ {ch[s]}]>>]

\* Two solutions agree where both are defined.
LEMMA SolutionUnique ==
  ASSUME NEW S, IsFiniteSet(S), NEW base, NEW ch, NEW f,
         \A s \in SUBSET S : s # {} => ch[s] \in s,
         NEW U \in SUBSET S, NEW V \in SUBSET S, NEW g, NEW h,
         Solves(g, U, base, ch, f), Solves(h, V, base, ch, f),
         NEW t \in SUBSET (U \cap V)
  PROVE  g[t] = h[t]
<1> DEFINE Bad == {s \in SUBSET (U \cap V) : g[s] # h[s]}
<1> SUFFICES ASSUME Bad # {} PROVE FALSE
  OBVIOUS
<1>1. PICK s \in Bad : \A y \in Bad : y \subseteq s => y = s
  <2>1. Bad \in SUBSET SUBSET S
    OBVIOUS
  <2> HIDE DEF Bad
  <2> QED BY <2>1, MinimalSet
<1>2. s \in SUBSET U /\ s \in SUBSET V /\ s \in SUBSET S
  OBVIOUS
<1>3. s # {}
  BY <1>1, <1>2 DEF Solves
<1>4. PICK r : r = s \ {ch[s]}
  OBVIOUS
<1>5. r \subseteq s /\ r # s
  BY <1>2, <1>3, <1>4
<1>6. g[r] = h[r]
  BY <1>1, <1>5
<1>7. g[s] = f[<<ch[s], g[r]>>] /\ h[s] = f[<<ch[s], h[r]>>]
  BY <1>2, <1>3, <1>4 DEF Solves
<1> QED BY <1>1, <1>6, <1>7

\* The recursion of a fold has a solution.
LEMMA SolutionExists ==
  ASSUME NEW S, IsFiniteSet(S), NEW A, NEW base \in A, NEW ch, NEW f \in [S \X A -> A],
         \A s \in SUBSET S : s # {} => ch[s] \in s
  PROVE  \E g \in [SUBSET S -> A] : Solves(g, S, base, ch, f)
<1> DEFINE Good(s) == \E g \in [SUBSET s -> A] : Solves(g, s, base, ch, f)
<1> DEFINE Bad == {s \in SUBSET S : ~Good(s)}
<1>1. SUFFICES ASSUME Bad # {} PROVE FALSE
  OBVIOUS
<1>2. PICK s \in Bad : \A y \in Bad : y \subseteq s => y = s
  <2>1. Bad \in SUBSET SUBSET S
    OBVIOUS
  <2> HIDE DEF Bad
  <2> QED BY <2>1, <1>1, MinimalSet
<1>3. \A t \in SUBSET s : t # s => Good(t)
  BY <1>2
<1> DEFINE G(t) == CHOOSE g : g \in [SUBSET t -> A] /\ Solves(g, t, base, ch, f)
<1>4. ASSUME NEW t \in SUBSET s, t # s
      PROVE  G(t) \in [SUBSET t -> A] /\ Solves(G(t), t, base, ch, f)
  BY <1>3, <1>4, Zenon
<1>5. ASSUME NEW t \in SUBSET s, t # s, NEW u \in SUBSET t
      PROVE  G(t)[u] = G(u)[u]
  <2>1. u \in SUBSET s /\ u # s
    BY <1>5
  <2> HIDE DEF G
  <2>2. Solves(G(t), t, base, ch, f) /\ Solves(G(u), u, base, ch, f)
    BY <1>4, <1>5, <2>1
  <2> QED BY <2>2, SolutionUnique, <1>5, s \in SUBSET S
<1> HIDE DEF G
<1>6. PICK last : last = IF s = {} THEN base ELSE f[<<ch[s], G(s \ {ch[s]})[s \ {ch[s]}]>>]
  OBVIOUS
<1>7. last \in A
  <2>1. CASE s = {}
    BY <2>1, <1>6
  <2>2. CASE s # {}
    <3>1. PICK r : r = s \ {ch[s]}
      OBVIOUS
    <3>2. ch[s] \in s /\ r \in SUBSET s /\ r # s
      BY <2>2, <3>1
    <3>3. G(r)[r] \in A
      BY <1>4, <3>2
    <3> QED BY <1>6, <2>2, <3>1, <3>2, <3>3
  <2> QED BY <2>1, <2>2
<1>8. PICK h : h = [t \in SUBSET s |-> IF t = s THEN last ELSE G(t)[t]]
  OBVIOUS
<1>9. h \in [SUBSET s -> A]
  <2>1. \A t \in SUBSET s : t # s => G(t)[t] \in A
    BY <1>4
  <2> QED BY <2>1, <1>7, <1>8
<1>10. ASSUME NEW t \in SUBSET s
       PROVE  h[t] = IF t = {} THEN base ELSE f[<<ch[t], h[t \ {ch[t]}]>>]
  <2>1. PICK r : r = t \ {ch[t]}
    OBVIOUS
  <2>2. t # {} => r \in SUBSET t /\ r # t /\ r # s /\ r \in SUBSET s
    BY <2>1
  <2>3. t # {} => h[r] = G(r)[r]
    BY <2>2, <1>8
  <2>4. CASE t = s
    BY <2>1, <2>3, <2>4, <1>6, <1>8
  <2>5. CASE t # s
    <3>1. h[t] = G(t)[t]
      BY <2>5, <1>8
    <3>2. G(t)[t] = IF t = {} THEN base ELSE f[<<ch[t], G(t)[r]>>]
      BY <1>4, <2>5, <2>1 DEF Solves
    <3>3. t # {} => G(t)[r] = G(r)[r]
      BY <1>5, <2>5, <2>2
    <3> QED BY <3>1, <3>2, <3>3, <2>1, <2>3
  <2> QED BY <2>4, <2>5
<1>11. Good(s)
  BY <1>9, <1>10 DEF Solves
<1> QED BY <1>2, <1>11

\* Induction up to n.
LEMMA UpTo ==
  ASSUME NEW n \in Nat, NEW G, 0 \in G, \A k \in 1 .. n : k - 1 \in G => k \in G
  PROVE  \A k \in 0 .. n : k \in G
<1> DEFINE Bad == {s \in SUBSET (0 .. n) : \E k \in 0 .. n : k \notin G /\ s = 0 .. k}
<1> SUFFICES ASSUME NEW j \in 0 .. n, j \notin G PROVE FALSE
  OBVIOUS
<1>1. PICK s \in Bad : \A y \in Bad : y \subseteq s => y = s
  <2>1. 0 .. j \in Bad
    OBVIOUS
  <2>2. PICK I : I = 0 .. n
    OBVIOUS
  <2>3. Bad \in SUBSET SUBSET I /\ IsFiniteSet(I)
    BY <2>2, FS_Interval
  <2> HIDE DEF Bad
  <2> QED BY <2>1, <2>3, MinimalSet
<1>2. PICK k \in 0 .. n : k \notin G /\ s = 0 .. k
  BY <1>1
<1>3. k \in 1 .. n /\ k - 1 \in 0 .. n /\ k - 1 \notin G
  BY <1>2
<1>4. 0 .. (k - 1) \in Bad
  BY <1>3
<1>5. 0 .. (k - 1) \subseteq s /\ k \in s /\ k \notin 0 .. (k - 1)
  BY <1>2, <1>3
<1> QED BY <1>1, <1>4, <1>5

\* A set of numbers up to n has a greatest and a least one.
LEMMA Extremes ==
  ASSUME NEW n \in Nat, NEW S \in SUBSET (1 .. n), S # {}
  PROVE  Max(S) \in S /\ Min(S) \in S
<1> DEFINE HasMax(s) == \E x \in s : \A y \in s : x >= y
           HasMin(s) == \E x \in s : \A y \in s : x <= y
           G == {k \in 0 .. n : \A s \in SUBSET (1 .. k) : s # {} => HasMax(s)}
           H == {k \in 0 .. n : (\E x \in S : x <= k) => HasMin(S)}
<1>1. 0 \in G /\ 0 \in H
  <2>1. 1 .. 0 = {} /\ 0 \in 0 .. n
    OBVIOUS
  <2>2. ~\E x \in S : x <= 0
    OBVIOUS
  <2> QED BY <2>1, <2>2
<1>2. ASSUME NEW k \in 1 .. n, k - 1 \in G PROVE k \in G
  <2> SUFFICES ASSUME NEW s \in SUBSET (1 .. k), s # {} PROVE HasMax(s)
    OBVIOUS
  <2>1. CASE k \in s
    BY <2>1
  <2>2. CASE k \notin s
    <3>1. s \in SUBSET (1 .. (k - 1))
      BY <2>2
    <3> QED BY <3>1, <1>2
  <2> QED BY <2>1, <2>2
<1>3. ASSUME NEW k \in 1 .. n, k - 1 \in H PROVE k \in H
  <2> SUFFICES ASSUME NEW x \in S, x <= k PROVE HasMin(S)
    OBVIOUS
  <2>1. CASE \E y \in S : y <= k - 1
    BY <2>1, <1>3
  <2>2. CASE ~\E y \in S : y <= k - 1
    <3>1. x = k /\ \A y \in S : x <= y
      BY <2>2
    <3> QED BY <3>1
  <2> QED BY <2>1, <2>2
<1>4. n \in G /\ n \in H
  <2>1. n \in 0 .. n
    OBVIOUS
  <2> HIDE DEF G, H
  <2> QED BY <2>1, <1>1, <1>2, <1>3, UpTo
<1>5. HasMax(S) /\ HasMin(S)
  BY <1>4
<1> QED BY <1>5, Zenon DEF Max, Min

-----------------------------------------------------------------------------
(* How often a sequence holds an element *)

Tally(q, u) == Cardinality({k \in DOMAIN q : q[k] = u})

LEMMA TallyFacts ==
  ASSUME NEW N, NEW q \in Seq(N), NEW u
  PROVE  /\ IsFiniteSet({k \in DOMAIN q : q[k] = u}) /\ Tally(q, u) \in Nat
         /\ Tally(q, u) = 0 <=> u \notin Range(q)
<1>1. PICK I : I = {k \in DOMAIN q : q[k] = u}
  OBVIOUS
<1>2. IsFiniteSet(I)
  <2>1. PICK D : D = 1 .. Len(q)
    OBVIOUS
  <2>2. IsFiniteSet(D) /\ I \in SUBSET D
    BY <1>1, <2>1, FS_Interval
  <2> QED BY <2>2, FS_Subset
<1>3. Cardinality(I) \in Nat /\ (Cardinality(I) = 0 <=> I = {})
  BY <1>2, FS_CardinalityType, FS_EmptySet
<1>4. I = {} <=> u \notin Range(q)
  BY <1>1 DEF Range
<1> QED BY <1>1, <1>2, <1>3, <1>4 DEF Tally

LEMMA TallyAtMostOne ==
  ASSUME NEW N, NEW q \in Seq(N), \A u \in N : Tally(q, u) <= 1
  PROVE  IsInjective(q)
<1> SUFFICES ASSUME NEW i \in DOMAIN q, NEW j \in DOMAIN q, q[i] = q[j], i # j PROVE FALSE
  BY DEF IsInjective
<1>1. PICK u \in N : u = q[i]
  OBVIOUS
<1>2. PICK I : I = {k \in DOMAIN q : q[k] = u}
  OBVIOUS
<1>3. IsFiniteSet(I) /\ Tally(q, u) = Cardinality(I)
  BY <1>2, TallyFacts DEF Tally
<1>4. {i, j} \in SUBSET I
  BY <1>1, <1>2
<1>5. Cardinality({i, j}) = 2 /\ IsFiniteSet({i, j})
  <2>1. PICK a : a = {i}
    OBVIOUS
  <2>2. a \cup {j} = {i, j} /\ j \notin a
    BY <2>1
  <2>3. Cardinality(a) = 1 /\ IsFiniteSet(a)
    BY <2>1, FS_Singleton
  <2>4. /\ IsFiniteSet(a \cup {j})
        /\ Cardinality(a \cup {j}) = IF j \in a THEN Cardinality(a) ELSE Cardinality(a) + 1
    BY <2>3, FS_AddElement, Zenon
  <2>5. PICK b : b = a \cup {j}
    OBVIOUS
  <2>6. Cardinality(b) = 2 /\ IsFiniteSet(b)
    BY <2>2, <2>3, <2>4, <2>5
  <2>7. b = {i, j}
    BY <2>2, <2>5
  <2> QED BY <2>6, <2>7
<1>6. 2 <= Cardinality(I) /\ Cardinality(I) \in Nat
  BY <1>3, <1>4, <1>5, FS_Subset, FS_CardinalityType
<1>7. Cardinality(I) <= 1
  BY <1>3
<1> QED BY <1>6, <1>7

LEMMA TallyAppend ==
  ASSUME NEW N, NEW q \in Seq(N), NEW e \in N
  PROVE  /\ Append(q, e) \in Seq(N)
         /\ \A u : Tally(Append(q, e), u) = Tally(q, u) + (IF u = e THEN 1 ELSE 0)
<1> SUFFICES ASSUME NEW u PROVE Tally(Append(q, e), u) = Tally(q, u) + (IF u = e THEN 1 ELSE 0)
  OBVIOUS
<1>1. PICK r : r = Append(q, e)
  OBVIOUS
<1>2. PICK n \in Nat : n = Len(q)
  OBVIOUS
<1>3. /\ DOMAIN q = 1 .. n /\ DOMAIN r = 1 .. (n + 1) /\ r[n + 1] = e
      /\ \A i \in 1 .. n : r[i] = q[i]
  BY <1>1, <1>2
<1>4. PICK I : I = {k \in DOMAIN q : q[k] = u}
  OBVIOUS
<1>5. IsFiniteSet(I) /\ Cardinality(I) \in Nat
  BY <1>4, TallyFacts, FS_CardinalityType
<1>6. n + 1 \notin I /\ \A i \in 1 .. (n + 1) : i \in 1 .. n \/ i = n + 1
  BY <1>3, <1>4
<1>7. PICK J : J = {k \in DOMAIN r : r[k] = u}
  OBVIOUS
<1>8. CASE u = e
  <2>1. J = I \cup {n + 1}
    <3>1. \A i \in 1 .. n : i \in 1 .. (n + 1)
      OBVIOUS
    <3> QED BY <1>3, <1>4, <1>6, <1>7, <1>8, <3>1
  <2>2. Cardinality(J) = Cardinality(I) + 1
    BY <2>1, <1>5, <1>6, FS_AddElement
  <2> QED BY <1>1, <1>4, <1>7, <1>8, <2>2 DEF Tally
<1>9. CASE u # e
  <2>1. J = I
    BY <1>3, <1>4, <1>6, <1>7, <1>9
  <2>2. Tally(q, u) = Cardinality(I) /\ Tally(Append(q, e), u) = Cardinality(J)
    BY <1>1, <1>4, <1>7 DEF Tally
  <2> QED BY <1>5, <1>9, <2>1, <2>2
<1> QED BY <1>8, <1>9

\* A function on the numbers up to m is a sequence.
LEMMA TupleIs ==
  ASSUME NEW N, NEW m \in Nat, NEW h \in [1 .. m -> N]
  PROVE  h \in Seq(N) /\ Len(h) = m
<1>1. h \in Seq(N)
  OBVIOUS
<1>2. DOMAIN h = 1 .. m
  OBVIOUS
<1> QED BY <1>1, <1>2, LenProperties

LEMMA RemoveAtIs ==
  ASSUME NEW N, NEW q \in Seq(N), NEW k \in 1 .. Len(q)
  PROVE  /\ RemoveAt(q, k) \in Seq(N) /\ Len(RemoveAt(q, k)) = Len(q) - 1
         /\ DOMAIN RemoveAt(q, k) = 1 .. (Len(q) - 1)
         /\ \A i \in 1 .. (Len(q) - 1) : RemoveAt(q, k)[i] = IF i < k THEN q[i] ELSE q[i + 1]
<1>1. PICK n \in Nat : n = Len(q) /\ DOMAIN q = 1..n /\ k \in 1..n
  OBVIOUS
<1>2. \A i \in 1..n : q[i] \in N
  BY <1>1
<1>3. PICK a : a = SubSeq(q, 1, k - 1)
  OBVIOUS
<1>4. PICK b : b = SubSeq(q, k + 1, n)
  OBVIOUS
<1>5. a \in Seq(N) /\ Len(a) = k - 1 /\ \A i \in 1..(k - 1) : a[i] = q[i]
  <2>1. k - 1 \in Int /\ k - 1 - 1 + 1 = k - 1 /\ \A i \in 1..(k - 1) : i \in 1..n /\ 1 + i - 1 = i
    BY <1>1
  <2>2. /\ a \in Seq(N) /\ Len(a) = IF 1 <= k - 1 THEN k - 1 - 1 + 1 ELSE 0
        /\ \A i \in 1..(k - 1 - 1 + 1) : a[i] = q[1 + i - 1]
    BY <2>1, <1>2, <1>3, SubSeqProperties
  <2> QED BY <2>1, <2>2
<1>6. b \in Seq(N) /\ Len(b) = n - k /\ \A i \in 1..(n - k) : b[i] = q[k + i]
  <2>1. /\ k + 1 \in Int /\ n \in Int /\ n - (k + 1) + 1 = n - k
        /\ \A i \in (k + 1)..n : i \in 1..n
        /\ \A i \in 1..(n - k) : k + 1 + i - 1 = k + i
    BY <1>1
  <2>2. /\ b \in Seq(N) /\ Len(b) = IF k + 1 <= n THEN n - (k + 1) + 1 ELSE 0
        /\ \A i \in 1..(n - (k + 1) + 1) : b[i] = q[k + 1 + i - 1]
    BY <2>1, <1>2, <1>4, SubSeqProperties
  <2>3. Len(b) = n - k
    BY <2>2, <1>1
  <2> QED BY <2>1, <2>2, <2>3
<1>7. PICK r : r = a \o b
  OBVIOUS
<1>8. /\ r \in Seq(N) /\ DOMAIN r = 1..(n - 1) /\ Len(r) = n - 1
      /\ \A i \in 1..(n - 1) : r[i] = IF i < k THEN q[i] ELSE q[i + 1]
  <2>1. /\ r \in Seq(N) /\ Len(r) = Len(a) + Len(b)
        /\ \A i \in 1..(Len(a) + Len(b)) : r[i] = IF i <= Len(a) THEN a[i] ELSE b[i - Len(a)]
    BY <1>5, <1>6, <1>7, ConcatProperties
  <2>2. Len(a) + Len(b) = n - 1
    BY <1>5, <1>6
  <2>3. ASSUME NEW i \in 1..(n - 1) PROVE r[i] = IF i < k THEN q[i] ELSE q[i + 1]
    <3>1. CASE i < k
      BY <3>1, <2>1, <2>2, <1>5
    <3>2. CASE ~(i < k)
      <4>1. i - (k - 1) \in 1..(n - k) /\ k + (i - (k - 1)) = i + 1 /\ ~(i <= k - 1)
        BY <3>2
      <4> QED BY <4>1, <3>2, <2>1, <2>2, <1>5, <1>6
    <3> QED BY <3>1, <3>2
  <2> QED BY <2>1, <2>2, <2>3
<1>9. RemoveAt(q, k) = r
  BY <1>1, <1>3, <1>4, <1>7 DEF RemoveAt
<1> QED BY <1>1, <1>8, <1>9

LEMMA TallyRemoveAt ==
  ASSUME NEW N, NEW q \in Seq(N), NEW k \in 1 .. Len(q), NEW u
  PROVE  Tally(RemoveAt(q, k), u) = Tally(q, u) - (IF u = q[k] THEN 1 ELSE 0)
<1>1. PICK r : r = RemoveAt(q, k)
  OBVIOUS
<1>2. PICK n \in Nat : n = Len(q)
  OBVIOUS
<1>3. /\ r \in Seq(N) /\ DOMAIN q = 1 .. n /\ DOMAIN r = 1 .. (n - 1) /\ k \in 1 .. n
      /\ \A i \in 1 .. (n - 1) : r[i] = IF i < k THEN q[i] ELSE q[i + 1]
  BY <1>1, <1>2, RemoveAtIs
<1>4. PICK I : I = {i \in DOMAIN q : q[i] = u}
  OBVIOUS
<1>5. PICK J : J = {i \in DOMAIN r : r[i] = u}
  OBVIOUS
<1>6. IsFiniteSet(I) /\ IsFiniteSet(J)
  BY <1>3, <1>4, <1>5, TallyFacts
<1>7. PICK K : K = I \ {k}
  OBVIOUS
<1>8. PICK f : f = [i \in J |-> IF i < k THEN i ELSE i + 1]
  OBVIOUS
<1>9. f \in [J -> K]
  <2> SUFFICES ASSUME NEW i \in J PROVE (IF i < k THEN i ELSE i + 1) \in K
    BY <1>8
  <2>1. i \in 1 .. (n - 1) /\ r[i] = u
    BY <1>3, <1>5
  <2>2. CASE i < k
    BY <2>1, <2>2, <1>3, <1>4, <1>7
  <2>3. CASE ~(i < k)
    <3>1. i + 1 \in 1 .. n /\ i + 1 # k /\ q[i + 1] = u
      BY <2>1, <2>3, <1>3
    <3> QED BY <3>1, <2>3, <1>3, <1>4, <1>7
  <2> QED BY <2>2, <2>3
<1>10. \A i, j \in J : f[i] = f[j] => i = j
  <2> SUFFICES ASSUME NEW i \in J, NEW j \in J, f[i] = f[j] PROVE i = j
    OBVIOUS
  <2>1. i \in Nat /\ j \in Nat /\ k \in Nat
    BY <1>3, <1>5
  <2> QED BY <2>1, <1>8
<1>11. \A x \in K : \E i \in J : f[i] = x
  <2> SUFFICES ASSUME NEW x \in K PROVE \E i \in J : f[i] = x
    OBVIOUS
  <2>1. x \in 1 .. n /\ q[x] = u /\ x # k
    BY <1>3, <1>4, <1>7
  <2>2. CASE x < k
    <3>1. x \in 1 .. (n - 1) /\ r[x] = u
      BY <2>1, <2>2, <1>3
    <3> QED BY <3>1, <2>2, <1>3, <1>5, <1>8
  <2>3. CASE ~(x < k)
    <3>1. x - 1 \in 1 .. (n - 1) /\ ~(x - 1 < k) /\ x - 1 + 1 = x
      BY <2>1, <2>3, <1>3
    <3>2. r[x - 1] = u
      BY <3>1, <2>1, <1>3
    <3> QED BY <3>1, <3>2, <1>3, <1>5, <1>8
  <2> QED BY <2>2, <2>3
<1>12. f \in Bijection(J, K)
  BY <1>9, <1>10, <1>11, Fun_IsBij
<1>13. Cardinality(K) = Cardinality(J)
  BY <1>6, <1>12, FS_Bijection DEF ExistsBijection
<1>14. Cardinality(K) = IF k \in I THEN Cardinality(I) - 1 ELSE Cardinality(I)
  BY <1>6, <1>7, FS_RemoveElement
<1>15. Cardinality(I) \in Nat
  BY <1>6, FS_CardinalityType
<1>16. k \in I <=> u = q[k]
  BY <1>3, <1>4
<1> QED BY <1>1, <1>4, <1>5, <1>13, <1>14, <1>15, <1>16 DEF Tally

\* The first element that is e.
LEMMA FirstIs ==
  ASSUME NEW N, NEW q \in Seq(N), NEW e \in Range(q)
  PROVE  \E k \in 1 .. Len(q) : q[k] = e /\ RemoveFirst(q, e) = RemoveAt(q, k)
<1>1. PICK S : S = {i \in 1 .. Len(q) : q[i] = e}
  OBVIOUS
<1>2. S # {} /\ S \in SUBSET (1 .. Len(q)) /\ Len(q) \in Nat
  BY <1>1 DEF Range
<1>3. Min(S) \in S
  BY <1>2, Extremes
<1>4. SelectInSeq(q, LAMBDA v : v = e) = Min(S)
  BY <1>1, <1>2 DEF SelectInSeq
<1>5. RemoveFirst(q, e) = RemoveAt(q, Min(S))
  BY <1>1, <1>2, <1>4 DEF RemoveFirst
<1> QED BY <1>1, <1>3, <1>5

LEMMA TallyRemoveFirst ==
  ASSUME NEW N, NEW q \in Seq(N), NEW e \in Range(q)
  PROVE  /\ RemoveFirst(q, e) \in Seq(N)
         /\ \A u : Tally(RemoveFirst(q, e), u) = Tally(q, u) - (IF u = e THEN 1 ELSE 0)
<1>1. PICK k \in 1 .. Len(q) : q[k] = e /\ RemoveFirst(q, e) = RemoveAt(q, k)
  BY FirstIs
<1>2. RemoveAt(q, k) \in Seq(N)
  BY RemoveAtIs
<1>3. \A u : Tally(RemoveAt(q, k), u) = Tally(q, u) - (IF u = q[k] THEN 1 ELSE 0)
  BY TallyRemoveAt
<1> QED BY <1>1, <1>2, <1>3

-----------------------------------------------------------------------------
(* The function table *)

Busy == [at : {"lookup", "create"}, callee : Objects]

Types ==
  /\ order \in Seq(Objects) /\ todo \in Seq(Objects)
  /\ map = [n \in DOMAIN map |-> map[n]]
  /\ name = [o \in Objects |-> name[o]]
  /\ pass \in ModulePasses \cup {"none", "jobs"}
  /\ vec \in [Runners -> {Idle} \cup Busy]

\* Jobs and vectorized callees exist only in a batch, which erases nothing.
Quiet == pass # "jobs" => OtherIdle

\* Each function is visited once, and what is due is still to come.
Visits ==
  /\ IsInjective(todo)
  /\ due \subseteq Range(todo) \cup jobs
  /\ pass = "none" => todo = <<>>

IInv == Types /\ Quiet /\ Visits /\ InSync /\ LoopsSeeLiveFunctions

-----------------------------------------------------------------------------
(* Sequences without duplicates *)

LEMMA TailFacts ==
  ASSUME NEW q \in Seq(Objects), q # <<>>, IsInjective(q)
  PROVE  /\ Head(q) \in Range(q) /\ Tail(q) \in Seq(Objects) /\ IsInjective(Tail(q))
         /\ Range(Tail(q)) = Range(q) \ {Head(q)}
<1>1. /\ Len(q) \in Nat /\ Len(q) > 0 /\ DOMAIN q = 1..Len(q) /\ Head(q) = q[1]
      /\ Tail(q) \in Seq(Objects) /\ Len(Tail(q)) = Len(q) - 1
      /\ \A i \in 1..Len(Tail(q)) : Tail(q)[i] = q[i + 1]
  BY HeadTailProperties
<1>2. PICK n \in Nat : n = Len(q) /\ n > 0
  BY <1>1
<1>8. PICK r : r = Tail(q)
  OBVIOUS
<1>3. r = Tail(q) /\ DOMAIN r = 1..(n - 1) /\ \A i \in 1..(n - 1) : r[i] = q[i + 1]
  <2>1. r \in Seq(Objects) /\ Len(r) = n - 1 /\ \A i \in 1..Len(r) : r[i] = q[i + 1]
    BY <1>1, <1>2, <1>8
  <2> QED BY <2>1, <1>8
<1>4. DOMAIN q = 1..n /\ \A i, j \in 1..n : q[i] = q[j] => i = j
  BY <1>1, <1>2 DEF IsInjective
<1>5. IsInjective(r)
  <2> SUFFICES ASSUME NEW i \in 1..(n - 1), NEW j \in 1..(n - 1), r[i] = r[j] PROVE i = j
    BY <1>3 DEF IsInjective
  <2>1. i + 1 \in 1..n /\ j + 1 \in 1..n /\ q[i + 1] = q[j + 1]
    BY <1>3
  <2> QED BY <2>1, <1>4
<1>6. Range(r) = Range(q) \ {q[1]}
  <2>1. ASSUME NEW i \in 1..(n - 1) PROVE r[i] \in Range(q) \ {q[1]}
    <3>1. i + 1 \in 1..n /\ i + 1 # 1 /\ 1 \in 1..n /\ r[i] = q[i + 1]
      BY <1>3
    <3> QED BY <3>1, <1>4 DEF Range
  <2>2. ASSUME NEW i \in 1..n, q[i] # q[1] PROVE q[i] \in Range(r)
    <3>1. i - 1 \in 1..(n - 1) /\ i - 1 + 1 = i
      BY <2>2
    <3> QED BY <3>1, <1>3 DEF Range
  <2> QED BY <2>1, <2>2, <1>3, <1>4 DEF Range
<1>7. Head(q) \in Range(q)
  BY <1>1 DEF Range
<1> QED BY <1>1, <1>3, <1>5, <1>6, <1>7

LEMMA AppendFacts ==
  ASSUME NEW q \in Seq(Objects), IsInjective(q), NEW f \in Objects, f \notin Range(q)
  PROVE  /\ Append(q, f) \in Seq(Objects) /\ IsInjective(Append(q, f))
         /\ Range(Append(q, f)) = Range(q) \cup {f}
<1>1. PICK n \in Nat : n = Len(q) /\ DOMAIN q = 1..n
  OBVIOUS
<1>8. PICK r : r = Append(q, f)
  OBVIOUS
<1>2. /\ r = Append(q, f) /\ r \in Seq(Objects) /\ DOMAIN r = 1..(n + 1) /\ r[n + 1] = f
      /\ \A i \in 1..n : r[i] = q[i]
  <2>1. Len(q) = n /\ r \in Seq(Objects) /\ Len(r) = n + 1
    BY <1>1, <1>8
  <2>2. r[n + 1] = f /\ \A i \in 1..n : r[i] = q[i]
    BY <1>1, <1>8
  <2> QED BY <2>1, <2>2, <1>8
<1>3. \A i \in 1..(n + 1) : i \in 1..n \/ i = n + 1
  OBVIOUS
<1>4. n + 1 \in 1..(n + 1) /\ \A i \in 1..n : i \in 1..(n + 1)
  OBVIOUS
<1>5. \A i \in 1..n : r[i] # f
  BY <1>1, <1>2 DEF Range
<1>6. IsInjective(r)
  BY <1>1, <1>2, <1>3, <1>5 DEF IsInjective
<1>7. Range(r) = Range(q) \cup {f}
  BY <1>1, <1>2, <1>3, <1>4 DEF Range
<1> QED BY <1>2, <1>6, <1>7

LEMMA RemoveAtFacts ==
  ASSUME NEW q \in Seq(Objects), IsInjective(q), NEW k \in 1..Len(q)
  PROVE  /\ RemoveAt(q, k) \in Seq(Objects) /\ IsInjective(RemoveAt(q, k))
         /\ Range(RemoveAt(q, k)) = Range(q) \ {q[k]}
<1>1. PICK n \in Nat : n = Len(q) /\ DOMAIN q = 1..n /\ k \in 1..n
  OBVIOUS
<1>2. PICK r : r = RemoveAt(q, k)
  OBVIOUS
<1>8. /\ r \in Seq(Objects) /\ DOMAIN r = 1..(n - 1)
      /\ \A i \in 1..(n - 1) : r[i] = IF i < k THEN q[i] ELSE q[i + 1]
  BY <1>1, <1>2, RemoveAtIs
<1>10. \A i, j \in 1..n : q[i] = q[j] => i = j
  BY <1>1 DEF IsInjective
<1>11. IsInjective(r)
  <2> SUFFICES ASSUME NEW i \in 1..(n - 1), NEW j \in 1..(n - 1), r[i] = r[j] PROVE i = j
    BY <1>8 DEF IsInjective
  <2>1. i \in 1..n /\ j \in 1..n /\ i + 1 \in 1..n /\ j + 1 \in 1..n
    OBVIOUS
  <2> QED BY <2>1, <1>8, <1>10
<1>12. Range(r) = Range(q) \ {q[k]}
  <2>1. ASSUME NEW i \in 1..(n - 1) PROVE r[i] \in Range(q) \ {q[k]}
    <3>1. i \in 1..n /\ i + 1 \in 1..n
      OBVIOUS
    <3> QED BY <3>1, <1>1, <1>8, <1>10 DEF Range
  <2>2. ASSUME NEW i \in 1..n, i # k PROVE q[i] \in Range(r)
    <3>1. CASE i < k
      <4>1. i \in 1..(n - 1) /\ r[i] = q[i]
        BY <3>1, <1>1, <1>8
      <4> QED BY <4>1, <1>8 DEF Range
    <3>2. CASE i > k
      <4>1. i - 1 \in 1..(n - 1) /\ r[i - 1] = q[i]
        BY <3>2, <1>1, <1>8
      <4> QED BY <4>1, <1>8 DEF Range
    <3> QED BY <3>1, <3>2, <2>2, <1>1
  <2>3. Range(r) \subseteq Range(q) \ {q[k]}
    BY <2>1, <1>8 DEF Range
  <2>4. Range(q) \ {q[k]} \subseteq Range(r)
    <3> SUFFICES ASSUME NEW i \in 1..n, q[i] # q[k] PROVE q[i] \in Range(r)
      BY <1>1 DEF Range
    <3> QED BY <2>2
  <2> QED BY <2>3, <2>4
<1> QED BY <1>2, <1>8, <1>11, <1>12

LEMMA RemoveFirstFacts ==
  ASSUME NEW q \in Seq(Objects), IsInjective(q), NEW f \in Range(q)
  PROVE  /\ RemoveFirst(q, f) \in Seq(Objects) /\ IsInjective(RemoveFirst(q, f))
         /\ Range(RemoveFirst(q, f)) = Range(q) \ {f}
<1>1. PICK k \in 1..Len(q) : q[k] = f
  BY DEF Range
<1>2. {i \in 1..Len(q) : q[i] = f} = {k}
  BY <1>1 DEF IsInjective
<1>3. Min({k}) = k
  BY DEF Min
<1>4. SelectInSeq(q, LAMBDA v : v = f) = k
  BY <1>2, <1>3 DEF SelectInSeq
<1>5. RemoveFirst(q, f) = RemoveAt(q, k)
  BY <1>1, <1>4 DEF RemoveFirst
<1> QED BY <1>1, <1>5, RemoveAtFacts

-----------------------------------------------------------------------------
(* insert, erase and rename keep map and vector in sync. *)

Tables == /\ order \in Seq(Objects) /\ map = [n \in DOMAIN map |-> map[n]]
          /\ name = [o \in Objects |-> name[o]] /\ InSync

\* What InSync says of one stored function.
LEMMA FoundByName ==
  ASSUME Tables, NEW f \in Stored
  PROVE  f \in Objects /\ name[f] \in DOMAIN map /\ map[name[f]] = f
<1>1. f \in Objects
  BY DEF Stored, Range, Tables
<1>2. f \in Range(map)
  BY DEF Tables, InSync
<1> QED BY <1>1, <1>2 DEF Range, Tables, InSync

LEMMA SameTables ==
  ASSUME Tables, order' = order, map' = map, name' = name
  PROVE  Tables' /\ Stored' = Stored
<1>1. Range(order)' = Range(order) /\ Range(map)' = Range(map) /\ IsInjective(order)' = IsInjective(order)
  BY DEF Range, IsInjective
<1>2. InSync'
  BY <1>1 DEF Tables, InSync, Stored
<1> QED BY <1>1, <1>2 DEF Tables, Stored

LEMMA InsertInSync ==
  ASSUME Tables, NEW n, NEW f \in Unborn, Insert(n, f)
  PROVE  Tables' /\ Stored \subseteq Stored'
<1>1. CASE n \in DOMAIN map
  BY <1>1, SameTables DEF Insert
<1>2. CASE n \notin DOMAIN map
  <2>1. /\ order' = Append(order, f) /\ name' = [name EXCEPT ![f] = n]
        /\ map' = [m \in DOMAIN map \cup {n} |-> IF m = n THEN f ELSE map[m]]
    BY <1>2 DEF Insert
  <2>2. f \in Objects /\ f \notin Range(map) /\ f \notin Range(order)
    BY DEF Unborn, Stored
  <2>3. order' \in Seq(Objects) /\ IsInjective(order') /\ Range(order') = Range(order) \cup {f}
    BY <2>1, <2>2, AppendFacts DEF Tables, InSync
  <2>4. DOMAIN map' = DOMAIN map \cup {n} /\ map'[n] = f /\ \A m \in DOMAIN map : map'[m] = map[m]
    BY <2>1, <1>2
  <2>5. Range(map') = Range(map) \cup {f}
    BY <2>4, <1>2 DEF Range
  <2>6. \A m \in DOMAIN map : map[m] \in Objects /\ map[m] # f /\ name[map[m]] = m
    <3>1. \A m \in DOMAIN map : map[m] \in Range(map)
      BY DEF Range
    <3>2. Range(map) \subseteq Objects
      BY RangeOfSeq DEF Tables, InSync, Stored
    <3> QED BY <3>1, <3>2, <2>2 DEF Tables, InSync
  <2>7. name'[f] = n /\ (\A o \in Objects \ {f} : name'[o] = name[o]) /\ name' = [o \in Objects |-> name'[o]]
    BY <2>1, <2>2 DEF Tables
  <2>8. \A m \in DOMAIN map' : name'[map'[m]] = m
    BY <2>4, <2>6, <2>7
  <2>9. map' = [m \in DOMAIN map' |-> map'[m]]
    BY <2>1
  <2>10. Range(map') = Range(order')
    BY <2>3, <2>5 DEF Tables, InSync, Stored
  <2> QED BY <2>3, <2>7, <2>8, <2>9, <2>10 DEF Tables, InSync, Stored, Range, IsInjective
<1> QED BY <1>1, <1>2

LEMMA EraseInSync ==
  ASSUME Tables, NEW f \in Stored, Erase(name[f])
  PROVE  Tables' /\ Stored' = Stored \ {f}
<1>1. PICK n : n = name[f]
  OBVIOUS
<1>2. f \in Objects /\ n \in DOMAIN map /\ map[n] = f
  BY <1>1, FoundByName
<1>3. order' = RemoveFirst(order, f) /\ map' = [m \in DOMAIN map \ {n} |-> map[m]] /\ name' = name
  BY <1>1, <1>2 DEF Erase
<1>4. order' \in Seq(Objects) /\ IsInjective(order') /\ Range(order') = Range(order) \ {f}
  BY <1>3, RemoveFirstFacts DEF Tables, InSync, Stored
<1>5. DOMAIN map' = DOMAIN map \ {n} /\ \A m \in DOMAIN map \ {n} : map'[m] = map[m] /\ map[m] # f
  BY <1>1, <1>3 DEF Tables, InSync
<1>6. Range(map') = Range(map) \ {f}
  BY <1>2, <1>5 DEF Range
<1>7. \A m \in DOMAIN map' : name'[map'[m]] = m
  BY <1>3, <1>5 DEF Tables, InSync
<1>8. map' = [m \in DOMAIN map' |-> map'[m]]
  BY <1>3
<1>9. Range(map') = Range(order')
  BY <1>4, <1>6 DEF Tables, InSync, Stored
<1>10. Range(order)' = Range(order') /\ Range(map)' = Range(map') /\ IsInjective(order)' = IsInjective(order')
  BY DEF Range, IsInjective
<1>11. InSync'
  BY <1>4, <1>7, <1>9, <1>10 DEF InSync, Stored
<1> QED BY <1>3, <1>4, <1>8, <1>10, <1>11 DEF Tables, Stored

LEMMA RenameInSync ==
  ASSUME Tables, NEW f \in Stored, NEW new, Rename(name[f], new)
  PROVE  Tables' /\ Stored' = Stored
<1>1. PICK old : old = name[f]
  OBVIOUS
<1>2. f \in Objects /\ old \in DOMAIN map /\ map[old] = f
  BY <1>1, FoundByName
<1>3. CASE new \in DOMAIN map
  BY <1>2, <1>3, <1>1, SameTables DEF Rename
<1>4. CASE new \notin DOMAIN map
  <2>1. /\ map' = [m \in (DOMAIN map \ {old}) \cup {new} |-> IF m = new THEN f ELSE map[m]]
        /\ name' = [name EXCEPT ![f] = new] /\ order' = order
    BY <1>1, <1>2, <1>4 DEF Rename
  <2>2. /\ DOMAIN map' = (DOMAIN map \ {old}) \cup {new} /\ map'[new] = f
        /\ \A m \in DOMAIN map \ {old} : map'[m] = map[m] /\ map[m] \in Objects \ {f} /\ name[map[m]] = m
    <3>1. \A m \in DOMAIN map : map[m] \in Objects /\ name[map[m]] = m
      <4>1. \A m \in DOMAIN map : map[m] \in Range(map)
        BY DEF Range
      <4>2. Range(map) \subseteq Objects
        BY RangeOfSeq DEF Tables, InSync, Stored
      <4> QED BY <4>1, <4>2 DEF Tables, InSync
    <3> QED BY <3>1, <2>1, <1>1, <1>4
  <2>3. Range(map') = Range(map)
    BY <2>2, <1>2, <1>4 DEF Range
  <2>4. name'[f] = new /\ (\A o \in Objects \ {f} : name'[o] = name[o]) /\ name' = [o \in Objects |-> name'[o]]
    BY <2>1, <1>2 DEF Tables
  <2>5. \A m \in DOMAIN map' : name'[map'[m]] = m
    BY <2>2, <2>4
  <2>6. map' = [m \in DOMAIN map' |-> map'[m]]
    BY <2>1
  <2>7. InSync'
    <3>1. Range(order)' = Range(order) /\ Range(map)' = Range(map') /\ IsInjective(order)' = IsInjective(order)
      BY <2>1 DEF Range, IsInjective
    <3> QED BY <3>1, <2>3, <2>5 DEF InSync, Tables, Stored
  <2> QED BY <2>1, <2>4, <2>6, <2>7 DEF Tables, Stored, Range
<1> QED BY <1>3, <1>4

-----------------------------------------------------------------------------
(* Module passes *)

LEMMA VisitKeeps ==
  ASSUME IInv, NEW p \in ModulePasses, Visit(p), Tables',
         \/ Stored' = Stored \/ Stored \subseteq Stored' \/ Stored' = Stored \ {Head(todo)}
  PROVE  IInv'
<1> USE DEF IInv
<1>1. /\ todo # <<>> /\ pass = p /\ pass' = pass /\ vec' = vec /\ jobs' = jobs
      /\ todo' = Tail(todo) /\ due' = due \ {Head(todo)}
  BY DEF Visit
<1>2. pass # "jobs" /\ pass # "none" /\ jobs = {} /\ \A t \in Runners : vec[t] = Idle
  BY <1>1 DEF Quiet, OtherIdle, ModulePasses
<1>3. /\ todo' \in Seq(Objects) /\ IsInjective(todo') /\ Range(todo') = Range(todo) \ {Head(todo)}
  BY <1>1, TailFacts DEF Types, Visits
<1>4. Range(todo)' = Range(todo') /\ IsInjective(todo)' = IsInjective(todo')
  BY DEF Range, IsInjective
<1>5. Types' /\ InSync'
  BY <1>1, <1>3 DEF Types, Tables
<1>6. Quiet'
  BY <1>1, <1>2 DEF Quiet, OtherIdle
<1>7. Visits'
  BY <1>1, <1>2, <1>3, <1>4 DEF Visits
<1>8. LoopsSeeLiveFunctions'
  <2>1. Range(todo') \subseteq Stored'
    BY <1>3 DEF LoopsSeeLiveFunctions
  <2> QED BY <2>1, <1>1, <1>2, <1>4 DEF LoopsSeeLiveFunctions
<1> QED BY <1>5, <1>6, <1>7, <1>8

LEMMA HeadStored ==
  ASSUME IInv, todo # <<>>
  PROVE  Tables /\ Head(todo) \in Stored
<1>1. Head(todo) \in Range(todo)
  BY TailFacts DEF IInv, Types, Visits
<1> QED BY <1>1 DEF IInv, Types, Tables, LoopsSeeLiveFunctions

LEMMA ModulePassInv ==
  ASSUME IInv, LeaveAlone \/ EraseUnused \/ RenameChanged \/ SplitRest \/ MergeGroup
  PROVE  IInv'
<1>1. todo # <<>>
  BY DEF LeaveAlone, EraseUnused, RenameChanged, SplitRest, MergeGroup, Visit
<1>2. Tables /\ Head(todo) \in Stored
  BY <1>1, HeadStored
<1>3. CASE LeaveAlone
  <2>1. PICK p \in ModulePasses : Visit(p) /\ order' = order /\ map' = map /\ name' = name
    BY <1>3 DEF LeaveAlone
  <2>2. Tables' /\ Stored' = Stored
    BY <2>1, <1>2, SameTables
  <2> QED BY <2>1, <2>2, VisitKeeps
<1>4. CASE EraseUnused
  <2>1. Visit("GDCE") /\ Erase(name[Head(todo)]) /\ "GDCE" \in ModulePasses
    BY <1>4 DEF EraseUnused, ModulePasses
  <2>2. PICK f \in Stored : f = Head(todo)
    BY <1>2
  <2>3. Tables' /\ Stored' = Stored \ {Head(todo)}
    BY <2>1, <2>2, <1>2, EraseInSync
  <2> QED BY <2>1, <2>3, VisitKeeps
<1>5. CASE RenameChanged
  <2>1. PICK f \in Stored : f = Head(todo)
    BY <1>2
  <2>2. PICK new : new = Suffixed(name[f], "MODIPCP", unique')
    OBVIOUS
  <2>3. Visit("IPCP") /\ Rename(name[f], new) /\ "IPCP" \in ModulePasses
    BY <1>5, <2>1, <2>2 DEF RenameChanged, ModulePasses
  <2>4. Tables' /\ Stored' = Stored
    BY <2>3, <1>2, RenameInSync
  <2> QED BY <2>3, <2>4, VisitKeeps
<1>6. CASE SplitRest
  <2>1. Visit("PartialInlineSplit") /\ "PartialInlineSplit" \in ModulePasses
    BY <1>6 DEF SplitRest, ModulePasses
  <2>2. PICK n : n = UniqueName(name[Head(todo)])
    OBVIOUS
  <2>3. PICK f \in Unborn : Insert(n, f)
    BY <1>6, <2>2 DEF SplitRest
  <2>4. Tables' /\ Stored \subseteq Stored'
    BY <2>3, <1>2, InsertInSync
  <2> QED BY <2>1, <2>4, VisitKeeps
<1>7. CASE MergeGroup
  <2>1. Visit("FunctionDedup") /\ "FunctionDedup" \in ModulePasses
    BY <1>7 DEF MergeGroup, ModulePasses
  <2>2. PICK n : n = Suffixed(name[Head(todo)], "_MERGED_", 0)
    OBVIOUS
  <2>3. (order' = order /\ map' = map /\ name' = name) \/ \E f \in Unborn : Insert(n, f)
    BY <1>7, <2>2 DEF MergeGroup
  <2>4. Tables' /\ Stored \subseteq Stored'
    BY <2>3, <1>2, SameTables, InsertInSync
  <2> QED BY <2>1, <2>4, VisitKeeps
<1> QED BY <1>3, <1>4, <1>5, <1>6, <1>7

-----------------------------------------------------------------------------
(* Beginning and ending a pass or a batch *)

\* Steps that leave the functions and the vectorized callees alone.
LEMMA LoopStep ==
  ASSUME IInv, order' = order, map' = map, name' = name, vec' = vec, Types', Quiet', Visits',
         Range(todo)' \subseteq Stored, jobs' \subseteq Stored
  PROVE  IInv'
<1>1. Tables
  BY DEF IInv, Types, Tables
<1>2. InSync' /\ Stored' = Stored
  BY <1>1, SameTables DEF Tables
<1> QED BY <1>2 DEF IInv, LoopsSeeLiveFunctions

LEMMA BeginInv ==
  ASSUME IInv, BeginBatch \/ \E p \in ModulePasses : BeginModulePass(p)
  PROVE  IInv'
<1> USE DEF IInv
<1>1. /\ order' = order /\ map' = map /\ name' = name /\ vec' = vec /\ jobs' = jobs
      /\ OtherIdle /\ todo' = order /\ due' = Stored /\ pass' \in ModulePasses \cup {"jobs"}
  BY DEF BeginBatch, BeginModulePass
<1>2. Types'
  BY <1>1 DEF Types
<1>3. Quiet'
  BY <1>1 DEF Quiet, OtherIdle
<1>4. Range(todo)' = Range(order) /\ IsInjective(todo)' = IsInjective(order)
  BY <1>1 DEF Range, IsInjective
<1>5. Visits'
  BY <1>1, <1>4 DEF Visits, InSync, Stored, ModulePasses
<1>6. Range(todo)' \subseteq Stored /\ jobs' \subseteq Stored
  BY <1>1, <1>4 DEF Stored, OtherIdle
<1> QED BY <1>1, <1>2, <1>3, <1>5, <1>6, LoopStep

LEMMA EndInv ==
  ASSUME IInv, EndModulePass \/ EndBatch
  PROVE  IInv'
<1> USE DEF IInv
<1>1. /\ order' = order /\ map' = map /\ name' = name /\ vec' = vec /\ jobs' = jobs
      /\ todo = <<>> /\ todo' = <<>> /\ due' = due /\ pass' = "none" /\ OtherIdle
  BY DEF EndModulePass, EndBatch, Quiet, ModulePasses
<1>2. Range(<<>>) = {} /\ IsInjective(<<>>)
  BY DEF Range, IsInjective
<1>3. due = {}
  BY <1>1, <1>2 DEF Visits, OtherIdle
<1>4. Types' /\ Quiet'
  BY <1>1 DEF Types, Quiet, OtherIdle
<1>5. Range(todo)' = {} /\ IsInjective(todo)'
  BY <1>1, <1>2 DEF Range, IsInjective
<1>6. Visits'
  BY <1>1, <1>3, <1>5 DEF Visits
<1>7. jobs' \subseteq Stored
  BY <1>1 DEF OtherIdle
<1> QED BY <1>1, <1>3, <1>4, <1>5, <1>6, <1>7, LoopStep

-----------------------------------------------------------------------------
(* Jobs *)

LEMMA PushJobInv ==
  ASSUME IInv, PushJob
  PROVE  IInv'
<1> USE DEF IInv
<1>1. /\ order' = order /\ map' = map /\ name' = name /\ vec' = vec /\ due' = due /\ pass' = pass
      /\ pass = "jobs" /\ todo # <<>> /\ todo' = Tail(todo) /\ jobs' = jobs \cup {Head(todo)}
  BY DEF PushJob
<1>2. /\ todo' \in Seq(Objects) /\ IsInjective(todo') /\ Range(todo') = Range(todo) \ {Head(todo)}
      /\ Head(todo) \in Range(todo)
  BY <1>1, TailFacts DEF Types, Visits
<1>3. Range(todo)' = Range(todo') /\ IsInjective(todo)' = IsInjective(todo')
  BY DEF Range, IsInjective
<1>4. Types' /\ Quiet'
  BY <1>1, <1>2 DEF Types, Quiet
<1>5. Visits'
  BY <1>1, <1>2, <1>3 DEF Visits
<1>6. Range(todo)' \subseteq Stored /\ jobs' \subseteq Stored
  BY <1>1, <1>2, <1>3 DEF LoopsSeeLiveFunctions
<1> QED BY <1>1, <1>4, <1>5, <1>6, LoopStep

\* A step of the vectorizer or of the thread that takes a job.
LEMMA VecStep ==
  ASSUME IInv, Tables', Stored \subseteq Stored', pass = "jobs", pass' = pass, todo' = todo,
         jobs' \subseteq jobs, due' \subseteq Range(todo) \cup jobs', vec' \in [Runners -> {Idle} \cup Busy],
         \A t \in Runners : vec'[t] # Idle => vec'[t].callee \in Stored
  PROVE  IInv'
<1> USE DEF IInv
<1>1. Types' /\ InSync' /\ Quiet'
  BY DEF Types, Tables, Quiet
<1>2. Range(todo)' = Range(todo) /\ IsInjective(todo)' = IsInjective(todo)
  BY DEF Range, IsInjective
<1>3. Visits'
  BY <1>2 DEF Visits
<1>4. LoopsSeeLiveFunctions'
  BY <1>2 DEF LoopsSeeLiveFunctions
<1> QED BY <1>1, <1>3, <1>4

LEMMA WorkingInJobs ==
  ASSUME IInv, NEW t \in Runners, vec[t] # Idle
  PROVE  pass = "jobs" /\ vec[t] \in Busy /\ vec[t].callee \in Stored /\ Tables
BY DEF IInv, Quiet, OtherIdle, Types, LoopsSeeLiveFunctions, Tables

LEMMA TakeJobInv ==
  ASSUME IInv, NEW t \in Runners, TakeJob(t)
  PROVE  IInv'
<1> USE DEF IInv
<1>1. /\ order' = order /\ map' = map /\ name' = name /\ pass' = pass /\ todo' = todo /\ pass = "jobs"
  BY DEF TakeJob
<1>2. Tables' /\ Stored' = Stored
  BY <1>1, SameTables DEF Types, Tables
<1>3. PICK f \in jobs : /\ jobs' = jobs \ {f} /\ due' = due \ {f}
                        /\ vec' = vec \/ \E g \in Stored : vec' = [vec EXCEPT ![t] = [at |-> "lookup", callee |-> g]]
  BY DEF TakeJob
<1>4. due' \subseteq Range(todo) \cup jobs'
  BY <1>3 DEF Visits
<1>5. CASE vec' = vec
  BY <1>1, <1>2, <1>3, <1>4, <1>5, VecStep DEF Types, LoopsSeeLiveFunctions
<1>6. ASSUME NEW g \in Stored, vec' = [vec EXCEPT ![t] = [at |-> "lookup", callee |-> g]]
      PROVE  IInv'
  <2>1. g \in Objects /\ [at |-> "lookup", callee |-> g] \in Busy
    BY RangeOfSeq DEF Stored, Types, Busy
  <2>2. vec' \in [Runners -> {Idle} \cup Busy]
    BY <1>6, <2>1 DEF Types
  <2>3. \A u \in Runners : vec'[u] # Idle => vec'[u].callee \in Stored
    BY <1>6 DEF Types, LoopsSeeLiveFunctions
  <2> QED BY <2>2, <2>3, <1>1, <1>2, <1>3, <1>4, VecStep
<1> QED BY <1>3, <1>5, <1>6

LEMMA VecLookupInv ==
  ASSUME IInv, NEW t \in Runners, VecLookup(t)
  PROVE  IInv'
<1> USE DEF IInv
<1>1. vec[t] # Idle
  BY DEF VecLookup, Idle
<1>2. pass = "jobs" /\ vec[t] \in Busy /\ vec[t].callee \in Stored /\ Tables
  BY <1>1, WorkingInJobs
<1>3. /\ order' = order /\ map' = map /\ name' = name /\ pass' = pass /\ todo' = todo
      /\ jobs' = jobs /\ due' = due
  BY DEF VecLookup
<1>4. Tables' /\ Stored' = Stored
  BY <1>2, <1>3, SameTables
<1>5. vec'[t] = Idle \/ (vec'[t] \in Busy /\ vec'[t].callee = vec[t].callee)
  BY <1>2 DEF VecLookup, Types, Busy
<1>6. \A u \in Runners \ {t} : vec'[u] = vec[u]
  BY DEF VecLookup, Types
<1>7. vec' \in [Runners -> {Idle} \cup Busy]
  <2>1. vec' = [u \in Runners |-> vec'[u]]
    BY DEF VecLookup, Types
  <2> QED BY <2>1, <1>5, <1>6 DEF Types
<1>8. \A u \in Runners : vec'[u] # Idle => vec'[u].callee \in Stored
  BY <1>2, <1>5, <1>6 DEF LoopsSeeLiveFunctions
<1> QED BY <1>2, <1>3, <1>4, <1>7, <1>8, VecStep DEF Visits

LEMMA VecCreateInv ==
  ASSUME IInv, NEW t \in Runners, VecCreate(t)
  PROVE  IInv'
<1> USE DEF IInv
<1>1. vec[t] # Idle
  BY DEF VecCreate, Idle
<1>2. pass = "jobs" /\ Tables
  BY <1>1, WorkingInJobs
<1>3. PICK n : n = WfName(t)
  OBVIOUS
<1>4. PICK f \in Unborn : Insert(n, f)
  BY <1>3 DEF VecCreate
<1>5. /\ pass' = pass /\ todo' = todo /\ jobs' = jobs /\ due' = due /\ vec' = [vec EXCEPT ![t] = Idle]
  BY DEF VecCreate
<1>6. Tables' /\ Stored \subseteq Stored'
  BY <1>2, <1>4, InsertInSync
<1>7. vec' \in [Runners -> {Idle} \cup Busy]
  BY <1>5 DEF Types
<1>8. \A u \in Runners : vec'[u] # Idle => vec'[u].callee \in Stored
  BY <1>5 DEF Types, LoopsSeeLiveFunctions
<1> QED BY <1>2, <1>5, <1>6, <1>7, <1>8, VecStep DEF Visits

-----------------------------------------------------------------------------
(* The invariant and what follows from it *)

LEMMA InitInv ==
  ASSUME Init
  PROVE  IInv
<1>1. PICK f \in [1..Len(Start) -> Objects] :
        /\ IsInjective(f) /\ order = f
        /\ map = [n \in Range(Start) |-> f[CHOOSE i \in DOMAIN Start : Start[i] = n]]
        /\ name = [o \in Objects |-> IF o \in Range(f)
                                     THEN Start[CHOOSE i \in DOMAIN f : f[i] = o] ELSE <<>>]
  BY DEF Init
<1>2. /\ pass = "none" /\ todo = <<>> /\ due = {} /\ jobs = {} /\ vec = [t \in Runners |-> Idle]
  BY DEF Init
<1>3. Len(Start) \in Nat /\ DOMAIN Start = 1..Len(Start) /\ DOMAIN f = 1..Len(Start)
  BY StartAssumption
<1>4. \A i \in 1..Len(Start) : (CHOOSE j \in DOMAIN Start : Start[j] = Start[i]) = i
  BY <1>3, StartAssumption DEF IsInjective
<1>5. \A i \in 1..Len(Start) : (CHOOSE j \in DOMAIN f : f[j] = f[i]) = i
  BY <1>1, <1>3 DEF IsInjective
<1>6. \A i \in 1..Len(Start) : /\ Start[i] \in Range(Start) /\ map[Start[i]] = f[i]
                               /\ f[i] \in Objects /\ name[f[i]] = Start[i]
  <2> SUFFICES ASSUME NEW i \in 1..Len(Start)
               PROVE  /\ Start[i] \in Range(Start) /\ map[Start[i]] = f[i]
                      /\ f[i] \in Objects /\ name[f[i]] = Start[i]
    OBVIOUS
  <2>1. Start[i] \in Range(Start) /\ f[i] \in Objects /\ f[i] \in Range(f)
    BY <1>3 DEF Range
  <2>2. map[Start[i]] = f[i]
    BY <2>1, <1>1, <1>4
  <2>3. name[f[i]] = Start[i]
    BY <2>1, <1>1, <1>5
  <2> QED BY <2>1, <2>2, <2>3
<1>7. DOMAIN map = Range(Start) /\ \A n \in DOMAIN map : \E i \in 1..Len(Start) : n = Start[i]
  BY <1>1, <1>3 DEF Range
<1>8. InSync
  <2>1. Range(map) = Range(order)
    <3>1. \A i \in 1..Len(Start) : f[i] \in Range(map)
      BY <1>6, <1>7 DEF Range
    <3>2. \A n \in DOMAIN map : map[n] \in Range(f)
      BY <1>3, <1>6, <1>7 DEF Range
    <3>3. Range(f) \subseteq Range(map)
      BY <3>1, <1>3 DEF Range
    <3>4. Range(map) \subseteq Range(f)
      BY <3>2 DEF Range
    <3> QED BY <3>3, <3>4, <1>1
  <2>2. \A n \in DOMAIN map : name[map[n]] = n
    BY <1>6, <1>7
  <2> QED BY <2>1, <2>2, <1>1 DEF InSync, Stored
<1>9. Types
  <2>1. order \in Seq(Objects) /\ todo \in Seq(Objects)
    BY <1>1, <1>2, <1>3
  <2> QED BY <2>1, <1>1, <1>2 DEF Types
<1>10. Range(<<>>) = {} /\ IsInjective(<<>>)
  BY DEF Range, IsInjective
<1>11. Quiet /\ Visits /\ LoopsSeeLiveFunctions
  BY <1>2, <1>10 DEF Quiet, OtherIdle, Visits, LoopsSeeLiveFunctions
<1> QED BY <1>8, <1>9, <1>11 DEF IInv

LEMMA StutterInv ==
  ASSUME IInv, UNCHANGED vars
  PROVE  IInv'
<1> USE DEF IInv, vars
<1>1. Types' /\ Quiet'
  BY DEF Types, Quiet, OtherIdle
<1>2. Visits' /\ Range(todo)' = Range(todo)
  BY DEF Visits, Range, IsInjective
<1>3. Range(todo)' \subseteq Stored /\ jobs' \subseteq Stored
  BY <1>2 DEF LoopsSeeLiveFunctions
<1> QED BY <1>1, <1>2, <1>3, LoopStep

LEMMA NextInv ==
  ASSUME IInv, [Next]_vars
  PROVE  IInv'
<1>1. ASSUME NEW t \in Runners, TakeJob(t) \/ VecLookup(t) \/ VecCreate(t)
      PROVE  IInv'
  BY <1>1, TakeJobInv, VecLookupInv, VecCreateInv
<1>2. (BeginBatch \/ \E p \in ModulePasses : BeginModulePass(p)) => IInv'
  BY BeginInv
<1>3. (LeaveAlone \/ EraseUnused \/ RenameChanged \/ SplitRest \/ MergeGroup) => IInv'
  BY ModulePassInv
<1>4. (EndModulePass \/ EndBatch) => IInv'
  BY EndInv
<1>5. PushJob => IInv'
  BY PushJobInv
<1>6. (Finished \/ OutOfObjects \/ UNCHANGED vars) => IInv'
  BY StutterInv DEF Finished, OutOfObjects
<1> QED BY <1>1, <1>2, <1>3, <1>4, <1>5, <1>6 DEF Next

LEMMA Invariant == Spec => []IInv
<1>1. Init => IInv
  BY InitInv
<1>2. IInv /\ [Next]_vars => IInv'
  BY NextInv
<1> QED BY <1>1, <1>2, PTL DEF Spec

\* Whatever passes insert, erase and rename, the vector holds each function of the map
\* once and nothing else, and a function is found under the name it carries.
THEOREM MapAndVectorInSync == Spec => []InSync
<1>1. IInv => InSync
  BY DEF IInv
<1>2. Spec => []IInv
  BY Invariant
<1> QED BY <1>1, <1>2, PTL

\* No loop over the functions, no job and no vectorized callee is ever an erased
\* function.
THEOREM LoopsReachLiveFunctions == Spec => []LoopsSeeLiveFunctions
<1>1. IInv => LoopsSeeLiveFunctions
  BY DEF IInv
<1>2. Spec => []IInv
  BY Invariant
<1> QED BY <1>1, <1>2, PTL

\* Each pass and batch hands every function it found to its body, although the loops
\* insert and erase functions on their way.
THEOREM EveryFunctionVisited == Spec => []NoFunctionPassedOver
<1>1. IInv => NoFunctionPassedOver
  <2>1. Range(<<>>) = {}
    BY DEF Range
  <2> QED BY <2>1 DEF IInv, Visits, Quiet, OtherIdle, NoFunctionPassedOver
<1>2. Spec => []IInv
  BY Invariant
<1> QED BY <1>1, <1>2, PTL

-----------------------------------------------------------------------------
(* States of the lists *)

AnyValue == Tracked \cup Untracked \cup {Invalid}
Pos      == Instrs \X {"NormalArg", "BB", "BBArg"} \X Nat \X Nat
Target   == [bb : AnyValue, args : Seq(AnyValue)]
Steps    == [value : AnyValue, from : Pos \cup {NoUse}, to : Pos \cup {NoUse}]
States   == [args : [Instrs -> Seq(AnyValue)], bbs : [Instrs -> Seq(Target)],
             uses : [Tracked -> Seq(Pos)], missing : BOOLEAN]

Bit(b) == IF b THEN 1 ELSE 0
Listed(s, v, u) == Tally(s.uses[v], u)
SameShape(s, t) == t.args = s.args /\ t.bbs = s.bbs

LEMMA NoUseIsNone == NoUse \notin Pos
BY DEF NoUse, Pos

LEMMA ListedNat ==
  ASSUME NEW s \in States, NEW v \in Tracked, NEW u
  PROVE  /\ s.uses[v] \in Seq(Pos) /\ Listed(s, v, u) \in Nat
         /\ Listed(s, v, u) = 0 <=> u \notin Range(s.uses[v])
<1>1. s.uses[v] \in Seq(Pos)
  BY DEF States
<1> QED BY <1>1, TallyFacts DEF Listed

LEMMA AddUsageIs ==
  ASSUME NEW s \in States, NEW v \in AnyValue, NEW u \in Pos \cup {NoUse}
  PROVE  /\ AddUsage(s, v, u) \in States /\ SameShape(s, AddUsage(s, v, u))
         /\ AddUsage(s, v, u).missing = s.missing
         /\ \A x \in Tracked, y \in Pos :
              Listed(AddUsage(s, v, u), x, y) = Listed(s, x, y) + Bit(x = v /\ y = u)
<1>1. PICK r : r = AddUsage(s, v, u)
  OBVIOUS
<1>2. \A x \in Tracked, y \in Pos : Listed(s, x, y) \in Nat
  BY ListedNat
<1>3. CASE v \in Tracked /\ u # NoUse
  <2>1. PICK q : q = s.uses[v]
    OBVIOUS
  <2>2. q \in Seq(Pos) /\ u \in Pos
    BY <2>1, <1>3 DEF States
  <2>3. r = [s EXCEPT !.uses[v] = Append(q, u)]
    BY <1>1, <1>3, <2>1 DEF AddUsage
  <2>4. Append(q, u) \in Seq(Pos) /\ \A y : Tally(Append(q, u), y) = Tally(q, y) + (IF y = u THEN 1 ELSE 0)
    BY <2>2, TallyAppend
  <2>5. /\ r \in States /\ SameShape(s, r) /\ r.missing = s.missing
        /\ r.uses[v] = Append(q, u) /\ \A x \in Tracked \ {v} : r.uses[x] = s.uses[x]
    BY <2>3, <2>4, <1>3 DEF States, SameShape
  <2>6. ASSUME NEW x \in Tracked, NEW y \in Pos
        PROVE  Listed(r, x, y) = Listed(s, x, y) + Bit(x = v /\ y = u)
    <3>1. CASE x = v
      BY <3>1, <2>1, <2>4, <2>5 DEF Listed, Bit
    <3>2. CASE x # v
      BY <3>2, <2>5, <1>2 DEF Listed, Bit
    <3> QED BY <3>1, <3>2
  <2> QED BY <2>5, <2>6, <1>1
<1>4. CASE ~(v \in Tracked /\ u # NoUse)
  <2>1. r = s
    BY <1>1, <1>4 DEF AddUsage
  <2>2. \A x \in Tracked, y \in Pos : ~(x = v /\ y = u)
    BY <1>4, NoUseIsNone
  <2> QED BY <1>1, <1>2, <2>1, <2>2 DEF SameShape, Bit
<1> QED BY <1>3, <1>4

RemovesOnly(s, t, v, u) ==
  /\ t.missing = s.missing
  /\ \A x \in Tracked, y \in Pos : Listed(t, x, y) = Listed(s, x, y) - Bit(x = v /\ y = u)

LEMMA RemoveUsageIs ==
  ASSUME NEW s \in States, NEW v \in AnyValue, NEW u \in Pos \cup {NoUse}, NEW verify \in BOOLEAN
  PROVE  /\ RemoveUsage(s, v, u, verify) \in States
         /\ SameShape(s, RemoveUsage(s, v, u, verify))
         /\ (v \in Tracked /\ u # NoUse => Listed(s, v, u) # 0) =>
              RemovesOnly(s, RemoveUsage(s, v, u, verify), v, u)
<1>1. PICK r : r = RemoveUsage(s, v, u, verify)
  OBVIOUS
<1>2. \A x \in Tracked, y \in Pos : Listed(s, x, y) \in Nat
  BY ListedNat
<1>3. CASE v \notin Tracked \/ u = NoUse
  <2>1. r = s
    BY <1>1, <1>3 DEF RemoveUsage
  <2>2. \A x \in Tracked, y \in Pos : ~(x = v /\ y = u)
    BY <1>3, NoUseIsNone
  <2> QED BY <1>1, <1>2, <2>1, <2>2 DEF SameShape, RemovesOnly, Bit
<1>4. CASE v \in Tracked /\ u # NoUse /\ u \in Range(s.uses[v])
  <2>1. PICK q : q = s.uses[v]
    OBVIOUS
  <2>2. q \in Seq(Pos) /\ u \in Range(q)
    BY <2>1, <1>4 DEF States
  <2>3. PICK p : p = RemoveFirst(q, u)
    OBVIOUS
  <2>4. r = [s EXCEPT !.uses[v] = p]
    BY <1>1, <1>4, <2>1, <2>3 DEF RemoveUsage
  <2>5. p \in Seq(Pos) /\ \A y : Tally(p, y) = Tally(q, y) - (IF y = u THEN 1 ELSE 0)
    BY <2>2, <2>3, TallyRemoveFirst
  <2>6. /\ r \in States /\ SameShape(s, r) /\ r.missing = s.missing
        /\ r.uses[v] = p /\ \A x \in Tracked \ {v} : r.uses[x] = s.uses[x]
    BY <2>4, <2>5, <1>4 DEF States, SameShape
  <2>7. ASSUME NEW x \in Tracked, NEW y \in Pos
        PROVE  Listed(r, x, y) = Listed(s, x, y) - Bit(x = v /\ y = u)
    <3>1. CASE x = v
      BY <3>1, <2>1, <2>5, <2>6 DEF Listed, Bit
    <3>2. CASE x # v
      BY <3>2, <2>6, <1>2 DEF Listed, Bit
    <3> QED BY <3>1, <3>2
  <2> QED BY <2>6, <2>7, <1>1 DEF RemovesOnly
<1>5. CASE v \in Tracked /\ u # NoUse /\ u \notin Range(s.uses[v])
  <2>1. r = [s EXCEPT !.missing = s.missing \/ verify]
    BY <1>1, <1>5 DEF RemoveUsage
  <2>2. r \in States /\ SameShape(s, r)
    BY <2>1 DEF States, SameShape
  <2>3. Listed(s, v, u) = 0
    BY <1>5, ListedNat
  <2> QED BY <1>1, <1>5, <2>2, <2>3
<1> QED BY <1>3, <1>4, <1>5

-----------------------------------------------------------------------------
(* A loop over a sequence, as the states between its rounds *)

\* A solution of the recursion of FoldLeft on the subsets of 1 .. n.
Folds(g, n, base, f) ==
  /\ g[{}] = base
  /\ \A s \in SUBSET (1 .. n) : s # {} =>
       /\ Max(s) \in 1 .. n /\ s \ {Max(s)} \in SUBSET (1 .. n)
       /\ g[s] = f[<<Max(s), g[s \ {Max(s)}]>>]

\* The same for one that is not known to stay in A.
FoldsWithin(g, n, A, base, f) ==
  /\ g[{}] = base
  /\ \A s \in SUBSET (1 .. n) : s # {} /\ g[s \ {Max(s)}] \in A =>
       g[s] = f[<<Max(s), g[s \ {Max(s)}]>>]

\* The states between the rounds.
Chains(c, n, base, f, last) ==
  /\ c[0] = base /\ c[n] = last
  /\ \A k \in 1 .. n : c[k] = f[<<k, c[k - 1]>>]

LEMMA FoldExists ==
  ASSUME NEW n \in Nat, NEW A, NEW base \in A, NEW f \in [(1 .. n) \X A -> A]
  PROVE  \E g \in [SUBSET (1 .. n) -> A] : Folds(g, n, base, f)
<1>1. PICK D : D = 1 .. n
  OBVIOUS
<1>2. PICK ch : ch = [s \in SUBSET D |-> Max(s)]
  OBVIOUS
<1>3. \A s \in SUBSET D : s # {} => ch[s] = Max(s) /\ Max(s) \in s
  <2>1. \A s \in SUBSET D : s # {} => Max(s) \in s
    BY <1>1, Extremes
  <2> QED BY <1>2, <2>1
<1>4. IsFiniteSet(D) /\ f \in [D \X A -> A]
  BY <1>1, FS_Interval
<1>5. \A s \in SUBSET D : s # {} => ch[s] \in s
  BY <1>3
<1>6. PICK g \in [SUBSET D -> A] : Solves(g, D, base, ch, f)
  BY <1>4, <1>5, SolutionExists
<1>7. g[{}] = base
  BY <1>6 DEF Solves
<1>8. ASSUME NEW s \in SUBSET D, s # {}
      PROVE  /\ Max(s) \in D /\ s \ {Max(s)} \in SUBSET D
             /\ g[s] = f[<<Max(s), g[s \ {Max(s)}]>>]
  <2>1. g[s] = f[<<ch[s], g[s \ {ch[s]}]>>]
    BY <1>6, <1>8 DEF Solves
  <2>2. ch[s] = Max(s) /\ Max(s) \in s
    BY <1>3, <1>8
  <2> QED BY <2>1, <2>2
<1> QED BY <1>1, <1>7, <1>8 DEF Folds

\* Any solution goes through the elements from the first to the last.
LEMMA FoldChain ==
  ASSUME NEW n \in Nat, NEW A, NEW base \in A, NEW f \in [(1 .. n) \X A -> A], NEW h,
         FoldsWithin(h, n, A, base, f)
  PROVE  \E c \in [0 .. n -> A] : Chains(c, n, base, f, h[1 .. n])
<1>1. ASSUME NEW k \in 1 .. n
      PROVE  /\ 1 .. k \in SUBSET (1 .. n) /\ 1 .. k # {} /\ Max(1 .. k) = k
             /\ (1 .. k) \ {k} = 1 .. (k - 1)
  <2>1. Max(1 .. k) = k
    <3>1. k \in 1 .. k /\ \A y \in 1 .. k : k >= y
      OBVIOUS
    <3>2. \A x \in 1 .. k : (\A y \in 1 .. k : x >= y) => x = k
      OBVIOUS
    <3> QED BY <3>1, <3>2, Zenon DEF Max
  <2>2. 1 .. k \in SUBSET (1 .. n) /\ k \in 1 .. k
    OBVIOUS
  <2>3. (1 .. k) \ {k} = 1 .. (k - 1)
    OBVIOUS
  <2> QED BY <2>1, <2>2, <2>3
<1>2. \A k \in 1 .. n : h[1 .. (k - 1)] \in A => h[1 .. k] = f[<<k, h[1 .. (k - 1)]>>]
  <2> SUFFICES ASSUME NEW k \in 1 .. n, h[1 .. (k - 1)] \in A
               PROVE  h[1 .. k] = f[<<k, h[1 .. (k - 1)]>>]
    OBVIOUS
  <2>1. PICK s : s = 1 .. k
    OBVIOUS
  <2>2. s \in SUBSET (1 .. n) /\ s # {} /\ Max(s) = k /\ s \ {k} = 1 .. (k - 1)
    BY <1>1, <2>1
  <2>3. h[s \ {Max(s)}] \in A
    BY <2>2
  <2>4. h[s] = f[<<Max(s), h[s \ {Max(s)}]>>]
    BY <2>2, <2>3 DEF FoldsWithin
  <2> QED BY <2>1, <2>2, <2>4
<1>3. h[1 .. 0] = base
  <2>1. 1 .. 0 = {}
    OBVIOUS
  <2> QED BY <2>1 DEF FoldsWithin
<1>4. \A k \in 0 .. n : h[1 .. k] \in A
  <2> DEFINE G == {k \in 0 .. n : h[1 .. k] \in A}
  <2>1. 0 \in G
    BY <1>3
  <2>2. ASSUME NEW k \in 1 .. n, k - 1 \in G PROVE k \in G
    <3>1. h[1 .. (k - 1)] \in A /\ k \in 0 .. n
      BY <2>2
    <3>2. h[1 .. k] = f[<<k, h[1 .. (k - 1)]>>]
      BY <3>1, <1>2
    <3> QED BY <3>1, <3>2
  <2>3. \A k \in 0 .. n : k \in G
    <3> HIDE DEF G
    <3> QED BY <2>1, <2>2, UpTo
  <2> QED BY <2>3
<1>5. PICK c : c = [k \in 0 .. n |-> h[1 .. k]]
  OBVIOUS
<1>6. c \in [0 .. n -> A] /\ c[0] = base /\ c[n] = h[1 .. n]
  BY <1>3, <1>4, <1>5
<1>7. \A k \in 1 .. n : k - 1 \in 0 .. n /\ k \in 0 .. n
  OBVIOUS
<1>8. \A k \in 1 .. n : c[k] = f[<<k, c[k - 1]>>]
  BY <1>2, <1>4, <1>5, <1>7
<1> QED BY <1>6, <1>8 DEF Chains

\* The rounds of Relist.
Round(t, m) == AddUsage(RemoveUsage(t, m.value, m.from, TRUE), m.value, m.to)

LEMMA RoundIn ==
  ASSUME NEW t \in States, NEW m \in Steps
  PROVE  Round(t, m) \in States /\ SameShape(t, Round(t, m))
<1>1. /\ m.value \in AnyValue /\ m.from \in Pos \cup {NoUse} /\ m.to \in Pos \cup {NoUse}
  BY DEF Steps
<1>2. PICK r : r = RemoveUsage(t, m.value, m.from, TRUE)
  OBVIOUS
<1>3. r \in States /\ SameShape(t, r)
  BY <1>1, <1>2, RemoveUsageIs
<1>4. AddUsage(r, m.value, m.to) \in States /\ SameShape(r, AddUsage(r, m.value, m.to))
  BY <1>1, <1>3, AddUsageIs
<1> QED BY <1>2, <1>3, <1>4 DEF Round, SameShape

LEMMA RelistRounds ==
  ASSUME NEW s \in States, NEW steps \in Seq(Steps)
  PROVE  \E c \in [0 .. Len(steps) -> States] :
           /\ c[0] = s /\ c[Len(steps)] = Relist(s, steps)
           /\ \A k \in 1 .. Len(steps) : c[k] = Round(c[k - 1], steps[k])
<1>5. PICK n \in Nat : n = Len(steps)
  OBVIOUS
<1> DEFINE D == 1 .. n
           P(g) == g = [a \in SUBSET D |->
                          IF a = {} THEN s
                          ELSE AddUsage(RemoveUsage(g[a \ {Max(a)}], steps[Max(a)].value,
                                                    steps[Max(a)].from, TRUE),
                                        steps[Max(a)].value, steps[Max(a)].to)]
           Q(g) == g = [a \in SUBSET D |->
                          IF a = {} THEN s ELSE Round(g[a \ {Max(a)}], steps[Max(a)])]
<1>1. Relist(s, steps) = (CHOOSE g : P(g))[D]
  <2>1. DOMAIN steps = D
    BY <1>5
  <2> QED BY <2>1, Zenon DEF Relist, FoldLeft, MapThenFoldSet
<1>2. \A g : P(g) <=> Q(g)
  BY Zenon DEF Round
<1>3. PICK f : f = [p \in D \X States |-> Round(p[2], steps[p[1]])]
  OBVIOUS
<1>4. /\ f \in [D \X States -> States]
      /\ \A k \in D, t \in States : f[<<k, t>>] = Round(t, steps[k])
  <2>1. \A k \in D : steps[k] \in Steps
    BY <1>5
  <2>2. \A k \in D, t \in States : Round(t, steps[k]) \in States
    BY <2>1, RoundIn
  <2> QED BY <1>3, <2>2
<1>6. PICK g \in [SUBSET D -> States] : Folds(g, n, s, f)
  BY <1>4, FoldExists
<1>7. Q(g)
  <2>1. \A a \in SUBSET D : a # {} => g[a] = Round(g[a \ {Max(a)}], steps[Max(a)])
    BY <1>4, <1>6 DEF Folds
  <2>2. g = [a \in SUBSET D |-> g[a]]
    OBVIOUS
  <2>3. \A a \in SUBSET D :
          g[a] = IF a = {} THEN s ELSE Round(g[a \ {Max(a)}], steps[Max(a)])
    BY <1>6, <2>1 DEF Folds
  <2> QED BY <2>2, <2>3, Zenon
<1>8. PICK h : h = CHOOSE k : P(k)
  OBVIOUS
<1>9. Q(h)
  <2>1. P(g)
    BY <1>2, <1>7, Zenon
  <2>2. P(h)
    BY <2>1, <1>8, Zenon
  <2> QED BY <1>2, <2>2, Zenon
<1>10. \A a \in SUBSET D :
          h[a] = IF a = {} THEN s ELSE Round(h[a \ {Max(a)}], steps[Max(a)])
  BY <1>9, Zenon
<1> HIDE DEF P, Q
<1>11. h[{}] = s
  BY <1>10
<1>12. ASSUME NEW a \in SUBSET D, a # {}, h[a \ {Max(a)}] \in States
       PROVE  h[a] = f[<<Max(a), h[a \ {Max(a)}]>>]
  <2>1. Max(a) \in D
    BY <1>6, <1>12 DEF Folds
  <2> QED BY <2>1, <1>4, <1>10, <1>12
<1>13. FoldsWithin(h, n, States, s, f)
  BY <1>11, <1>12 DEF FoldsWithin
<1>15. PICK c \in [0 .. n -> States] : Chains(c, n, s, f, h[1 .. n])
  BY <1>4, <1>13, FoldChain
<1>14. \A k \in 1 .. n : c[k] = Round(c[k - 1], steps[k])
  <2>1. \A k \in 1 .. n : k - 1 \in 0 .. n
    OBVIOUS
  <2> QED BY <1>4, <1>15, <2>1 DEF Chains
<1>16. c[0] = s /\ c[n] = h[D]
  BY <1>15 DEF Chains
<1> QED BY <1>1, <1>5, <1>8, <1>14, <1>16

-----------------------------------------------------------------------------
(* What a loop does to the lists: the records it takes out and those it puts in *)

Taken(S, v, u) == \E m \in S : m.value = v /\ m.from = u
Given(S, v, u) == \E m \in S : m.value = v /\ m.to = u

Present(s, S) ==
  \A m \in S : m.value \in Tracked /\ m.from # NoUse => Listed(s, m.value, m.from) # 0

Apart(S, T) ==
  \A m \in S, o \in T : /\ m.from # NoUse => m.from # o.from
                        /\ m.to # NoUse => m.to # o.to

Relists(s, t, S) ==
  /\ SameShape(s, t) /\ t.missing = s.missing
  /\ \A v \in Tracked, u \in Pos :
       Listed(t, v, u) = Listed(s, v, u) - Bit(Taken(S, v, u)) + Bit(Given(S, v, u))

LEMMA RoundRelists ==
  ASSUME NEW t \in States, NEW m \in Steps, Present(t, {m})
  PROVE  Relists(t, Round(t, m), {m})
<1>1. m.value \in AnyValue /\ m.from \in Pos \cup {NoUse} /\ m.to \in Pos \cup {NoUse}
  BY DEF Steps
<1>9. PICK yes \in BOOLEAN : yes = TRUE
  OBVIOUS
<1>2. PICK r : r = RemoveUsage(t, m.value, m.from, yes)
  OBVIOUS
<1>3. m.value \in Tracked /\ m.from # NoUse => Listed(t, m.value, m.from) # 0
  BY DEF Present
<1>10. RemovesOnly(t, r, m.value, m.from)
  BY <1>1, <1>2, <1>3, RemoveUsageIs
<1>4. /\ r \in States /\ SameShape(t, r) /\ r.missing = t.missing
      /\ \A v \in Tracked, u \in Pos :
           Listed(r, v, u) = Listed(t, v, u) - Bit(v = m.value /\ u = m.from)
  <2>1. r \in States /\ SameShape(t, r)
    BY <1>1, <1>2, RemoveUsageIs
  <2> QED BY <2>1, <1>10 DEF RemovesOnly
<1>5. PICK q : q = AddUsage(r, m.value, m.to)
  OBVIOUS
<1>6. /\ SameShape(r, q) /\ q.missing = r.missing
      /\ \A v \in Tracked, u \in Pos :
           Listed(q, v, u) = Listed(r, v, u) + Bit(v = m.value /\ u = m.to)
  BY <1>1, <1>4, <1>5, AddUsageIs
<1>7. \A v, u : /\ Taken({m}, v, u) <=> (v = m.value /\ u = m.from)
                /\ Given({m}, v, u) <=> (v = m.value /\ u = m.to)
  BY DEF Taken, Given
<1>8. \A v \in Tracked, u \in Pos :
        Listed(q, v, u) = Listed(t, v, u) - Bit(Taken({m}, v, u)) + Bit(Given({m}, v, u))
  BY <1>4, <1>6, <1>7 DEF Bit
<1>11. Round(t, m) = q
  BY <1>2, <1>5, <1>9, Zenon DEF Round
<1> QED BY <1>4, <1>6, <1>8, <1>11 DEF Relists, SameShape

\* Two loops, one after the other, that change different records.
LEMMA RelistsTwice ==
  ASSUME NEW s \in States, NEW t \in States, NEW r \in States,
         NEW S, NEW T, NEW Z, Z = S \cup T, Apart(S, T), Relists(s, t, S), Relists(t, r, T)
  PROVE  Relists(s, r, Z)
<1>1. SameShape(s, r) /\ r.missing = s.missing
  BY DEF Relists, SameShape
<1>2. ASSUME NEW v \in Tracked, NEW u \in Pos
      PROVE  Listed(r, v, u) = Listed(s, v, u) - Bit(Taken(Z, v, u)) + Bit(Given(Z, v, u))
  <2>1. Listed(s, v, u) \in Nat /\ Listed(t, v, u) \in Nat /\ Listed(r, v, u) \in Nat
    BY ListedNat
  <2>2. /\ Taken(Z, v, u) <=> Taken(S, v, u) \/ Taken(T, v, u)
        /\ Given(Z, v, u) <=> Given(S, v, u) \/ Given(T, v, u)
    BY DEF Taken, Given
  <2>3. u # NoUse
    BY NoUseIsNone
  <2>4. ~(Taken(S, v, u) /\ Taken(T, v, u)) /\ ~(Given(S, v, u) /\ Given(T, v, u))
    BY <2>3 DEF Taken, Given, Apart
  <2>5. /\ Listed(t, v, u) = Listed(s, v, u) - Bit(Taken(S, v, u)) + Bit(Given(S, v, u))
        /\ Listed(r, v, u) = Listed(t, v, u) - Bit(Taken(T, v, u)) + Bit(Given(T, v, u))
    BY DEF Relists
  <2> QED BY <2>1, <2>2, <2>4, <2>5 DEF Bit
<1> QED BY <1>1, <1>2 DEF Relists

\* What is there stays there while other records change.
LEMMA PresentKept ==
  ASSUME NEW s \in States, NEW t \in States, NEW S, NEW T \in SUBSET Steps,
         Apart(S, T), Relists(s, t, S), Present(s, T)
  PROVE  Present(t, T)
<1> SUFFICES ASSUME NEW m \in T, m.value \in Tracked, m.from # NoUse
             PROVE  Listed(t, m.value, m.from) # 0
  BY DEF Present
<1>1. PICK v \in Tracked : v = m.value
  OBVIOUS
<1>2. PICK u \in Pos : u = m.from
  BY DEF Steps
<1>3. Listed(s, v, u) # 0 /\ Listed(s, v, u) \in Nat /\ Listed(t, v, u) \in Nat
  BY <1>1, <1>2, ListedNat DEF Present
<1>4. ~Taken(S, v, u)
  BY <1>2 DEF Taken, Apart
<1>5. Listed(t, v, u) = Listed(s, v, u) - Bit(Taken(S, v, u)) + Bit(Given(S, v, u))
  BY DEF Relists
<1> QED BY <1>1, <1>2, <1>3, <1>4, <1>5 DEF Bit

LEMMA LoopRelists ==
  ASSUME NEW n \in Nat, NEW c \in [0 .. n -> States], NEW S \in [1 .. n -> SUBSET Steps],
         \A k, l \in 1 .. n : k # l => Apart(S[k], S[l]),
         \A k \in 1 .. n : Present(c[0], S[k]),
         \A k \in 1 .. n : Present(c[k - 1], S[k]) => Relists(c[k - 1], c[k], S[k])
  PROVE  Relists(c[0], c[n], UNION {S[k] : k \in 1 .. n})
<1> DEFINE Done(k) == UNION {S[l] : l \in 1 .. k}
           G == {k \in 0 .. n : Relists(c[0], c[k], Done(k))}
<1>1. 0 \in G
  <2>1. PICK E : E = Done(0)
    OBVIOUS
  <2>2. E = {} /\ 0 \in 0 .. n
    BY <2>1
  <2>3. \A v, u : ~Taken(E, v, u) /\ ~Given(E, v, u)
    BY <2>2 DEF Taken, Given
  <2>4. \A v \in Tracked, u \in Pos : Listed(c[0], v, u) \in Nat
    BY <2>2, ListedNat
  <2>5. Relists(c[0], c[0], E)
    BY <2>3, <2>4 DEF Relists, SameShape, Bit
  <2> QED BY <2>1, <2>2, <2>5
<1>2. ASSUME NEW k \in 1 .. n, k - 1 \in G PROVE k \in G
  <2>1. k - 1 \in 0 .. n /\ k \in 0 .. n /\ 0 \in 0 .. n
    OBVIOUS
  <2>2. PICK D : D = Done(k - 1)
    OBVIOUS
  <2>3. Relists(c[0], c[k - 1], D)
    BY <1>2, <2>2
  <2>4. Apart(D, S[k])
    <3>1. ASSUME NEW m \in D, NEW o \in S[k]
          PROVE  (m.from # NoUse => m.from # o.from) /\ (m.to # NoUse => m.to # o.to)
      <4>1. PICK l \in 1 .. (k - 1) : m \in S[l]
        BY <2>2
      <4>2. l \in 1 .. n /\ l # k
        OBVIOUS
      <4> QED BY <4>1, <4>2 DEF Apart
    <3> QED BY <3>1 DEF Apart
  <2>5. Present(c[k - 1], S[k])
    BY <2>1, <2>3, <2>4, PresentKept
  <2>6. Relists(c[k - 1], c[k], S[k])
    BY <2>5
  <2>7. PICK Z : Z = Done(k)
    OBVIOUS
  <2>8. Z = D \cup S[k]
    <3>1. \A l \in 1 .. k : l \in 1 .. (k - 1) \/ l = k
      OBVIOUS
    <3>2. \A l \in 1 .. (k - 1) : l \in 1 .. k
      OBVIOUS
    <3>3. k \in 1 .. k
      OBVIOUS
    <3> QED BY <2>2, <2>7, <3>1, <3>2, <3>3
  <2>9. Relists(c[0], c[k], Z)
    BY <2>1, <2>3, <2>4, <2>6, <2>8, RelistsTwice
  <2> QED BY <2>1, <2>7, <2>9
<1>3. n \in G
  <2>1. n \in 0 .. n
    OBVIOUS
  <2> HIDE DEF G
  <2> QED BY <2>1, <1>1, <1>2, UpTo
<1> QED BY <1>3

\* Each record is taken out and put in once.
Single(steps) ==
  \A x, y \in DOMAIN steps : x # y => Apart({steps[x]}, {steps[y]})

LEMMA RelistIs ==
  ASSUME NEW s \in States, NEW steps \in Seq(Steps)
  PROVE  /\ Relist(s, steps) \in States
         /\ Single(steps) /\ Present(s, Range(steps)) =>
              Relists(s, Relist(s, steps), Range(steps))
<1>1. PICK n \in Nat : n = Len(steps)
  OBVIOUS
<1>2. PICK c \in [0 .. n -> States] :
        /\ c[0] = s /\ c[n] = Relist(s, steps)
        /\ \A k \in 1 .. n : c[k] = Round(c[k - 1], steps[k])
  BY <1>1, RelistRounds
<1>3. Relist(s, steps) \in States
  <2>1. n \in 0 .. n
    OBVIOUS
  <2> QED BY <1>2, <2>1
<1>4. ASSUME Single(steps), Present(s, Range(steps))
      PROVE  Relists(s, Relist(s, steps), Range(steps))
  <2>1. PICK S : S = [k \in 1 .. n |-> {steps[k]}]
    OBVIOUS
  <2>2. DOMAIN steps = 1 .. n /\ \A k \in 1 .. n : steps[k] \in Steps
    BY <1>1
  <2>3. S \in [1 .. n -> SUBSET Steps] /\ \A k \in 1 .. n : S[k] = {steps[k]}
    BY <2>1, <2>2
  <2>4. \A k, l \in 1 .. n : k # l => Apart(S[k], S[l])
    BY <2>2, <2>3, <1>4 DEF Single
  <2>5. \A k \in 1 .. n : Present(c[0], S[k])
    BY <2>2, <2>3, <1>2, <1>4 DEF Present, Range
  <2>6. ASSUME NEW k \in 1 .. n, Present(c[k - 1], S[k]) PROVE Relists(c[k - 1], c[k], S[k])
    <3>1. k - 1 \in 0 .. n
      OBVIOUS
    <3>2. Relists(c[k - 1], Round(c[k - 1], steps[k]), {steps[k]})
      BY <3>1, <2>2, <2>3, <2>6, RoundRelists
    <3> QED BY <3>2, <2>3, <1>2
  <2>7. PICK Z : Z = UNION {S[k] : k \in 1 .. n}
    OBVIOUS
  <2>8. Relists(c[0], c[n], Z)
    BY <2>3, <2>4, <2>5, <2>6, <2>7, LoopRelists
  <2>9. Z = Range(steps)
    BY <2>2, <2>3, <2>7 DEF Range
  <2> QED BY <2>8, <2>9, <1>2
<1> QED BY <1>3, <1>4

LEMMA ExceptIn ==
  ASSUME NEW N, NEW q \in Seq(N), NEW k, NEW e \in N
  PROVE  [q EXCEPT ![k] = e] \in Seq(N) /\ DOMAIN [q EXCEPT ![k] = e] = DOMAIN q
<1>1. CASE k \in 1 .. Len(q)
  BY <1>1, ExceptSeq
<1>2. CASE k \notin 1 .. Len(q)
  <2>1. [q EXCEPT ![k] = e] = q
    BY <1>2
  <2> QED BY <2>1
<1> QED BY <1>1, <1>2

LEMMA ExceptOut ==
  ASSUME NEW N, NEW q \in Seq(N), NEW k, k \notin DOMAIN q, NEW e
  PROVE  [q EXCEPT ![k] = e] = q
OBVIOUS

LEMMA SetOperandIn ==
  ASSUME NEW s \in States, NEW u \in Pos, NEW w \in AnyValue
  PROVE  /\ SetOperand(s, u, w) \in States
         /\ SetOperand(s, u, w).uses = s.uses /\ SetOperand(s, u, w).missing = s.missing
<1>1. PICK i \in Instrs : i = u[1]
  BY DEF Pos
<1>2. PICK k \in Nat : k = u[3]
  BY DEF Pos
<1>3. PICK a \in Nat : a = u[4]
  BY DEF Pos
<1>4. s.args[i] \in Seq(AnyValue) /\ s.bbs[i] \in Seq(Target)
  BY DEF States
<1>5. CASE u[2] = "NormalArg"
  <2>1. PICK q : q = [s.args[i] EXCEPT ![k] = w]
    OBVIOUS
  <2>2. q \in Seq(AnyValue)
    BY <2>1, <1>4, ExceptIn
  <2>3. SetOperand(s, u, w) = [s EXCEPT !.args[i] = q]
    BY <1>1, <1>2, <1>5, <2>1 DEF SetOperand
  <2> QED BY <2>2, <2>3 DEF States
<1>6. CASE u[2] = "BB"
  <2>1. PICK x : x = [s.bbs[i][k] EXCEPT !.bb = w]
    OBVIOUS
  <2>2. PICK q : q = [s.bbs[i] EXCEPT ![k] = x]
    OBVIOUS
  <2>3. SetOperand(s, u, w) = [s EXCEPT !.bbs[i] = q]
    BY <1>1, <1>2, <1>6, <2>1, <2>2 DEF SetOperand
  <2>4. q \in Seq(Target)
    <3>1. CASE k \in DOMAIN s.bbs[i]
      <4>1. s.bbs[i][k] \in Target
        BY <1>4, <3>1
      <4>2. x \in Target
        BY <4>1, <2>1 DEF Target
      <4> QED BY <4>2, <2>2, <1>4, ExceptIn
    <3>2. CASE k \notin DOMAIN s.bbs[i]
      BY <3>2, <2>2, <1>4, ExceptOut
    <3> QED BY <3>1, <3>2
  <2> QED BY <2>3, <2>4 DEF States
<1>7. CASE u[2] # "NormalArg" /\ u[2] # "BB"
  <2>1. PICK p : p = [s.bbs[i][k].args EXCEPT ![a] = w]
    OBVIOUS
  <2>2. PICK x : x = [s.bbs[i][k] EXCEPT !.args = p]
    OBVIOUS
  <2>3. PICK q : q = [s.bbs[i] EXCEPT ![k] = x]
    OBVIOUS
  <2>4. SetOperand(s, u, w) = [s EXCEPT !.bbs[i] = q]
    BY <1>1, <1>2, <1>3, <1>7, <2>1, <2>2, <2>3 DEF SetOperand
  <2>5. q \in Seq(Target)
    <3>1. CASE k \in DOMAIN s.bbs[i]
      <4>1. s.bbs[i][k] \in Target
        BY <1>4, <3>1
      <4>2. s.bbs[i][k].args \in Seq(AnyValue)
        BY <4>1 DEF Target
      <4>3. p \in Seq(AnyValue)
        BY <4>2, <2>1, ExceptIn
      <4>4. x \in Target
        BY <4>1, <4>3, <2>2 DEF Target
      <4> QED BY <4>4, <2>3, <1>4, ExceptIn
    <3>2. CASE k \notin DOMAIN s.bbs[i]
      BY <3>2, <2>3, <1>4, ExceptOut
    <3> QED BY <3>1, <3>2
  <2> QED BY <2>4, <2>5 DEF States
<1> QED BY <1>5, <1>6, <1>7

LEMMA ReplaceOperandIn ==
  ASSUME NEW t \in States, NEW u \in Pos, NEW w \in AnyValue, NEW verify \in BOOLEAN
  PROVE  ReplaceOperand(t, u, w, verify) \in States
<1>1. PICK s : s = SetOperand(t, u, w)
  OBVIOUS
<1>2. s \in States
  BY <1>1, SetOperandIn
<1>3. PICK old : old = ValueAt(t, u)
  OBVIOUS
<1>4. PICK r : r = RemoveUsage(s, old, u, verify)
  OBVIOUS
<1>5. r \in States
  <2>1. CASE old \in Tracked
    BY <2>1, <1>2, <1>4, RemoveUsageIs DEF AnyValue
  <2>2. CASE old \notin Tracked
    BY <2>2, <1>2, <1>4 DEF RemoveUsage
  <2> QED BY <2>1, <2>2
<1>6. AddUsage(r, w, u) \in States
  BY <1>5, AddUsageIs
<1>7. ReplaceOperand(t, u, w, verify) = IF old = w THEN t ELSE AddUsage(r, w, u)
  BY <1>1, <1>3, <1>4 DEF ReplaceOperand
<1> QED BY <1>6, <1>7

\* The rounds of RelistEach and of ReplaceUses.
LEMMA RelistEachRounds ==
  ASSUME NEW s \in States, NEW parts \in Seq(Seq(Steps))
  PROVE  \E c \in [0 .. Len(parts) -> States] :
           /\ c[0] = s /\ c[Len(parts)] = RelistEach(s, parts)
           /\ \A k \in 1 .. Len(parts) : c[k] = Relist(c[k - 1], parts[k])
<1>1. PICK n \in Nat : n = Len(parts)
  OBVIOUS
<1> DEFINE D == 1 .. n
           P(g) == g = [a \in SUBSET D |->
                          IF a = {} THEN s ELSE Relist(g[a \ {Max(a)}], parts[Max(a)])]
<1>2. RelistEach(s, parts) = (CHOOSE g : P(g))[D]
  <2>1. DOMAIN parts = D
    BY <1>1
  <2> QED BY <2>1, Zenon DEF RelistEach, FoldLeft, MapThenFoldSet
<1>3. PICK f : f = [p \in D \X States |-> Relist(p[2], parts[p[1]])]
  OBVIOUS
<1>4. /\ f \in [D \X States -> States]
      /\ \A k \in D, t \in States : f[<<k, t>>] = Relist(t, parts[k])
  <2>1. \A k \in D : parts[k] \in Seq(Steps)
    BY <1>1
  <2>2. \A k \in D, t \in States : Relist(t, parts[k]) \in States
    BY <2>1, RelistIs
  <2> QED BY <1>3, <2>2
<1>5. PICK g \in [SUBSET D -> States] : Folds(g, n, s, f)
  BY <1>4, FoldExists
<1>6. P(g)
  <2>1. \A a \in SUBSET D : a # {} => g[a] = Relist(g[a \ {Max(a)}], parts[Max(a)])
    BY <1>4, <1>5 DEF Folds
  <2>2. g = [a \in SUBSET D |-> g[a]]
    OBVIOUS
  <2>3. \A a \in SUBSET D :
          g[a] = IF a = {} THEN s ELSE Relist(g[a \ {Max(a)}], parts[Max(a)])
    BY <1>5, <2>1 DEF Folds
  <2> QED BY <2>2, <2>3, Zenon
<1>7. PICK h : h = CHOOSE k : P(k)
  OBVIOUS
<1>8. P(h)
  BY <1>6, <1>7, Zenon
<1>9. \A a \in SUBSET D : h[a] = IF a = {} THEN s ELSE Relist(h[a \ {Max(a)}], parts[Max(a)])
  BY <1>8, Zenon
<1> HIDE DEF P
<1>10. FoldsWithin(h, n, States, s, f)
  <2>1. ASSUME NEW a \in SUBSET D, a # {}, h[a \ {Max(a)}] \in States
        PROVE  h[a] = f[<<Max(a), h[a \ {Max(a)}]>>]
    <3>1. Max(a) \in D
      BY <1>5, <2>1 DEF Folds
    <3> QED BY <3>1, <2>1, <1>4, <1>9
  <2>2. h[{}] = s
    BY <1>9
  <2> QED BY <2>1, <2>2 DEF FoldsWithin
<1>11. PICK c \in [0 .. n -> States] : Chains(c, n, s, f, h[1 .. n])
  BY <1>4, <1>10, FoldChain
<1>12. \A k \in 1 .. n : c[k] = Relist(c[k - 1], parts[k])
  <2>1. \A k \in 1 .. n : k - 1 \in 0 .. n
    OBVIOUS
  <2> QED BY <1>4, <1>11, <2>1 DEF Chains
<1>13. c[0] = s /\ c[n] = h[D]
  BY <1>11 DEF Chains
<1> QED BY <1>1, <1>2, <1>7, <1>12, <1>13

Exchange(t, u, which, w, verify) ==
  IF u \in which THEN ReplaceOperand(t, u, w, verify) ELSE t

LEMMA ReplaceRounds ==
  ASSUME NEW s \in States, NEW copy \in Seq(Pos), NEW which, NEW w \in AnyValue,
         NEW verify \in BOOLEAN
  PROVE  \E c \in [0 .. Len(copy) -> States] :
           /\ c[0] = s /\ c[Len(copy)] = ReplaceUses(s, copy, which, w, verify)
           /\ \A k \in 1 .. Len(copy) :
                c[k] = Exchange(c[k - 1], copy[k], which, w, verify)
<1>1. PICK n \in Nat : n = Len(copy)
  OBVIOUS
<1> DEFINE D == 1 .. n
           B(t, u) == Exchange(t, u, which, w, verify)
           P(g) == g = [a \in SUBSET D |->
                          IF a = {} THEN s ELSE B(g[a \ {Max(a)}], copy[Max(a)])]
<1>2. ReplaceUses(s, copy, which, w, verify) = (CHOOSE g : P(g))[D]
  <2>1. DOMAIN copy = D
    BY <1>1
  <2> QED BY <2>1, Zenon DEF ReplaceUses, Exchange, FoldLeft, MapThenFoldSet
<1>3. PICK f : f = [p \in D \X States |-> B(p[2], copy[p[1]])]
  OBVIOUS
<1>4. /\ f \in [D \X States -> States]
      /\ \A k \in D, t \in States : f[<<k, t>>] = B(t, copy[k])
  <2>1. \A k \in D : copy[k] \in Pos
    BY <1>1
  <2>2. \A k \in D, t \in States : B(t, copy[k]) \in States
    BY <2>1, ReplaceOperandIn DEF Exchange
  <2> HIDE DEF B
  <2> QED BY <1>3, <2>2
<1> HIDE DEF B
<1>5. PICK g \in [SUBSET D -> States] : Folds(g, n, s, f)
  BY <1>4, FoldExists
<1>6. P(g)
  <2>1. \A a \in SUBSET D : a # {} => g[a] = B(g[a \ {Max(a)}], copy[Max(a)])
    BY <1>4, <1>5 DEF Folds
  <2>2. g = [a \in SUBSET D |-> g[a]]
    OBVIOUS
  <2>3. \A a \in SUBSET D :
          g[a] = IF a = {} THEN s ELSE B(g[a \ {Max(a)}], copy[Max(a)])
    BY <1>5, <2>1 DEF Folds
  <2> QED BY <2>2, <2>3, Zenon
<1>7. PICK h : h = CHOOSE k : P(k)
  OBVIOUS
<1>8. P(h)
  BY <1>6, <1>7, Zenon
<1>9. \A a \in SUBSET D : h[a] = IF a = {} THEN s ELSE B(h[a \ {Max(a)}], copy[Max(a)])
  BY <1>8, Zenon
<1> HIDE DEF P
<1>10. FoldsWithin(h, n, States, s, f)
  <2>1. ASSUME NEW a \in SUBSET D, a # {}, h[a \ {Max(a)}] \in States
        PROVE  h[a] = f[<<Max(a), h[a \ {Max(a)}]>>]
    <3>1. Max(a) \in D
      BY <1>5, <2>1 DEF Folds
    <3> QED BY <3>1, <2>1, <1>4, <1>9
  <2>2. h[{}] = s
    BY <1>9
  <2> QED BY <2>1, <2>2 DEF FoldsWithin
<1>11. PICK c \in [0 .. n -> States] : Chains(c, n, s, f, h[1 .. n])
  BY <1>4, <1>10, FoldChain
<1>12. \A k \in 1 .. n : c[k] = B(c[k - 1], copy[k])
  <2>1. \A k \in 1 .. n : k - 1 \in 0 .. n
    OBVIOUS
  <2> QED BY <1>4, <1>11, <2>1 DEF Chains
<1>13. c[0] = s /\ c[n] = h[D]
  BY <1>11 DEF Chains
<1> QED BY <1>1, <1>2, <1>7, <1>12, <1>13 DEF B

AllSteps(parts) == UNION {Range(parts[k]) : k \in DOMAIN parts}

SingleParts(parts) ==
  /\ \A k \in DOMAIN parts : Single(parts[k])
  /\ \A k, l \in DOMAIN parts : k # l => Apart(Range(parts[k]), Range(parts[l]))

LEMMA RelistEachIs ==
  ASSUME NEW s \in States, NEW parts \in Seq(Seq(Steps))
  PROVE  /\ RelistEach(s, parts) \in States
         /\ SingleParts(parts) /\ Present(s, AllSteps(parts)) =>
              Relists(s, RelistEach(s, parts), AllSteps(parts))
<1>1. PICK n \in Nat : n = Len(parts)
  OBVIOUS
<1>2. PICK c \in [0 .. n -> States] :
        /\ c[0] = s /\ c[n] = RelistEach(s, parts)
        /\ \A k \in 1 .. n : c[k] = Relist(c[k - 1], parts[k])
  BY <1>1, RelistEachRounds
<1>3. RelistEach(s, parts) \in States
  <2>1. n \in 0 .. n
    OBVIOUS
  <2> QED BY <1>2, <2>1
<1>4. ASSUME SingleParts(parts), Present(s, AllSteps(parts))
      PROVE  Relists(s, RelistEach(s, parts), AllSteps(parts))
  <2>1. DOMAIN parts = 1 .. n /\ \A k \in 1 .. n : parts[k] \in Seq(Steps)
    BY <1>1
  <2>2. \A k \in 1 .. n : Range(parts[k]) \in SUBSET Steps
    BY <2>1, RangeOfSeq
  <2>3. PICK S : S = [k \in 1 .. n |-> Range(parts[k])]
    OBVIOUS
  <2>4. S \in [1 .. n -> SUBSET Steps] /\ \A k \in 1 .. n : S[k] = Range(parts[k])
    BY <2>2, <2>3
  <2>5. \A k, l \in 1 .. n : k # l => Apart(S[k], S[l])
    BY <2>1, <2>4, <1>4 DEF SingleParts
  <2>6. \A k \in 1 .. n : Present(c[0], S[k])
    BY <2>1, <2>4, <1>2, <1>4 DEF Present, AllSteps
  <2>7. ASSUME NEW k \in 1 .. n, Present(c[k - 1], S[k]) PROVE Relists(c[k - 1], c[k], S[k])
    <3>1. k - 1 \in 0 .. n
      OBVIOUS
    <3>2. Single(parts[k])
      BY <2>1, <1>4 DEF SingleParts
    <3>3. Relists(c[k - 1], Relist(c[k - 1], parts[k]), Range(parts[k]))
      BY <3>1, <3>2, <2>1, <2>4, <2>7, RelistIs
    <3> QED BY <3>3, <2>4, <1>2
  <2>8. PICK Z : Z = UNION {S[k] : k \in 1 .. n}
    OBVIOUS
  <2>9. Relists(c[0], c[n], Z)
    BY <2>4, <2>5, <2>6, <2>7, <2>8, LoopRelists
  <2>10. Z = AllSteps(parts)
    BY <2>1, <2>4, <2>8 DEF AllSteps
  <2> QED BY <2>9, <2>10, <1>2
<1> QED BY <1>3, <1>4

-----------------------------------------------------------------------------
(* The lists match the operands *)

Has(s, u) ==
  \/ u[2] = "NormalArg" /\ u[3] \in DOMAIN s.args[u[1]] /\ u[4] = 1
  \/ u[2] = "BB" /\ u[3] \in DOMAIN s.bbs[u[1]] /\ u[4] = 1
  \/ u[2] = "BBArg" /\ u[3] \in DOMAIN s.bbs[u[1]] /\ u[4] \in DOMAIN s.bbs[u[1]][u[3]].args

Names(s, u, v) == u \in Operands(s) /\ ValueAt(s, u) = v

Matches(s) == \A v \in Tracked, u \in Pos : Listed(s, v, u) = Bit(Names(s, u, v))

Good(s) == s \in States /\ ~s.missing /\ Matches(s)

LEMMA ShapeFacts ==
  ASSUME NEW s \in States, NEW i \in Instrs
  PROVE  /\ s.args[i] \in Seq(AnyValue) /\ DOMAIN s.args[i] \subseteq Nat
         /\ s.bbs[i] \in Seq(Target) /\ DOMAIN s.bbs[i] \subseteq Nat
         /\ \A k \in DOMAIN s.bbs[i] : /\ s.bbs[i][k] \in Target
                                       /\ s.bbs[i][k].args \in Seq(AnyValue)
                                       /\ DOMAIN s.bbs[i][k].args \subseteq Nat
<1>1. s.args[i] \in Seq(AnyValue) /\ s.bbs[i] \in Seq(Target)
  BY DEF States
<1>2. \A k \in DOMAIN s.bbs[i] : s.bbs[i][k] \in Target
  BY <1>1
<1>3. \A k \in DOMAIN s.bbs[i] : s.bbs[i][k].args \in Seq(AnyValue)
  BY <1>2 DEF Target
<1>4. \A N : \A q \in Seq(N) : DOMAIN q \subseteq Nat
  OBVIOUS
<1> QED BY <1>1, <1>2, <1>3, <1>4

LEMMA OperandCases ==
  ASSUME NEW s, NEW u
  PROVE  u \in Operands(s) <=>
           \/ \E i \in Instrs : \E k \in DOMAIN s.args[i] : u = Norm(i, k)
           \/ \E i \in Instrs : \E k \in DOMAIN s.bbs[i] : u = BB(i, k)
           \/ \E i \in Instrs : \E k \in DOMAIN s.bbs[i] : \E a \in DOMAIN s.bbs[i][k].args :
                u = BBArg(i, k, a)
<1> DEFINE Own(i) == {Norm(i, k) : k \in DOMAIN s.args[i]}
                     \cup {BB(i, k) : k \in DOMAIN s.bbs[i]}
                     \cup UNION {{BBArg(i, k, a) : a \in DOMAIN s.bbs[i][k].args} : k \in DOMAIN s.bbs[i]}
<1>1. \A i : u \in Own(i) <=>
        \/ \E k \in DOMAIN s.args[i] : u = Norm(i, k)
        \/ \E k \in DOMAIN s.bbs[i] : u = BB(i, k)
        \/ \E k \in DOMAIN s.bbs[i] : \E a \in DOMAIN s.bbs[i][k].args : u = BBArg(i, k, a)
  OBVIOUS
<1>2. u \in Operands(s) <=> \E i \in Instrs : u \in Own(i)
  BY DEF Operands
<1> HIDE DEF Own
<1> QED BY <1>1, <1>2

LEMMA OperandsAre ==
  ASSUME NEW s \in States, NEW u
  PROVE  u \in Operands(s) <=> u \in Pos /\ Has(s, u)
<1>1. ASSUME u \in Operands(s) PROVE u \in Pos /\ Has(s, u)
  <2>1. CASE \E i \in Instrs : \E k \in DOMAIN s.args[i] : u = Norm(i, k)
    BY <2>1, ShapeFacts DEF Norm, Pos, Has
  <2>2. CASE \E i \in Instrs : \E k \in DOMAIN s.bbs[i] : u = BB(i, k)
    BY <2>2, ShapeFacts DEF BB, Pos, Has
  <2>3. CASE \E i \in Instrs : \E k \in DOMAIN s.bbs[i] : \E a \in DOMAIN s.bbs[i][k].args :
               u = BBArg(i, k, a)
    BY <2>3, ShapeFacts DEF BBArg, Pos, Has
  <2> QED BY <1>1, <2>1, <2>2, <2>3, OperandCases
<1>2. ASSUME u \in Pos, Has(s, u) PROVE u \in Operands(s)
  <2>1. PICK i \in Instrs, kind \in {"NormalArg", "BB", "BBArg"}, k \in Nat, a \in Nat :
          u = <<i, kind, k, a>>
    BY <1>2 DEF Pos
  <2>2. u[1] = i /\ u[2] = kind /\ u[3] = k /\ u[4] = a
    BY <2>1
  <2>3. CASE kind = "NormalArg"
    <3>1. k \in DOMAIN s.args[i] /\ u = Norm(i, k)
      BY <1>2, <2>1, <2>2, <2>3 DEF Has, Norm
    <3> QED BY <3>1, OperandCases
  <2>4. CASE kind = "BB"
    <3>1. k \in DOMAIN s.bbs[i] /\ u = BB(i, k)
      BY <1>2, <2>1, <2>2, <2>4 DEF Has, BB
    <3> QED BY <3>1, OperandCases
  <2>5. CASE kind = "BBArg"
    <3>1. k \in DOMAIN s.bbs[i] /\ a \in DOMAIN s.bbs[i][k].args /\ u = BBArg(i, k, a)
      BY <1>2, <2>1, <2>2, <2>5 DEF Has, BBArg
    <3> QED BY <3>1, OperandCases
  <2> QED BY <2>3, <2>4, <2>5
<1> QED BY <1>1, <1>2

\* The steps that take the lists of s to those of t are the changes of its operands.
Renumbers(s, t, S) ==
  \A v \in Tracked, u \in Pos :
    /\ Taken(S, v, u) => Names(s, u, v)
    /\ Given(S, v, u) => ~Names(s, u, v) \/ Taken(S, v, u)
    /\ Names(t, u, v) <=> Given(S, v, u) \/ (Names(s, u, v) /\ ~Taken(S, v, u))

SameLists(s, t) == t.uses = s.uses /\ t.missing = s.missing

LEMMA RenumberedMatches ==
  ASSUME NEW s, Good(s), NEW a \in States, NEW b \in States, NEW t \in States, NEW S,
         SameLists(s, a), Relists(a, b, S), SameLists(b, t), Renumbers(s, t, S)
  PROVE  Good(t)
<1>1. ~t.missing
  BY DEF Good, SameLists, Relists
<1>2. ASSUME NEW v \in Tracked, NEW u \in Pos PROVE Listed(t, v, u) = Bit(Names(t, u, v))
  <2>1. Listed(a, v, u) = Bit(Names(s, u, v))
    BY DEF Good, Matches, SameLists, Listed
  <2>2. Listed(b, v, u) = Listed(a, v, u) - Bit(Taken(S, v, u)) + Bit(Given(S, v, u))
    BY DEF Relists
  <2>3. Listed(t, v, u) = Listed(b, v, u)
    BY DEF SameLists, Listed
  <2> QED BY <2>1, <2>2, <2>3 DEF Renumbers, Bit
<1> QED BY <1>1, <1>2 DEF Good, Matches

-----------------------------------------------------------------------------
(* Replacing operands *)

\* The operands X of s name w in t, and the others what they named.
Substituted(s, t, X, w) ==
  /\ Operands(t) = Operands(s)
  /\ \A x \in Operands(s) : ValueAt(t, x) = IF x \in X THEN w ELSE ValueAt(s, x)

LEMMA PosParts ==
  ASSUME NEW u \in Pos
  PROVE  /\ u[1] \in Instrs /\ u[2] \in {"NormalArg", "BB", "BBArg"} /\ u[3] \in Nat /\ u[4] \in Nat
         /\ u = <<u[1], u[2], u[3], u[4]>>
BY DEF Pos

LEMMA SetOperandIs ==
  ASSUME NEW s \in States, NEW u \in Operands(s), NEW w \in AnyValue
  PROVE  Substituted(s, SetOperand(s, u, w), {u}, w)
<1>1. PICK t \in States : t = SetOperand(s, u, w)
  BY OperandsAre, SetOperandIn
<1>2. u \in Pos /\ Has(s, u)
  BY OperandsAre
<1>3. PICK i \in Instrs : i = u[1]
  BY <1>2, PosParts
<1>4. PICK k \in Nat : k = u[3]
  BY <1>2, PosParts
<1>5. PICK a \in Nat : a = u[4]
  BY <1>2, PosParts
<1>6. s.args = [j \in Instrs |-> s.args[j]] /\ s.bbs = [j \in Instrs |-> s.bbs[j]]
  BY DEF States
<1>7. SUFFICES ASSUME NEW x \in Pos
               PROVE  /\ Has(t, x) <=> Has(s, x)
                      /\ Has(s, x) => ValueAt(t, x) = IF x = u THEN w ELSE ValueAt(s, x)
  BY <1>1, OperandsAre DEF Substituted
<1>8. PICK j \in Instrs : j = x[1]
  BY PosParts
<1>9. PICK l \in Nat : l = x[3]
  BY PosParts
<1>10. PICK b \in Nat : b = x[4]
  BY PosParts
<1>11. x = u <=> j = i /\ x[2] = u[2] /\ l = k /\ b = a
  BY <1>2, <1>3, <1>4, <1>5, <1>8, <1>9, <1>10, PosParts
<1>12. CASE u[2] = "NormalArg"
  <2>1. t = [s EXCEPT !.args[i][k] = w]
    BY <1>1, <1>3, <1>4, <1>12 DEF SetOperand
  <2>2. /\ t.bbs = s.bbs /\ t.args[i] = [s.args[i] EXCEPT ![k] = w]
        /\ \A y \in Instrs \ {i} : t.args[y] = s.args[y]
    BY <2>1, <1>6 DEF States
  <2>3. k \in DOMAIN s.args[i] /\ a = 1
    BY <1>2, <1>3, <1>4, <1>5, <1>12 DEF Has
  <2>4. /\ DOMAIN t.args[i] = DOMAIN s.args[i] /\ t.args[i][k] = w
        /\ \A y \in DOMAIN s.args[i] \ {k} : t.args[i][y] = s.args[i][y]
    BY <2>2, <2>3
  <2>5. CASE x[2] = "NormalArg"
    <3>1. /\ Has(t, x) <=> l \in DOMAIN t.args[j] /\ b = 1
          /\ Has(s, x) <=> l \in DOMAIN s.args[j] /\ b = 1
          /\ ValueAt(t, x) = t.args[j][l] /\ ValueAt(s, x) = s.args[j][l]
      BY <1>8, <1>9, <1>10, <2>5 DEF Has, ValueAt
    <3> QED BY <3>1, <2>2, <2>3, <2>4, <2>5, <1>11, <1>12
  <2>6. CASE x[2] # "NormalArg"
    BY <2>2, <2>6, <1>12 DEF Has, ValueAt
  <2> QED BY <2>5, <2>6
<1>13. CASE u[2] = "BB"
  <2>1. t = [s EXCEPT !.bbs[i][k].bb = w]
    BY <1>1, <1>3, <1>4, <1>13 DEF SetOperand
  <2>2. /\ t.args = s.args /\ t.bbs[i] = [s.bbs[i] EXCEPT ![k] = [s.bbs[i][k] EXCEPT !.bb = w]]
        /\ \A y \in Instrs \ {i} : t.bbs[y] = s.bbs[y]
    BY <2>1, <1>6 DEF States
  <2>3. k \in DOMAIN s.bbs[i] /\ a = 1
    BY <1>2, <1>3, <1>4, <1>5, <1>13 DEF Has
  <2>4. /\ DOMAIN t.bbs[i] = DOMAIN s.bbs[i] /\ t.bbs[i][k] = [s.bbs[i][k] EXCEPT !.bb = w]
        /\ \A y \in DOMAIN s.bbs[i] \ {k} : t.bbs[i][y] = s.bbs[i][y]
    BY <2>2, <2>3
  <2>5. t.bbs[i][k].bb = w /\ t.bbs[i][k].args = s.bbs[i][k].args
    BY <2>3, <2>4, ShapeFacts DEF Target
  <2>6. /\ DOMAIN t.bbs[j] = DOMAIN s.bbs[j]
        /\ \A y \in DOMAIN s.bbs[j] : t.bbs[j][y].args = s.bbs[j][y].args
    BY <2>2, <2>4, <2>5
  <2>7. CASE x[2] = "BB"
    <3>1. /\ Has(t, x) <=> l \in DOMAIN t.bbs[j] /\ b = 1
          /\ Has(s, x) <=> l \in DOMAIN s.bbs[j] /\ b = 1
          /\ ValueAt(t, x) = t.bbs[j][l].bb /\ ValueAt(s, x) = s.bbs[j][l].bb
      BY <1>8, <1>9, <1>10, <2>7 DEF Has, ValueAt
    <3> QED BY <3>1, <2>2, <2>3, <2>4, <2>5, <2>6, <2>7, <1>11, <1>13
  <2>8. CASE x[2] = "BBArg"
    <3>1. /\ Has(t, x) <=> l \in DOMAIN t.bbs[j] /\ b \in DOMAIN t.bbs[j][l].args
          /\ Has(s, x) <=> l \in DOMAIN s.bbs[j] /\ b \in DOMAIN s.bbs[j][l].args
          /\ ValueAt(t, x) = t.bbs[j][l].args[b] /\ ValueAt(s, x) = s.bbs[j][l].args[b]
      BY <1>8, <1>9, <1>10, <2>8 DEF Has, ValueAt
    <3> QED BY <3>1, <2>6, <2>8, <1>13
  <2>9. CASE x[2] = "NormalArg"
    BY <2>2, <2>9, <1>13 DEF Has, ValueAt
  <2> QED BY <2>7, <2>8, <2>9, PosParts
<1>14. CASE u[2] = "BBArg"
  <2>1. t = [s EXCEPT !.bbs[i][k].args[a] = w]
    BY <1>1, <1>3, <1>4, <1>5, <1>14 DEF SetOperand
  <2>2. PICK q : q = [s.bbs[i][k].args EXCEPT ![a] = w]
    OBVIOUS
  <2>3. /\ t.args = s.args /\ t.bbs[i] = [s.bbs[i] EXCEPT ![k] = [s.bbs[i][k] EXCEPT !.args = q]]
        /\ \A y \in Instrs \ {i} : t.bbs[y] = s.bbs[y]
    BY <2>1, <2>2, <1>6 DEF States
  <2>4. k \in DOMAIN s.bbs[i] /\ a \in DOMAIN s.bbs[i][k].args
    BY <1>2, <1>3, <1>4, <1>5, <1>14 DEF Has
  <2>5. /\ DOMAIN t.bbs[i] = DOMAIN s.bbs[i] /\ t.bbs[i][k] = [s.bbs[i][k] EXCEPT !.args = q]
        /\ \A y \in DOMAIN s.bbs[i] \ {k} : t.bbs[i][y] = s.bbs[i][y]
    BY <2>3, <2>4
  <2>6. t.bbs[i][k].bb = s.bbs[i][k].bb /\ t.bbs[i][k].args = q
    BY <2>4, <2>5, ShapeFacts DEF Target
  <2>7. /\ DOMAIN q = DOMAIN s.bbs[i][k].args /\ q[a] = w
        /\ \A y \in DOMAIN q \ {a} : q[y] = s.bbs[i][k].args[y]
    BY <2>2, <2>4
  <2>8. CASE x[2] = "BB"
    <3>1. /\ Has(t, x) <=> l \in DOMAIN t.bbs[j] /\ b = 1
          /\ Has(s, x) <=> l \in DOMAIN s.bbs[j] /\ b = 1
          /\ ValueAt(t, x) = t.bbs[j][l].bb /\ ValueAt(s, x) = s.bbs[j][l].bb
      BY <1>8, <1>9, <1>10, <2>8 DEF Has, ValueAt
    <3>2. /\ DOMAIN t.bbs[j] = DOMAIN s.bbs[j]
          /\ \A y \in DOMAIN s.bbs[j] : t.bbs[j][y].bb = s.bbs[j][y].bb
      BY <2>3, <2>5, <2>6
    <3> QED BY <3>1, <3>2, <2>8, <1>11, <1>14
  <2>9. CASE x[2] = "BBArg"
    <3>1. /\ Has(t, x) <=> l \in DOMAIN t.bbs[j] /\ b \in DOMAIN t.bbs[j][l].args
          /\ Has(s, x) <=> l \in DOMAIN s.bbs[j] /\ b \in DOMAIN s.bbs[j][l].args
          /\ ValueAt(t, x) = t.bbs[j][l].args[b] /\ ValueAt(s, x) = s.bbs[j][l].args[b]
      BY <1>8, <1>9, <1>10, <2>9 DEF Has, ValueAt
    <3>2. CASE j = i /\ l = k
      BY <3>1, <3>2, <2>4, <2>5, <2>6, <2>7, <2>9, <1>11, <1>14
    <3>3. CASE ~(j = i /\ l = k)
      BY <3>1, <3>3, <2>3, <2>5, <1>11
    <3> QED BY <3>2, <3>3
  <2>10. CASE x[2] = "NormalArg"
    BY <2>3, <2>10, <1>14 DEF Has, ValueAt
  <2> QED BY <2>8, <2>9, <2>10, PosParts
<1> QED BY <1>2, <1>12, <1>13, <1>14, PosParts

LEMMA ReplaceOperandIs ==
  ASSUME NEW s, Good(s), NEW u \in Operands(s), NEW w \in AnyValue, NEW verify \in BOOLEAN
  PROVE  /\ Good(ReplaceOperand(s, u, w, verify))
         /\ Substituted(s, ReplaceOperand(s, u, w, verify), {u}, w)
<1>1. s \in States /\ ~s.missing /\ Matches(s) /\ u \in Pos
  BY OperandsAre DEF Good
<1>2. PICK old : old = ValueAt(s, u)
  OBVIOUS
<1>3. CASE old = w
  <2>1. ReplaceOperand(s, u, w, verify) = s
    BY <1>2, <1>3 DEF ReplaceOperand
  <2> QED BY <2>1, <1>2, <1>3 DEF Substituted
<1>4. CASE old # w
  <2>1. PICK t \in States : t = SetOperand(s, u, w)
    BY <1>1, SetOperandIn
  <2>2. Substituted(s, t, {u}, w)
    BY <1>1, <2>1, SetOperandIs
  <2>3. t.uses = s.uses /\ t.missing = s.missing
    BY <1>1, <2>1, SetOperandIn
  <2>4. PICK r : r = RemoveUsage(t, old, u, verify)
    OBVIOUS
  <2>5. /\ r \in States /\ SameShape(t, r) /\ r.missing = t.missing
        /\ \A x \in Tracked, y \in Pos : Listed(r, x, y) = Listed(t, x, y) - Bit(x = old /\ y = u)
    <3>1. CASE old \in Tracked
      <4>1. Listed(t, old, u) = 1
        BY <3>1, <1>1, <1>2, <2>3 DEF Matches, Names, Bit, Listed
      <4>2. old \in AnyValue
        BY <3>1 DEF AnyValue
      <4>3. r \in States /\ SameShape(t, r)
        BY <4>2, <2>4, <1>1, RemoveUsageIs
      <4>4. RemovesOnly(t, r, old, u)
        BY <4>1, <4>2, <2>4, <1>1, RemoveUsageIs
      <4> QED BY <4>3, <4>4 DEF RemovesOnly
    <3>2. CASE old \notin Tracked
      <4>1. r = t
        BY <3>2, <2>4 DEF RemoveUsage
      <4>2. \A x \in Tracked, y \in Pos : Listed(t, x, y) \in Nat /\ x # old
        BY <3>2, ListedNat
      <4> QED BY <4>1, <4>2 DEF SameShape, Bit
    <3> QED BY <3>1, <3>2
  <2>6. PICK z : z = AddUsage(r, w, u)
    OBVIOUS
  <2>7. /\ z \in States /\ SameShape(r, z) /\ z.missing = r.missing
        /\ \A x \in Tracked, y \in Pos : Listed(z, x, y) = Listed(r, x, y) + Bit(x = w /\ y = u)
    BY <1>1, <2>5, <2>6, AddUsageIs
  <2>8. SameShape(t, z) /\ ~z.missing
    BY <2>3, <2>5, <2>7, <1>1 DEF SameShape
  <2>9. Substituted(s, z, {u}, w)
    <3>1. Operands(z) = Operands(t) /\ \A x : ValueAt(z, x) = ValueAt(t, x)
      BY <2>8 DEF SameShape, Operands, ValueAt
    <3> QED BY <3>1, <2>2 DEF Substituted
  <2>10. ASSUME NEW x \in Tracked, NEW y \in Pos PROVE Listed(z, x, y) = Bit(Names(z, y, x))
    <3>1. Listed(t, x, y) = Bit(Names(s, y, x))
      BY <2>3, <1>1 DEF Matches, Listed
    <3>2. Listed(z, x, y) = Bit(Names(s, y, x)) - Bit(x = old /\ y = u) + Bit(x = w /\ y = u)
      <4>1. /\ Listed(r, x, y) = Listed(t, x, y) - Bit(x = old /\ y = u)
            /\ Listed(z, x, y) = Listed(r, x, y) + Bit(x = w /\ y = u)
        BY <2>5, <2>7
      <4> QED BY <3>1, <4>1 DEF Bit
    <3>3. CASE y = u
      <4>1. Names(s, y, x) <=> x = old
        BY <3>3, <1>2 DEF Names
      <4>2. Names(z, y, x) <=> x = w
        BY <3>3, <2>9 DEF Names, Substituted
      <4> QED BY <3>2, <3>3, <4>1, <4>2, <1>4 DEF Bit
    <3>4. CASE y # u
      <4>1. Names(z, y, x) <=> Names(s, y, x)
        BY <3>4, <2>9 DEF Names, Substituted
      <4> QED BY <3>2, <3>4, <4>1 DEF Bit
    <3> QED BY <3>3, <3>4
  <2>11. Good(z)
    BY <2>7, <2>8, <2>10 DEF Good, Matches
  <2>12. ReplaceOperand(s, u, w, verify) = z
    BY <1>2, <1>4, <2>1, <2>4, <2>6 DEF ReplaceOperand
  <2> QED BY <2>9, <2>11, <2>12
<1> QED BY <1>3, <1>4

LEMMA ReplaceUsesIs ==
  ASSUME NEW s, Good(s), NEW copy \in Seq(Pos), NEW which, NEW w \in AnyValue,
         NEW verify \in BOOLEAN, NEW X, X = Range(copy) \cap which, X \subseteq Operands(s)
  PROVE  /\ Good(ReplaceUses(s, copy, which, w, verify))
         /\ Substituted(s, ReplaceUses(s, copy, which, w, verify), X, w)
<1>1. s \in States
  BY DEF Good
<1>2. PICK n \in Nat : n = Len(copy)
  OBVIOUS
<1>3. PICK c \in [0 .. n -> States] :
        /\ c[0] = s /\ c[n] = ReplaceUses(s, copy, which, w, verify)
        /\ \A k \in 1 .. n : c[k] = Exchange(c[k - 1], copy[k], which, w, verify)
  BY <1>1, <1>2, ReplaceRounds
<1> DEFINE Done(k) == {copy[l] : l \in 1 .. k} \cap which
           G == {k \in 0 .. n : Good(c[k]) /\ Substituted(s, c[k], Done(k), w)}
<1>4. 0 \in G
  <2>1. Done(0) = {} /\ 0 \in 0 .. n
    OBVIOUS
  <2> QED BY <2>1, <1>3 DEF Substituted
<1>5. ASSUME NEW k \in 1 .. n, k - 1 \in G PROVE k \in G
  <2>1. PICK D : D = Done(k - 1)
    OBVIOUS
  <2>2. PICK t : t = c[k - 1]
    OBVIOUS
  <2>3. Good(t) /\ Substituted(s, t, D, w)
    BY <1>5, <2>1, <2>2
  <2>4. PICK E : E = Done(k)
    OBVIOUS
  <2>5. E = D \cup ({copy[k]} \cap which)
    <3>1. \A l \in 1 .. k : l \in 1 .. (k - 1) \/ l = k
      OBVIOUS
    <3>2. \A l \in 1 .. (k - 1) : l \in 1 .. k
      OBVIOUS
    <3>3. k \in 1 .. k
      OBVIOUS
    <3> QED BY <2>1, <2>4, <3>1, <3>2, <3>3
  <2>6. CASE copy[k] \in which
    <3>1. copy[k] \in Operands(s)
      BY <1>2, <2>6 DEF Range
    <3>2. PICK u \in Operands(t) : u = copy[k]
      BY <3>1, <2>3 DEF Substituted
    <3>3. PICK r : r = ReplaceOperand(t, u, w, verify)
      OBVIOUS
    <3>4. Good(r) /\ Substituted(t, r, {u}, w)
      BY <2>3, <3>2, <3>3, ReplaceOperandIs
    <3>5. c[k] = r
      BY <1>3, <2>2, <2>6, <3>2, <3>3 DEF Exchange
    <3>6. E = D \cup {u}
      BY <2>5, <2>6, <3>2
    <3>7. Substituted(s, r, E, w)
      BY <2>3, <3>4, <3>6 DEF Substituted
    <3> QED BY <3>4, <3>5, <3>7, <2>4
  <2>7. CASE copy[k] \notin which
    <3>1. c[k] = t /\ E = D
      BY <1>3, <2>2, <2>5, <2>7 DEF Exchange
    <3> QED BY <3>1, <2>3, <2>4
  <2> QED BY <2>6, <2>7
<1>6. n \in G
  <2>1. n \in 0 .. n
    OBVIOUS
  <2> HIDE DEF G
  <2> QED BY <2>1, <1>4, <1>5, UpTo
<1>7. Done(n) = X
  <2>1. Range(copy) = {copy[l] : l \in 1 .. n}
    BY <1>2 DEF Range
  <2> QED BY <2>1
<1> QED BY <1>3, <1>6, <1>7

\* The list of a value says where it is named.
LEMMA ListIs ==
  ASSUME NEW s, Good(s), NEW v \in Tracked
  PROVE  /\ s.uses[v] \in Seq(Pos) /\ IsInjective(s.uses[v])
         /\ Range(s.uses[v]) = {u \in Operands(s) : ValueAt(s, u) = v}
<1>1. s \in States /\ Matches(s)
  BY DEF Good
<1>2. s.uses[v] \in Seq(Pos)
  BY <1>1, ListedNat
<1>3. \A u \in Pos : Tally(s.uses[v], u) <= 1
  BY <1>1 DEF Matches, Listed, Bit
<1>4. IsInjective(s.uses[v])
  BY <1>2, <1>3, TallyAtMostOne
<1>5. \A u \in Pos : u \in Range(s.uses[v]) <=> Names(s, u, v)
  <2>1. \A u \in Pos : Listed(s, v, u) = 0 <=> u \notin Range(s.uses[v])
    BY <1>1, ListedNat
  <2> QED BY <2>1, <1>1 DEF Matches, Bit
<1>6. Range(s.uses[v]) \subseteq Pos /\ Operands(s) \subseteq Pos
  BY <1>1, <1>2, RangeOfSeq, OperandsAre
<1>7. Range(s.uses[v]) = {u \in Operands(s) : ValueAt(s, u) = v}
  BY <1>5, <1>6 DEF Names
<1> QED BY <1>2, <1>4, <1>7

LEMMA ReplaceEveryIs ==
  ASSUME NEW s, Good(s), NEW v \in Tracked, NEW w \in AnyValue,
         NEW X, X = {u \in Operands(s) : ValueAt(s, u) = v}
  PROVE  Good(ReplaceEvery(s, v, w)) /\ Substituted(s, ReplaceEvery(s, v, w), X, w)
<1>1. PICK copy \in Seq(Pos) : copy = s.uses[v]
  BY ListIs
<1>2. X = Range(copy) \cap Range(copy) /\ X \subseteq Operands(s)
  BY <1>1, ListIs
<1>3. PICK yes \in BOOLEAN : yes = TRUE
  OBVIOUS
<1>4. ReplaceEvery(s, v, w) = ReplaceUses(s, copy, Range(copy), w, yes)
  BY <1>1, <1>3, Zenon DEF ReplaceEvery
<1> QED BY <1>2, <1>4, ReplaceUsesIs

-----------------------------------------------------------------------------
(* Taking operands out, with the ones behind them moving up *)

\* The record of an operand x of s, which moves to to[x], or out.
Record(s, x, to) == [value |-> ValueAt(s, x), from |-> x, to |-> to[x]]
Records(s, X, to) == {Record(s, x, to) : x \in X}

MovesApart(X, to) ==
  /\ to \in [X -> Pos \cup {NoUse}]
  /\ \A x, y \in X : x # y /\ to[x] # NoUse => to[x] # to[y]

\* The operands X of s move in t, the others stay.
Moved(s, t, X, to) ==
  /\ X \subseteq Operands(s)
  /\ \A x \in X : to[x] # NoUse =>
       /\ to[x] \in Operands(t) /\ ValueAt(t, to[x]) = ValueAt(s, x)
       /\ to[x] \in Operands(s) => to[x] \in X
       /\ to[x][1] = x[1]
  /\ \A u \in Operands(s) \ X : u \in Operands(t) /\ ValueAt(t, u) = ValueAt(s, u)
  /\ \A u \in Operands(t) : u \in Operands(s) \ X \/ \E x \in X : to[x] = u

Named(s)  == {ValueAt(s, u) : u \in Operands(s)}
Owners(s) == {u[1] : u \in Operands(s)}
Within(s, t) == Named(t) \subseteq Named(s) /\ Owners(t) \subseteq Owners(s)

LEMMA ValueAtIn ==
  ASSUME NEW s \in States, NEW u \in Operands(s)
  PROVE  u \in Pos /\ ValueAt(s, u) \in AnyValue
<1>1. u \in Pos /\ Has(s, u)
  BY OperandsAre
<1>2. PICK i \in Instrs : i = u[1]
  BY <1>1, PosParts
<1>3. PICK k : k = u[3]
  OBVIOUS
<1>4. PICK a : a = u[4]
  OBVIOUS
<1>5. CASE u[2] = "NormalArg"
  <2>1. k \in DOMAIN s.args[i] /\ ValueAt(s, u) = s.args[i][k]
    BY <1>1, <1>2, <1>3, <1>5 DEF Has, ValueAt
  <2> QED BY <2>1, <1>1, ShapeFacts
<1>6. CASE u[2] = "BB"
  <2>1. k \in DOMAIN s.bbs[i] /\ ValueAt(s, u) = s.bbs[i][k].bb
    BY <1>1, <1>2, <1>3, <1>6 DEF Has, ValueAt
  <2>2. s.bbs[i][k] \in Target
    BY <2>1, ShapeFacts
  <2> QED BY <2>1, <2>2, <1>1 DEF Target
<1>7. CASE u[2] = "BBArg"
  <2>1. /\ k \in DOMAIN s.bbs[i] /\ a \in DOMAIN s.bbs[i][k].args
        /\ ValueAt(s, u) = s.bbs[i][k].args[a]
    BY <1>1, <1>2, <1>3, <1>4, <1>7 DEF Has, ValueAt
  <2>2. s.bbs[i][k].args \in Seq(AnyValue)
    BY <2>1, ShapeFacts
  <2> QED BY <2>1, <2>2, <1>1
<1> QED BY <1>1, <1>5, <1>6, <1>7, PosParts

LEMMA MovedMatches ==
  ASSUME NEW s, Good(s), NEW b \in States, NEW t \in States, NEW X, NEW to,
         MovesApart(X, to), Moved(s, t, X, to), Relists(s, b, Records(s, X, to)), SameLists(b, t)
  PROVE  Good(t) /\ Within(s, t)
<1>1. PICK S : S = Records(s, X, to)
  OBVIOUS
<1>2. s \in States
  BY DEF Good
<1>3. ASSUME NEW v \in Tracked, NEW u \in Pos
      PROVE  /\ Taken(S, v, u) <=> u \in X /\ ValueAt(s, u) = v
             /\ Given(S, v, u) <=> \E x \in X : to[x] = u /\ ValueAt(s, x) = v
  <2>1. \A m : m \in S <=> \E x \in X : m = Record(s, x, to)
    BY <1>1 DEF Records
  <2>2. \A x \in X : LET m == Record(s, x, to)
                    IN m.value = ValueAt(s, x) /\ m.from = x /\ m.to = to[x]
    BY DEF Record
  <2> QED BY <2>1, <2>2 DEF Taken, Given
<1>4. ASSUME NEW v \in Tracked, NEW u \in Pos
      PROVE  /\ Taken(S, v, u) => Names(s, u, v)
             /\ Given(S, v, u) => ~Names(s, u, v) \/ Taken(S, v, u)
             /\ Names(t, u, v) <=> Given(S, v, u) \/ (Names(s, u, v) /\ ~Taken(S, v, u))
  <2>1. u # NoUse
    BY NoUseIsNone
  <2>2. Taken(S, v, u) => Names(s, u, v)
    BY <1>3 DEF Names, Moved
  <2>3. Given(S, v, u) => ~Names(s, u, v) \/ Taken(S, v, u)
    BY <1>3, <2>1 DEF Names, Moved
  <2>4. ASSUME Names(t, u, v) PROVE Given(S, v, u) \/ (Names(s, u, v) /\ ~Taken(S, v, u))
    <3>1. u \in Operands(t) /\ ValueAt(t, u) = v
      BY <2>4 DEF Names
    <3>2. CASE u \in Operands(s) \ X
      BY <3>1, <3>2, <1>3 DEF Names, Moved
    <3>3. CASE \E x \in X : to[x] = u
      BY <3>1, <3>3, <1>3, <2>1 DEF Moved
    <3> QED BY <3>1, <3>2, <3>3 DEF Moved
  <2>5. ASSUME Given(S, v, u) PROVE Names(t, u, v)
    BY <1>3, <2>1, <2>5 DEF Names, Moved
  <2>6. ASSUME Names(s, u, v), ~Taken(S, v, u) PROVE Names(t, u, v)
    BY <1>3, <2>6 DEF Names, Moved
  <2> QED BY <2>2, <2>3, <2>4, <2>5, <2>6
<1>5. Renumbers(s, t, S)
  BY <1>4 DEF Renumbers
<1>6. Good(t)
  BY <1>1, <1>2, <1>5, RenumberedMatches DEF SameLists
<1>7. ASSUME NEW u \in Operands(t)
      PROVE  \E x \in Operands(s) : ValueAt(t, u) = ValueAt(s, x) /\ u[1] = x[1]
  <2>1. u # NoUse
    BY OperandsAre, NoUseIsNone
  <2> QED BY <2>1 DEF Moved
<1>8. Within(s, t)
  BY <1>7 DEF Within, Named, Owners
<1> QED BY <1>6, <1>8

LEMMA RecordsPresent ==
  ASSUME NEW s, Good(s), NEW X \in SUBSET Operands(s), NEW to
  PROVE  Present(s, Records(s, X, to))
<1> SUFFICES ASSUME NEW x \in X, ValueAt(s, x) \in Tracked PROVE Listed(s, ValueAt(s, x), x) # 0
  BY DEF Present, Records, Record
<1>1. x \in Pos /\ Names(s, x, ValueAt(s, x))
  BY OperandsAre DEF Good, Names
<1> QED BY <1>1 DEF Good, Matches, Bit

\* The records of the operands us, in this order.
InTurn(steps, s, us, to) ==
  DOMAIN steps = DOMAIN us /\ \A x \in DOMAIN us : steps[x] = Record(s, us[x], to)

LEMMA InTurnIs ==
  ASSUME NEW s \in States, NEW X \in SUBSET Operands(s), NEW to, MovesApart(X, to),
         NEW us \in Seq(X), IsInjective(us), NEW steps, InTurn(steps, s, us, to)
  PROVE  Single(steps) /\ Range(steps) = Records(s, Range(us), to)
<1>1. \A x \in DOMAIN us : us[x] \in X
  OBVIOUS
<1>2. Single(steps)
  <2> SUFFICES ASSUME NEW x \in DOMAIN us, NEW y \in DOMAIN us, x # y
               PROVE  Apart({steps[x]}, {steps[y]})
    BY DEF Single, InTurn
  <2>1. us[x] # us[y] /\ us[x] \in X /\ us[y] \in X
    BY <1>1 DEF IsInjective
  <2>2. /\ steps[x].from = us[x] /\ steps[x].to = to[us[x]]
        /\ steps[y].from = us[y] /\ steps[y].to = to[us[y]]
    BY DEF InTurn, Record
  <2>3. to[us[x]] # NoUse => to[us[x]] # to[us[y]]
    BY <2>1 DEF MovesApart
  <2> QED BY <2>1, <2>2, <2>3 DEF Apart
<1>3. Range(steps) = Records(s, Range(us), to)
  BY DEF InTurn, Range, Records
<1> QED BY <1>2, <1>3

LEMMA RelistMoves ==
  ASSUME NEW s, Good(s), NEW to, NEW us, NEW X, X = Range(us), us \in Seq(X), IsInjective(us),
         X \subseteq Operands(s), MovesApart(X, to),
         NEW steps \in Seq(Steps), InTurn(steps, s, us, to)
  PROVE  Relist(s, steps) \in States /\ Relists(s, Relist(s, steps), Records(s, X, to))
<1>1. s \in States
  BY DEF Good
<1>2. Single(steps) /\ Range(steps) = Records(s, X, to)
  BY <1>1, InTurnIs
<1>3. Present(s, Range(steps))
  BY <1>2, RecordsPresent
<1>4. Relists(s, Relist(s, steps), Range(steps))
  BY <1>1, <1>2, <1>3, RelistIs
<1> QED BY <1>1, <1>2, <1>4, RelistIs

LEMMA RelistEachMoves ==
  ASSUME NEW s, Good(s), NEW to, NEW X \in SUBSET Operands(s), MovesApart(X, to),
         NEW n \in Nat, NEW us \in [1 .. n -> Seq(X)],
         \A k \in 1 .. n : IsInjective(us[k]),
         \A k, l \in 1 .. n : k # l => Range(us[k]) \cap Range(us[l]) = {},
         X = UNION {Range(us[k]) : k \in 1 .. n},
         NEW parts \in Seq(Seq(Steps)), Len(parts) = n,
         \A k \in 1 .. n : InTurn(parts[k], s, us[k], to)
  PROVE  RelistEach(s, parts) \in States /\ Relists(s, RelistEach(s, parts), Records(s, X, to))
<1>1. s \in States /\ DOMAIN parts = 1 .. n
  BY DEF Good
<1>2. \A k \in 1 .. n : Single(parts[k]) /\ Range(parts[k]) = Records(s, Range(us[k]), to)
  BY <1>1, InTurnIs
<1>3. ASSUME NEW k \in 1 .. n, NEW l \in 1 .. n, k # l
      PROVE  Apart(Range(parts[k]), Range(parts[l]))
  <2>0. SUFFICES ASSUME NEW x \in Range(us[k]), NEW y \in Range(us[l])
                 PROVE  x # y /\ (to[x] # NoUse => to[x] # to[y])
    <3>1. ASSUME NEW m \in Range(parts[k]), NEW o \in Range(parts[l])
          PROVE  (m.from # NoUse => m.from # o.from) /\ (m.to # NoUse => m.to # o.to)
      <4>1. m \in Records(s, Range(us[k]), to) /\ o \in Records(s, Range(us[l]), to)
        BY <1>2
      <4>2. PICK x \in Range(us[k]) : m = Record(s, x, to)
        BY <4>1 DEF Records
      <4>3. PICK y \in Range(us[l]) : o = Record(s, y, to)
        BY <4>1 DEF Records
      <4>4. m.from = x /\ m.to = to[x] /\ o.from = y /\ o.to = to[y]
        BY <4>2, <4>3 DEF Record
      <4> QED BY <4>4, <1>3
    <3> QED BY <3>1 DEF Apart
  <2>1. x # y /\ x \in X /\ y \in X
    BY <1>3
  <2> QED BY <2>1 DEF MovesApart
<1>4. SingleParts(parts)
  BY <1>1, <1>2, <1>3 DEF SingleParts
<1>5. AllSteps(parts) = Records(s, X, to)
  <2>1. AllSteps(parts) = UNION {Range(parts[k]) : k \in 1 .. n}
    BY <1>1 DEF AllSteps
  <2>2. \A m : m \in AllSteps(parts) <=> \E k \in 1 .. n : m \in Records(s, Range(us[k]), to)
    BY <2>1, <1>2
  <2>3. \A m : m \in Records(s, X, to) <=> \E k \in 1 .. n : m \in Records(s, Range(us[k]), to)
    <3>1. \A x : x \in X <=> \E k \in 1 .. n : x \in Range(us[k])
      OBVIOUS
    <3>2. ASSUME NEW m \in Records(s, X, to)
          PROVE  \E k \in 1 .. n : m \in Records(s, Range(us[k]), to)
      <4>1. PICK x \in X : m = Record(s, x, to)
        BY DEF Records
      <4>2. PICK k \in 1 .. n : x \in Range(us[k])
        BY <3>1
      <4> QED BY <4>1, <4>2 DEF Records
    <3>3. ASSUME NEW k \in 1 .. n, NEW m \in Records(s, Range(us[k]), to)
          PROVE  m \in Records(s, X, to)
      <4>1. PICK x \in Range(us[k]) : m = Record(s, x, to)
        BY DEF Records
      <4>2. x \in X
        BY <3>1
      <4> QED BY <4>1, <4>2 DEF Records
    <3> QED BY <3>2, <3>3
  <2> QED BY <2>2, <2>3
<1>6. Present(s, AllSteps(parts))
  BY <1>5, RecordsPresent
<1>7. Relists(s, RelistEach(s, parts), AllSteps(parts))
  BY <1>1, <1>4, <1>6, RelistEachIs
<1> QED BY <1>1, <1>5, <1>7, RelistEachIs

-----------------------------------------------------------------------------
(* States that differ in the operands of one instruction *)

ArgsSet(s, t, i, q) == t.bbs = s.bbs /\ t.args = [s.args EXCEPT ![i] = q]
BBsSet(s, t, i, p)  == t.args = s.args /\ t.bbs = [s.bbs EXCEPT ![i] = p]
BBArgsSet(s, t, i, k, q) == t.args = s.args /\ t.bbs = [s.bbs EXCEPT ![i][k].args = q]

Same(s, t, u) ==
  /\ u \in Operands(t) <=> u \in Operands(s)
  /\ u \in Operands(s) => ValueAt(t, u) = ValueAt(s, u)
Elsewhere(s, t, Z) == \A u \in Pos : u \notin Z => Same(s, t, u)

ArgPos(i)      == {u \in Pos : u[1] = i /\ u[2] = "NormalArg"}
BranchPos(i)   == {u \in Pos : u[1] = i /\ u[2] # "NormalArg"}
BBArgPos(i, k) == {u \in Pos : u[1] = i /\ u[2] = "BBArg" /\ u[3] = k}

LEMMA NormIs ==
  ASSUME NEW t \in States, NEW i \in Instrs, NEW u \in ArgPos(i)
  PROVE  /\ u \in Operands(t) <=> u[3] \in DOMAIN t.args[i] /\ u[4] = 1
         /\ ValueAt(t, u) = t.args[i][u[3]]
         /\ u[4] = 1 => u = Norm(i, u[3])
<1>1. u \in Pos /\ u[1] = i /\ u[2] = "NormalArg"
  BY DEF ArgPos
<1>2. Has(t, u) <=> u[3] \in DOMAIN t.args[i] /\ u[4] = 1
  BY <1>1 DEF Has
<1> QED BY <1>1, <1>2, OperandsAre, PosParts DEF ValueAt, Norm

LEMMA BranchIs ==
  ASSUME NEW t \in States, NEW i \in Instrs, NEW u \in BranchPos(i)
  PROVE  /\ u[2] \in {"BB", "BBArg"}
         /\ u[2] = "BB" =>
              /\ u \in Operands(t) <=> u[3] \in DOMAIN t.bbs[i] /\ u[4] = 1
              /\ ValueAt(t, u) = t.bbs[i][u[3]].bb
              /\ u[4] = 1 => u = BB(i, u[3])
         /\ u[2] = "BBArg" =>
              /\ u \in Operands(t) <=> u[3] \in DOMAIN t.bbs[i] /\ u[4] \in DOMAIN t.bbs[i][u[3]].args
              /\ ValueAt(t, u) = t.bbs[i][u[3]].args[u[4]]
              /\ u = BBArg(i, u[3], u[4])
<1>1. u \in Pos /\ u[1] = i /\ u[2] # "NormalArg"
  BY DEF BranchPos
<1>2. u[2] \in {"BB", "BBArg"} /\ u = <<i, u[2], u[3], u[4]>>
  BY <1>1, PosParts
<1>3. u \in Operands(t) <=> Has(t, u)
  BY <1>1, OperandsAre
<1> QED BY <1>1, <1>2, <1>3 DEF Has, ValueAt, BB, BBArg

LEMMA NormHere ==
  ASSUME NEW t \in States, NEW i \in Instrs, NEW k \in Nat
  PROVE  /\ Norm(i, k) \in ArgPos(i) /\ Norm(i, k)[3] = k /\ Norm(i, k)[4] = 1 /\ Norm(i, k)[1] = i
         /\ Norm(i, k) \in Operands(t) <=> k \in DOMAIN t.args[i]
         /\ ValueAt(t, Norm(i, k)) = t.args[i][k]
<1>1. Norm(i, k) \in ArgPos(i) /\ Norm(i, k)[3] = k /\ Norm(i, k)[4] = 1 /\ Norm(i, k)[1] = i
  BY DEF Norm, ArgPos, Pos
<1> QED BY <1>1, NormIs

LEMMA BBHere ==
  ASSUME NEW t \in States, NEW i \in Instrs, NEW k \in Nat
  PROVE  /\ BB(i, k) \in BranchPos(i) /\ BB(i, k)[3] = k /\ BB(i, k)[2] = "BB" /\ BB(i, k)[4] = 1 /\ BB(i, k)[1] = i
         /\ BB(i, k) \in Operands(t) <=> k \in DOMAIN t.bbs[i]
         /\ ValueAt(t, BB(i, k)) = t.bbs[i][k].bb
<1>1. /\ BB(i, k) \in BranchPos(i) /\ BB(i, k)[3] = k /\ BB(i, k)[2] = "BB"
      /\ BB(i, k)[4] = 1 /\ BB(i, k)[1] = i
  BY DEF BB, BranchPos, Pos
<1> QED BY <1>1, BranchIs

LEMMA BBArgHere ==
  ASSUME NEW t \in States, NEW i \in Instrs, NEW k \in Nat, NEW a \in Nat
  PROVE  /\ BBArg(i, k, a) \in BranchPos(i) /\ BBArg(i, k, a) \in BBArgPos(i, k)
         /\ BBArg(i, k, a)[3] = k /\ BBArg(i, k, a)[2] = "BBArg" /\ BBArg(i, k, a)[4] = a
         /\ BBArg(i, k, a)[1] = i
         /\ BBArg(i, k, a) \in Operands(t) <=> k \in DOMAIN t.bbs[i] /\ a \in DOMAIN t.bbs[i][k].args
         /\ ValueAt(t, BBArg(i, k, a)) = t.bbs[i][k].args[a]
<1>1. /\ BBArg(i, k, a) \in BranchPos(i) /\ BBArg(i, k, a) \in BBArgPos(i, k)
      /\ BBArg(i, k, a)[3] = k /\ BBArg(i, k, a)[2] = "BBArg" /\ BBArg(i, k, a)[4] = a
      /\ BBArg(i, k, a)[1] = i
  BY DEF BBArg, BranchPos, BBArgPos, Pos
<1> QED BY <1>1, BranchIs

LEMMA SameIfHas ==
  ASSUME NEW s \in States, NEW t \in States, NEW u \in Pos,
         t.args[u[1]] = s.args[u[1]], t.bbs[u[1]] = s.bbs[u[1]]
  PROVE  Same(s, t, u)
<1>1. Has(t, u) <=> Has(s, u)
  BY DEF Has
<1> QED BY <1>1, OperandsAre DEF Same, ValueAt

LEMMA ArgsSetIs ==
  ASSUME NEW s \in States, NEW t \in States, NEW i \in Instrs, NEW q, ArgsSet(s, t, i, q)
  PROVE  t.args[i] = q /\ Elsewhere(s, t, ArgPos(i))
<1>1. /\ t.args[i] = q /\ \A j \in Instrs \ {i} : t.args[j] = s.args[j]
      /\ t.bbs = s.bbs
  BY DEF ArgsSet, States
<1>2. ASSUME NEW u \in Pos, u \notin ArgPos(i) PROVE Same(s, t, u)
  <2>1. CASE u[1] = i
    <3>1. u[2] # "NormalArg"
      BY <1>2, <2>1 DEF ArgPos
    <3>2. Has(t, u) <=> Has(s, u)
      BY <3>1, <1>1 DEF Has
    <3> QED BY <3>1, <3>2, <1>1, OperandsAre DEF Same, ValueAt
  <2>2. CASE u[1] # i
    BY <2>2, <1>1, PosParts, SameIfHas
  <2> QED BY <2>1, <2>2
<1> QED BY <1>1, <1>2 DEF Elsewhere

LEMMA BBsSetIs ==
  ASSUME NEW s \in States, NEW t \in States, NEW i \in Instrs, NEW p, BBsSet(s, t, i, p)
  PROVE  t.bbs[i] = p /\ Elsewhere(s, t, BranchPos(i))
<1>1. /\ t.bbs[i] = p /\ \A j \in Instrs \ {i} : t.bbs[j] = s.bbs[j]
      /\ t.args = s.args
  BY DEF BBsSet, States
<1>2. ASSUME NEW u \in Pos, u \notin BranchPos(i) PROVE Same(s, t, u)
  <2>1. CASE u[1] = i
    <3>1. u[2] = "NormalArg"
      BY <1>2, <2>1 DEF BranchPos
    <3>2. Has(t, u) <=> Has(s, u)
      BY <3>1, <1>1 DEF Has
    <3> QED BY <3>1, <3>2, <1>1, OperandsAre DEF Same, ValueAt
  <2>2. CASE u[1] # i
    BY <2>2, <1>1, PosParts, SameIfHas
  <2> QED BY <2>1, <2>2
<1> QED BY <1>1, <1>2 DEF Elsewhere

LEMMA BBArgsSetIs ==
  ASSUME NEW s \in States, NEW t \in States, NEW i \in Instrs, NEW k \in DOMAIN s.bbs[i], NEW q,
         BBArgsSet(s, t, i, k, q)
  PROVE  /\ DOMAIN t.bbs[i] = DOMAIN s.bbs[i] /\ t.bbs[i][k].args = q
         /\ t.bbs[i][k].bb = s.bbs[i][k].bb
         /\ Elsewhere(s, t, BBArgPos(i, k))
<1>1. /\ t.bbs[i] = [s.bbs[i] EXCEPT ![k].args = q] /\ \A j \in Instrs \ {i} : t.bbs[j] = s.bbs[j]
      /\ t.args = s.args
  BY DEF BBArgsSet, States
<1>2. /\ DOMAIN t.bbs[i] = DOMAIN s.bbs[i] /\ t.bbs[i][k] = [s.bbs[i][k] EXCEPT !.args = q]
      /\ \A l \in DOMAIN s.bbs[i] \ {k} : t.bbs[i][l] = s.bbs[i][l]
  BY <1>1
<1>3. t.bbs[i][k].args = q /\ t.bbs[i][k].bb = s.bbs[i][k].bb
  BY <1>2, ShapeFacts DEF Target
<1>4. ASSUME NEW u \in Pos, u \notin BBArgPos(i, k) PROVE Same(s, t, u)
  <2>1. CASE u[1] = i
    <3>1. u[2] # "BBArg" \/ u[3] # k
      BY <1>4, <2>1 DEF BBArgPos
    <3>2. (Has(t, u) <=> Has(s, u)) /\ (Has(s, u) => ValueAt(t, u) = ValueAt(s, u))
      BY <3>1, <2>1, <1>1, <1>2, <1>3 DEF Has, ValueAt
    <3> QED BY <3>1, <3>2, <1>1, OperandsAre DEF Same
  <2>2. CASE u[1] # i
    BY <2>2, <1>1, PosParts, SameIfHas
  <2> QED BY <2>1, <2>2
<1> QED BY <1>2, <1>3, <1>4 DEF Elsewhere

-----------------------------------------------------------------------------
(* Adding an operand *)

Grown(s, t, u, v) ==
  /\ u \in Pos /\ u \notin Operands(s) /\ u \in Operands(t) /\ ValueAt(t, u) = v
  /\ Elsewhere(s, t, {u})

Added(s, r, i, v) ==
  Good(r) /\ Named(r) \subseteq Named(s) \cup {v} /\ Owners(r) \subseteq Owners(s) \cup {i}

LEMMA AddedMatches ==
  ASSUME NEW s, Good(s), NEW a \in States, SameLists(s, a), NEW v \in AnyValue, NEW u,
         Grown(s, a, u, v)
  PROVE  Added(s, AddUsage(a, v, u), u[1], v) /\ SameShape(a, AddUsage(a, v, u))
<1>1. s \in States /\ Matches(s) /\ u \in Pos
  BY DEF Good, Grown
<1>2. PICK r : r = AddUsage(a, v, u)
  OBVIOUS
<1>3. /\ r \in States /\ SameShape(a, r) /\ r.missing = a.missing
      /\ \A x \in Tracked, y \in Pos : Listed(r, x, y) = Listed(a, x, y) + Bit(x = v /\ y = u)
  BY <1>1, <1>2, AddUsageIs
<1>4. Operands(r) = Operands(a) /\ \A y : ValueAt(r, y) = ValueAt(a, y)
  BY <1>3 DEF SameShape, Operands, ValueAt
<1>5. ASSUME NEW x \in Tracked, NEW y \in Pos PROVE Listed(r, x, y) = Bit(Names(r, y, x))
  <2>1. Listed(a, x, y) = Bit(Names(s, y, x))
    BY <1>1 DEF SameLists, Matches, Listed
  <2>2. Listed(r, x, y) = Bit(Names(s, y, x)) + Bit(x = v /\ y = u)
    BY <1>3, <2>1
  <2>3. CASE y = u
    BY <2>2, <2>3, <1>4 DEF Grown, Names, Bit
  <2>4. CASE y # u
    <3>1. Same(s, a, y)
      BY <2>4 DEF Grown, Elsewhere
    <3> QED BY <2>2, <2>4, <3>1, <1>4 DEF Same, Names, Bit
  <2> QED BY <2>3, <2>4
<1>6. Good(r)
  BY <1>3, <1>5 DEF Good, Matches, SameLists
<1>7. ASSUME NEW y \in Operands(r)
      PROVE  (y = u /\ ValueAt(r, y) = v) \/ (y \in Operands(s) /\ ValueAt(r, y) = ValueAt(s, y))
  <2>1. y \in Pos /\ y \in Operands(a)
    BY <1>4, OperandsAre
  <2>2. CASE y = u
    BY <2>2, <1>4 DEF Grown
  <2>3. CASE y # u
    <3>1. Same(s, a, y)
      BY <2>1, <2>3 DEF Grown, Elsewhere
    <3> QED BY <3>1, <2>1, <1>4 DEF Same
  <2> QED BY <2>2, <2>3
<1>8. Named(r) \subseteq Named(s) \cup {v} /\ Owners(r) \subseteq Owners(s) \cup {u[1]}
  BY <1>7 DEF Named, Owners
<1> QED BY <1>2, <1>3, <1>6, <1>8 DEF Added

LEMMA AppendIs ==
  ASSUME NEW N, NEW q \in Seq(N), NEW e \in N, NEW r, r = Append(q, e)
  PROVE  /\ r \in Seq(N) /\ Len(r) = Len(q) + 1 /\ DOMAIN q = 1 .. Len(q) /\ DOMAIN r = 1 .. Len(r)
         /\ r[Len(r)] = e /\ Len(r) \notin DOMAIN q /\ Len(r) \in Nat
         /\ \A k \in DOMAIN q : k \in DOMAIN r /\ r[k] = q[k]
         /\ \A k \in DOMAIN r : k = Len(r) \/ k \in DOMAIN q
OBVIOUS

LEMMA AddArgIs ==
  ASSUME NEW s, Good(s), NEW i \in Instrs, NEW v \in AnyValue,
         NEW a, a = [s EXCEPT !.args[i] = Append(@, v)]
  PROVE  Added(s, AddUsage(a, v, Norm(i, Len(a.args[i]))), i, v)
<1>t. PICK t : t = a
  OBVIOUS
<1>1. s \in States
  BY DEF Good
<1>2. PICK q : q = Append(s.args[i], v)
  OBVIOUS
<1>3. s.args[i] \in Seq(AnyValue)
  BY <1>1, ShapeFacts
<1>4. /\ q \in Seq(AnyValue) /\ DOMAIN q = 1 .. Len(q) /\ Len(q) \in Nat
      /\ q[Len(q)] = v /\ Len(q) \notin DOMAIN s.args[i] /\ Len(q) \in DOMAIN q
      /\ \A k \in DOMAIN s.args[i] : k \in DOMAIN q /\ q[k] = s.args[i][k]
      /\ \A k \in DOMAIN q : k = Len(q) \/ k \in DOMAIN s.args[i]
  BY <1>2, <1>3, AppendIs
<1>5. t \in States /\ SameLists(s, t) /\ ArgsSet(s, t, i, q)
  BY <1>t, <1>1, <1>2, <1>4 DEF States, SameLists, ArgsSet
<1>6. t.args[i] = q /\ Elsewhere(s, t, ArgPos(i))
  BY <1>1, <1>5, ArgsSetIs
<1>7. PICK u : u = Norm(i, Len(q))
  OBVIOUS
<1>8. /\ u \in ArgPos(i) /\ u \notin Operands(s) /\ u \in Operands(t) /\ ValueAt(t, u) = v /\ u[1] = i
  <2>1. u \in ArgPos(i) /\ u[1] = i /\ u \notin Operands(s)
    BY <1>1, <1>4, <1>7, NormHere
  <2>2. u \in Operands(t) /\ ValueAt(t, u) = q[Len(q)]
    BY <1>4, <1>5, <1>6, <1>7, NormHere
  <2> QED BY <2>1, <2>2, <1>4
<1>9. ASSUME NEW y \in Pos, y # u PROVE Same(s, t, y)
  <2>1. CASE y \in ArgPos(i)
    <3>1. /\ y \in Operands(s) <=> y[3] \in DOMAIN s.args[i] /\ y[4] = 1
          /\ y \in Operands(t) <=> y[3] \in DOMAIN q /\ y[4] = 1
          /\ ValueAt(s, y) = s.args[i][y[3]] /\ ValueAt(t, y) = q[y[3]]
          /\ y[4] = 1 => y = Norm(i, y[3])
      BY <2>1, <1>1, <1>5, <1>6, NormIs
    <3>2. y[4] = 1 => y[3] # Len(q)
      BY <3>1, <1>7, <1>9
    <3> QED BY <3>1, <3>2, <1>4 DEF Same
  <2>2. CASE y \notin ArgPos(i)
    BY <2>2, <1>6 DEF Elsewhere
  <2> QED BY <2>1, <2>2
<1>10. Grown(s, t, u, v)
  BY <1>8, <1>9 DEF Grown, Elsewhere, ArgPos
<1> QED BY <1>t, <1>5, <1>6, <1>7, <1>8, <1>10, AddedMatches

LEMMA AddBBIs ==
  ASSUME NEW s, Good(s), NEW i \in Instrs, NEW v \in AnyValue,
         NEW a, a = [s EXCEPT !.bbs[i] = Append(@, [bb |-> v, args |-> <<>>])]
  PROVE  Added(s, AddUsage(a, v, BB(i, Len(a.bbs[i]))), i, v)
<1>t. PICK t : t = a
  OBVIOUS
<1>1. s \in States
  BY DEF Good
<1>2. PICK e : e = [bb |-> v, args |-> <<>>]
  OBVIOUS
<1>3. e \in Target /\ e.bb = v /\ DOMAIN e.args = {}
  BY <1>2 DEF Target
<1>4. PICK q : q = Append(s.bbs[i], e)
  OBVIOUS
<1>5. s.bbs[i] \in Seq(Target)
  BY <1>1, ShapeFacts
<1>6. /\ q \in Seq(Target) /\ DOMAIN q = 1 .. Len(q) /\ Len(q) \in Nat
      /\ q[Len(q)] = e /\ Len(q) \notin DOMAIN s.bbs[i] /\ Len(q) \in DOMAIN q
      /\ \A k \in DOMAIN s.bbs[i] : k \in DOMAIN q /\ q[k] = s.bbs[i][k]
      /\ \A k \in DOMAIN q : k = Len(q) \/ k \in DOMAIN s.bbs[i]
  BY <1>3, <1>4, <1>5, AppendIs
<1>7. t \in States /\ SameLists(s, t) /\ BBsSet(s, t, i, q)
  BY <1>t, <1>1, <1>2, <1>4, <1>6 DEF States, SameLists, BBsSet
<1>8. t.bbs[i] = q /\ Elsewhere(s, t, BranchPos(i))
  BY <1>1, <1>7, BBsSetIs
<1>9. PICK u : u = BB(i, Len(q))
  OBVIOUS
<1>10. /\ u \in BranchPos(i) /\ u \notin Operands(s) /\ u \in Operands(t) /\ ValueAt(t, u) = v /\ u[1] = i
  <2>1. u \in BranchPos(i) /\ u[1] = i /\ u \notin Operands(s)
    BY <1>1, <1>6, <1>9, BBHere
  <2>2. u \in Operands(t) /\ ValueAt(t, u) = q[Len(q)].bb
    BY <1>6, <1>7, <1>8, <1>9, BBHere
  <2> QED BY <2>1, <2>2, <1>3, <1>6
<1>11. ASSUME NEW y \in Pos, y # u PROVE Same(s, t, y)
  <2>1. CASE y \in BranchPos(i) /\ y[2] = "BB"
    <3>1. /\ y \in Operands(s) <=> y[3] \in DOMAIN s.bbs[i] /\ y[4] = 1
          /\ y \in Operands(t) <=> y[3] \in DOMAIN q /\ y[4] = 1
          /\ ValueAt(s, y) = s.bbs[i][y[3]].bb /\ ValueAt(t, y) = q[y[3]].bb
          /\ y[4] = 1 => y = BB(i, y[3])
      BY <2>1, <1>1, <1>7, <1>8, BranchIs
    <3>2. y[4] = 1 => y[3] # Len(q)
      BY <3>1, <1>9, <1>11
    <3> QED BY <3>1, <3>2, <1>6 DEF Same
  <2>2. CASE y \in BranchPos(i) /\ y[2] = "BBArg"
    <3>1. /\ y \in Operands(s) <=> y[3] \in DOMAIN s.bbs[i] /\ y[4] \in DOMAIN s.bbs[i][y[3]].args
          /\ y \in Operands(t) <=> y[3] \in DOMAIN q /\ y[4] \in DOMAIN q[y[3]].args
          /\ ValueAt(s, y) = s.bbs[i][y[3]].args[y[4]] /\ ValueAt(t, y) = q[y[3]].args[y[4]]
      BY <2>2, <1>1, <1>7, <1>8, BranchIs
    <3> QED BY <3>1, <1>3, <1>6 DEF Same
  <2>3. CASE y \notin BranchPos(i)
    BY <2>3, <1>8 DEF Elsewhere
  <2> QED BY <2>1, <2>2, <2>3, <1>1, BranchIs
<1>12. Grown(s, t, u, v)
  BY <1>10, <1>11 DEF Grown, Elsewhere, BranchPos
<1> QED BY <1>t, <1>7, <1>8, <1>9, <1>10, <1>12, AddedMatches

LEMMA AddBBArgIs ==
  ASSUME NEW s, Good(s), NEW i \in Instrs, NEW k \in DOMAIN s.bbs[i], NEW v \in AnyValue,
         NEW a, a = [s EXCEPT !.bbs[i][k].args = Append(@, v)]
  PROVE  /\ Added(s, AddUsage(a, v, BBArg(i, k, Len(a.bbs[i][k].args))), i, v)
         /\ SameShape(a, AddUsage(a, v, BBArg(i, k, Len(a.bbs[i][k].args))))
         /\ DOMAIN a.bbs[i] = DOMAIN s.bbs[i]
         /\ a.bbs[i][k].args = Append(s.bbs[i][k].args, v)
<1>t. PICK t : t = a
  OBVIOUS
<1>1. s \in States
  BY DEF Good
<1>0. PICK old : old = s.bbs[i][k].args
  OBVIOUS
<1>2. PICK q : q = Append(old, v)
  OBVIOUS
<1>3. /\ old \in Seq(AnyValue) /\ k \in Nat
      /\ s.bbs[i] \in Seq(Target) /\ s.bbs[i][k] \in Target
  BY <1>0, <1>1, ShapeFacts
<1>4. /\ q \in Seq(AnyValue) /\ DOMAIN q = 1 .. Len(q) /\ Len(q) \in Nat
      /\ q[Len(q)] = v /\ Len(q) \notin DOMAIN old /\ Len(q) \in DOMAIN q
      /\ \A l \in DOMAIN old : l \in DOMAIN q /\ q[l] = old[l]
      /\ \A l \in DOMAIN q : l = Len(q) \/ l \in DOMAIN old
  BY <1>2, <1>3, AppendIs
<1>5. PICK e : e = [s.bbs[i][k] EXCEPT !.args = q]
  OBVIOUS
<1>6. e \in Target
  BY <1>3, <1>4, <1>5 DEF Target
<1>7. PICK p : p = [s.bbs[i] EXCEPT ![k] = e]
  OBVIOUS
<1>8. p \in Seq(Target)
  BY <1>3, <1>6, <1>7, ExceptIn
<1>9. t = [s EXCEPT !.bbs[i] = p]
  BY <1>t, <1>0, <1>1, <1>2, <1>5, <1>7
<1>10. t \in States /\ SameLists(s, t) /\ BBArgsSet(s, t, i, k, q)
  <2>1. t \in States /\ SameLists(s, t)
    BY <1>1, <1>8, <1>9 DEF States, SameLists
  <2>2. t.args = s.args /\ t.bbs = [s.bbs EXCEPT ![i] = p]
    BY <1>1, <1>9 DEF States
  <2>3. p = [s.bbs[i] EXCEPT ![k].args = q]
    BY <1>5, <1>7
  <2> QED BY <2>1, <2>2, <2>3 DEF BBArgsSet
<1>11. /\ DOMAIN t.bbs[i] = DOMAIN s.bbs[i] /\ t.bbs[i][k].args = q
       /\ Elsewhere(s, t, BBArgPos(i, k))
  BY <1>1, <1>10, BBArgsSetIs
<1>12. PICK u : u = BBArg(i, k, Len(q))
  OBVIOUS
<1>13. /\ u \in BBArgPos(i, k) /\ u \notin Operands(s) /\ u \in Operands(t)
       /\ ValueAt(t, u) = v /\ u[1] = i
  <2>1. u \in BBArgPos(i, k) /\ u[1] = i /\ u \notin Operands(s)
    BY <1>0, <1>1, <1>3, <1>4, <1>12, BBArgHere
  <2>2. u \in Operands(t) /\ ValueAt(t, u) = q[Len(q)]
    BY <1>3, <1>4, <1>10, <1>11, <1>12, BBArgHere
  <2> QED BY <2>1, <2>2, <1>4
<1>14. ASSUME NEW y \in Pos, y # u PROVE Same(s, t, y)
  <2>1. CASE y \in BBArgPos(i, k)
    <3>1. y \in BranchPos(i) /\ y[2] = "BBArg" /\ y[3] = k
      BY <2>1 DEF BBArgPos, BranchPos
    <3>2. /\ y \in Operands(s) <=> y[4] \in DOMAIN old
          /\ ValueAt(s, y) = old[y[4]] /\ y = BBArg(i, k, y[4])
      BY <3>1, <1>0, <1>1, BranchIs
    <3>4. /\ y \in Operands(t) <=> y[4] \in DOMAIN q
          /\ ValueAt(t, y) = q[y[4]]
      BY <3>1, <1>10, <1>11, BranchIs
    <3>3. y[4] # Len(q)
      BY <3>2, <1>12, <1>14
    <3> QED BY <3>2, <3>3, <3>4, <1>4 DEF Same
  <2>2. CASE y \notin BBArgPos(i, k)
    BY <2>2, <1>11 DEF Elsewhere
  <2> QED BY <2>1, <2>2
<1>15. Grown(s, t, u, v)
  BY <1>13, <1>14 DEF Grown, Elsewhere, BBArgPos
<1> QED BY <1>t, <1>0, <1>2, <1>10, <1>11, <1>12, <1>13, <1>15, AddedMatches

-----------------------------------------------------------------------------
(* The positions of the operands of an instruction, in order *)

\* us goes through the positions X, each once.
Lists(us, X) == us \in Seq(X) /\ IsInjective(us) /\ Range(us) = X

LEMMA ListsAppend ==
  ASSUME NEW X, NEW us, Lists(us, X), NEW e, e \notin X, NEW Y, Y = X \cup {e}
  PROVE  Lists(Append(us, e), Y) /\ Lists(<<e>> \o us, Y)
<1>1. PICK n \in Nat : n = Len(us)
  BY DEF Lists
<1>2. /\ us \in Seq(Y) /\ DOMAIN us = 1 .. n /\ \A k \in 1 .. n : us[k] \in X
      /\ \A k, l \in 1 .. n : us[k] = us[l] => k = l
      /\ \A x \in X : \E k \in 1 .. n : us[k] = x
  BY <1>1 DEF Lists, IsInjective, Range
<1>3. PICK r : r = Append(us, e)
  OBVIOUS
<1>4. /\ r \in Seq(Y) /\ DOMAIN r = 1 .. n + 1 /\ r[n + 1] = e
      /\ \A k \in 1 .. n : r[k] = us[k]
  BY <1>1, <1>2, <1>3
<1>5. Lists(r, Y)
  <2>1. \A k \in 1 .. n + 1 : k \in 1 .. n \/ k = n + 1
    OBVIOUS
  <2>2. ASSUME NEW k \in 1 .. n + 1, NEW l \in 1 .. n + 1, r[k] = r[l] PROVE k = l
    BY <2>1, <2>2, <1>2, <1>4
  <2>3. \A y \in Y : \E k \in 1 .. n + 1 : r[k] = y
    <3>1. \A k \in 1 .. n : k \in 1 .. n + 1
      OBVIOUS
    <3>2. n + 1 \in 1 .. n + 1
      OBVIOUS
    <3> QED BY <3>1, <3>2, <1>2, <1>4
  <2>4. \A k \in 1 .. n + 1 : r[k] \in Y
    BY <2>1, <1>2, <1>4
  <2>5. IsInjective(r)
    BY <2>2, <1>4 DEF IsInjective
  <2>6. Range(r) = Y
    BY <2>3, <2>4, <1>4 DEF Range
  <2> QED BY <2>5, <2>6, <1>4 DEF Lists
<1>6. PICK q : q = <<e>> \o us
  OBVIOUS
<1>7. /\ q \in Seq(Y) /\ DOMAIN q = 1 .. n + 1 /\ q[1] = e
      /\ \A k \in 2 .. n + 1 : q[k] = us[k - 1]
  <2>1. <<e>> \in Seq(Y) /\ Len(<<e>>) = 1 /\ <<e>>[1] = e
    OBVIOUS
  <2>2. q \in Seq(Y) /\ Len(q) = n + 1
    BY <2>1, <1>1, <1>2, <1>6
  <2>3. ASSUME NEW k \in 2 .. n + 1 PROVE q[k] = us[k - 1]
    BY <2>1, <1>1, <1>2, <1>6
  <2> QED BY <2>1, <2>2, <2>3, <1>1, <1>2, <1>6
<1>8. Lists(q, Y)
  <2>1. \A k \in 1 .. n + 1 : (k \in 2 .. n + 1 /\ k - 1 \in 1 .. n) \/ k = 1
    OBVIOUS
  <2>2. ASSUME NEW k \in 1 .. n + 1, NEW l \in 1 .. n + 1, q[k] = q[l] PROVE k = l
    BY <2>1, <2>2, <1>2, <1>7
  <2>3. \A y \in Y : \E k \in 1 .. n + 1 : q[k] = y
    <3>1. ASSUME NEW k \in 1 .. n PROVE k + 1 \in 1 .. n + 1 /\ q[k + 1] = us[k]
      <4>1. k + 1 \in 2 .. n + 1 /\ k + 1 - 1 = k
        OBVIOUS
      <4> QED BY <4>1, <1>7
    <3>2. 1 \in 1 .. n + 1
      OBVIOUS
    <3> QED BY <3>1, <3>2, <1>2, <1>7
  <2>4. \A k \in 1 .. n + 1 : q[k] \in Y
    BY <2>1, <1>2, <1>7
  <2>5. IsInjective(q)
    BY <2>2, <1>7 DEF IsInjective
  <2>6. Range(q) = Y
    <3>1. Range(q) \subseteq Y
      BY <2>4, <1>7 DEF Range
    <3>2. Y \subseteq Range(q)
      BY <2>3, <1>7 DEF Range
    <3> QED BY <3>1, <3>2
  <2> QED BY <2>5, <2>6, <1>7 DEF Lists
<1> QED BY <1>3, <1>5, <1>6, <1>8

Args(s, i)      == Operands(s) \cap ArgPos(i)
BBArgs(s, i, k) == Operands(s) \cap BBArgPos(i, k)
Branch(s, i, k) == {u \in Operands(s) : u \in BranchPos(i) /\ u[3] = k}

LEMMA ArgUsesIs ==
  ASSUME NEW s \in States, NEW i \in Instrs
  PROVE  Lists(ArgUses(s, i), Args(s, i))
<1>1. PICK us : us = ArgUses(s, i)
  OBVIOUS
<1>2. PICK X : X = Args(s, i)
  OBVIOUS
<1>3. PICK q \in Seq(AnyValue) : q = s.args[i]
  BY ShapeFacts
<1>4. PICK n \in Nat : n = Len(q) /\ DOMAIN q = 1 .. n
  OBVIOUS
<1>5. us = [k \in 1 .. n |-> Norm(i, k)]
  BY <1>1, <1>3, <1>4 DEF ArgUses
<1>6. \A k \in 1 .. n : us[k] \in X /\ us[k][3] = k
  BY <1>2, <1>3, <1>4, <1>5, NormHere DEF Args
<1>7. \A x \in X : \E k \in 1 .. n : us[k] = x
  BY <1>2, <1>3, <1>4, <1>5, NormIs DEF Args
<1>8. us \in Seq(X) /\ DOMAIN us = 1 .. n
  BY <1>5, <1>6
<1>9. IsInjective(us)
  BY <1>6, <1>8 DEF IsInjective
<1>10. Range(us) = X
  BY <1>6, <1>7, <1>8 DEF Range
<1> QED BY <1>1, <1>2, <1>8, <1>9, <1>10 DEF Lists

LEMMA BBArgUsesIs ==
  ASSUME NEW s \in States, NEW i \in Instrs, NEW k \in DOMAIN s.bbs[i]
  PROVE  Lists(BBArgUses(s, i, k), BBArgs(s, i, k))
<1>1. PICK us : us = BBArgUses(s, i, k)
  OBVIOUS
<1>2. PICK X : X = BBArgs(s, i, k)
  OBVIOUS
<1>3. PICK q \in Seq(AnyValue) : q = s.bbs[i][k].args
  BY ShapeFacts
<1>4. PICK n \in Nat : n = Len(q) /\ DOMAIN q = 1 .. n
  OBVIOUS
<1>5. us = [a \in 1 .. n |-> BBArg(i, k, a)]
  BY <1>1, <1>3, <1>4 DEF BBArgUses
<1>6. k \in Nat
  BY ShapeFacts
<1>7. \A a \in 1 .. n : us[a] \in X /\ us[a][4] = a
  BY <1>2, <1>3, <1>4, <1>5, <1>6, BBArgHere DEF BBArgs
<1>8. \A x \in X : \E a \in 1 .. n : us[a] = x
  <2>1. ASSUME NEW x \in X PROVE x[4] \in 1 .. n /\ x = BBArg(i, k, x[4])
    <3>1. x \in BranchPos(i) /\ x[2] = "BBArg" /\ x[3] = k /\ x \in Operands(s)
      BY <2>1, <1>2 DEF BBArgs, BBArgPos, BranchPos
    <3> QED BY <3>1, <1>3, <1>4, BranchIs
  <2> QED BY <2>1, <1>5
<1>9. us \in Seq(X) /\ DOMAIN us = 1 .. n
  BY <1>5, <1>7
<1>10. IsInjective(us)
  BY <1>7, <1>9 DEF IsInjective
<1>11. Range(us) = X
  BY <1>7, <1>8, <1>9 DEF Range
<1> QED BY <1>1, <1>2, <1>9, <1>10, <1>11 DEF Lists

LEMMA TargetUsesIs ==
  ASSUME NEW s \in States, NEW i \in Instrs, NEW k \in DOMAIN s.bbs[i]
  PROVE  /\ Lists(TargetUses(s, i, k), Branch(s, i, k))
         /\ Lists(Append(BBArgUses(s, i, k), BB(i, k)), Branch(s, i, k))
<1>1. PICK X : X = BBArgs(s, i, k)
  OBVIOUS
<1>2. PICK e : e = BB(i, k)
  OBVIOUS
<1>3. PICK us : us = BBArgUses(s, i, k)
  OBVIOUS
<1>4. Lists(us, X)
  BY <1>1, <1>3, BBArgUsesIs
<1>5. k \in Nat
  BY ShapeFacts
<1>6. /\ e \in BranchPos(i) /\ e[2] = "BB" /\ e[3] = k /\ e \in Operands(s)
  BY <1>2, <1>5, BBHere
<1>7. e \notin X
  BY <1>1, <1>6 DEF BBArgs, BBArgPos
<1>8. PICK Y : Y = X \cup {e}
  OBVIOUS
<1>9. Y = Branch(s, i, k)
  <2>1. ASSUME NEW u \in Branch(s, i, k) PROVE u \in Y
    <3>1. u \in BranchPos(i) /\ u \in Operands(s) /\ u[3] = k
      BY <2>1 DEF Branch
    <3>2. CASE u[2] = "BB"
      BY <3>1, <3>2, <1>2, <1>8, BranchIs
    <3>3. CASE u[2] = "BBArg"
      BY <3>1, <3>3, <1>1, <1>8 DEF BBArgs, BBArgPos, BranchPos
    <3> QED BY <3>1, <3>2, <3>3, BranchIs
  <2>2. ASSUME NEW u \in Y PROVE u \in Branch(s, i, k)
    <3>1. CASE u = e
      BY <3>1, <1>6 DEF Branch
    <3>2. CASE u \in X
      BY <3>2, <1>1 DEF BBArgs, Branch, BBArgPos, BranchPos
    <3> QED BY <3>1, <3>2, <2>2, <1>8
  <2> QED BY <2>1, <2>2
<1>10. Lists(Append(us, e), Y) /\ Lists(<<e>> \o us, Y)
  BY <1>4, <1>7, <1>8, ListsAppend
<1> QED BY <1>2, <1>3, <1>9, <1>10 DEF TargetUses

LEMMA DropsInTurn ==
  ASSUME NEW s \in States, NEW X \in SUBSET Operands(s), NEW us \in Seq(X), NEW to,
         \A x \in DOMAIN us : to[us[x]] = NoUse
  PROVE  Drops(s, us) \in Seq(Steps) /\ InTurn(Drops(s, us), s, us, to)
<1>1. PICK n \in Nat : n = Len(us) /\ DOMAIN us = 1 .. n
  OBVIOUS
<1>2. PICK d : d = Drops(s, us)
  OBVIOUS
<1>3. \A x \in 1 .. n : us[x] \in Pos /\ ValueAt(s, us[x]) \in AnyValue
  BY <1>1, ValueAtIn
<1>4. DOMAIN d = 1 .. n /\ \A x \in 1 .. n : d[x] = Record(s, us[x], to)
  BY <1>1, <1>2 DEF Drops, Record
<1>5. \A x \in 1 .. n : d[x] \in Steps
  BY <1>1, <1>3, <1>4 DEF Record, Steps
<1>6. d = [x \in 1 .. n |-> d[x]]
  BY <1>1, <1>2 DEF Drops
<1> QED BY <1>1, <1>2, <1>4, <1>5, <1>6 DEF InTurn

LEMMA MovesInTurn ==
  ASSUME NEW s \in States, NEW X \in SUBSET Operands(s), NEW us \in Seq(X), NEW to, NEW c,
         MovesApart(X, to),
         \A x \in DOMAIN us : to[us[x]] = [us[x] EXCEPT ![c] = us[x][c] - 1]
  PROVE  Moves(s, us, c) \in Seq(Steps) /\ InTurn(Moves(s, us, c), s, us, to)
<1>1. PICK n \in Nat : n = Len(us) /\ DOMAIN us = 1 .. n
  OBVIOUS
<1>2. PICK d : d = Moves(s, us, c)
  OBVIOUS
<1>3. \A x \in 1 .. n : us[x] \in X /\ us[x] \in Pos /\ ValueAt(s, us[x]) \in AnyValue
  BY <1>1, ValueAtIn
<1>4. DOMAIN d = 1 .. n /\ \A x \in 1 .. n : d[x] = Record(s, us[x], to)
  BY <1>1, <1>2 DEF Moves, Record
<1>5. \A x \in 1 .. n : to[us[x]] \in Pos \cup {NoUse}
  BY <1>3 DEF MovesApart
<1>6. \A x \in 1 .. n : d[x] \in Steps
  BY <1>3, <1>4, <1>5 DEF Record, Steps
<1>7. d = [x \in 1 .. n |-> d[x]]
  BY <1>1, <1>2 DEF Moves
<1> QED BY <1>1, <1>2, <1>4, <1>6, <1>7 DEF InTurn

LEMMA InTurnConcat ==
  ASSUME NEW s, NEW to, NEW X, NEW us \in Seq(X), NEW e, NEW d \in Seq(Steps), NEW f \in Seq(Steps),
         InTurn(d, s, us, to), InTurn(f, s, <<e>>, to)
  PROVE  d \o f \in Seq(Steps) /\ InTurn(d \o f, s, Append(us, e), to)
<1>1. PICK n \in Nat : n = Len(us) /\ DOMAIN us = 1 .. n /\ Len(d) = n
  <2>1. PICK m \in Nat : m = Len(us) /\ DOMAIN us = 1 .. m /\ DOMAIN d = 1 .. m
    BY DEF InTurn
  <2>2. PICK l \in Nat : l = Len(d) /\ DOMAIN d = 1 .. l
    OBVIOUS
  <2>3. 1 .. l = 1 .. m
    BY <2>1, <2>2
  <2>4. \A x, y \in Nat : 1 .. x = 1 .. y => x <= y
    <3> SUFFICES ASSUME NEW x \in Nat, NEW y \in Nat, 1 .. x = 1 .. y, ~(x <= y) PROVE FALSE
      OBVIOUS
    <3>1. x \in 1 .. x
      OBVIOUS
    <3>2. x \in 1 .. y
      BY <3>1
    <3> QED BY <3>2
  <2>5. l <= m /\ m <= l
    BY <2>3, <2>4
  <2> QED BY <2>1, <2>2, <2>5
<1>2. DOMAIN f = {1} /\ f[1] = Record(s, e, to) /\ Len(f) = 1
  <2>1. DOMAIN <<e>> = {1} /\ <<e>>[1] = e
    OBVIOUS
  <2>2. DOMAIN f = {1} /\ f[1] = Record(s, e, to)
    BY <2>1 DEF InTurn
  <2>3. PICK l \in Nat : l = Len(f) /\ DOMAIN f = 1 .. l
    OBVIOUS
  <2>4. l = 1
    <3>1. 1 \in 1 .. l
      BY <2>2, <2>3
    <3>2. l \in 1 .. l
      BY <3>1
    <3>3. l \in {1}
      BY <3>2, <2>2, <2>3
    <3> QED BY <3>3
  <2> QED BY <2>2, <2>3, <2>4
<1>3. PICK g : g = d \o f
  OBVIOUS
<1>4. PICK r : r = Append(us, e)
  OBVIOUS
<1>5. /\ g \in Seq(Steps) /\ Len(g) = n + 1 /\ g[n + 1] = f[1]
      /\ \A x \in 1 .. n : g[x] = d[x]
  <2>1. Len(d) = n /\ Len(f) = 1
    BY <1>1, <1>2
  <2>2. /\ g \in Seq(Steps) /\ Len(g) = Len(d) + Len(f)
        /\ \A x \in 1 .. Len(d) + Len(f) : g[x] = IF x <= Len(d) THEN d[x] ELSE f[x - Len(d)]
    BY <1>3, ConcatProperties
  <2>3. \A x \in 1 .. n + 1 : g[x] = IF x <= n THEN d[x] ELSE f[x - n]
    BY <2>1, <2>2
  <2>4. n + 1 - n = 1 /\ n + 1 \in 1 .. n + 1 /\ \A x \in 1 .. n : x \in 1 .. n + 1 /\ x <= n
    OBVIOUS
  <2> QED BY <2>1, <2>2, <2>3, <2>4
<1>6. DOMAIN r = 1 .. n + 1 /\ r[n + 1] = e /\ \A x \in 1 .. n : r[x] = us[x]
  BY <1>1, <1>4
<1>7. \A x \in 1 .. n + 1 : x \in 1 .. n \/ x = n + 1
  OBVIOUS
<1>8. \A x \in 1 .. n : d[x] = Record(s, us[x], to)
  BY <1>1 DEF InTurn
<1>9. \A x \in 1 .. n + 1 : g[x] = Record(s, r[x], to)
  BY <1>2, <1>5, <1>6, <1>7, <1>8
<1>10. DOMAIN g = 1 .. n + 1
  BY <1>5
<1> QED BY <1>3, <1>4, <1>5, <1>6, <1>9, <1>10 DEF InTurn

-----------------------------------------------------------------------------
(* Clearing operands *)

\* The operands X of s are gone in t.
Gone(s, t, X) == Elsewhere(s, t, X) /\ \A u \in X : u \notin Operands(t)

LEMMA GoneMatches ==
  ASSUME NEW s, Good(s), NEW b \in States, NEW t \in States, NEW X \in SUBSET Operands(s), NEW to,
         to = [x \in X |-> NoUse], Relists(s, b, Records(s, X, to)), SameLists(b, t), Gone(s, t, X)
  PROVE  Good(t) /\ Within(s, t)
<1>1. MovesApart(X, to)
  BY DEF MovesApart
<1>2. \A u \in Operands(s) : u \in Pos
  BY OperandsAre DEF Good
<1>3. \A u \in Operands(t) : u \in Pos
  BY OperandsAre
<1>4. \A u \in Operands(s) \ X : u \in Operands(t) /\ ValueAt(t, u) = ValueAt(s, u)
  BY <1>2 DEF Gone, Elsewhere, Same
<1>5. \A u \in Operands(t) : u \in Operands(s) \ X
  BY <1>3 DEF Gone, Elsewhere, Same
<1>6. Moved(s, t, X, to)
  BY <1>4, <1>5 DEF Moved
<1> QED BY <1>1, <1>6, MovedMatches

LEMMA EmptyIs == \A N : <<>> \in Seq(N)
OBVIOUS

LEMMA NothingMoves ==
  ASSUME NEW X, NEW to, to = [x \in X |-> NoUse]
  PROVE  MovesApart(X, to) /\ \A x \in X : to[x] = NoUse
BY DEF MovesApart

LEMMA DropsRelists ==
  ASSUME NEW s, Good(s), NEW X \in SUBSET Operands(s), NEW us, Lists(us, X),
         NEW to, to = [x \in X |-> NoUse]
  PROVE  Relist(s, Drops(s, us)) \in States /\ Relists(s, Relist(s, Drops(s, us)), Records(s, X, to))
<1>1. us \in Seq(X) /\ IsInjective(us) /\ X = Range(us)
  BY DEF Lists
<1>2. MovesApart(X, to) /\ \A x \in X : to[x] = NoUse
  BY NothingMoves
<1>3. \A x \in DOMAIN us : to[us[x]] = NoUse
  BY <1>1, <1>2
<1>4. s \in States
  BY DEF Good
<1>5. PICK d : d = Drops(s, us)
  OBVIOUS
<1>6. d \in Seq(Steps) /\ InTurn(d, s, us, to)
  BY <1>1, <1>3, <1>4, <1>5, DropsInTurn
<1> QED BY <1>1, <1>2, <1>5, <1>6, RelistMoves

LEMMA ClearArgsIs ==
  ASSUME NEW s, Good(s), NEW i \in Instrs
  PROVE  /\ Good(ClearArgs(s, i)) /\ Within(s, ClearArgs(s, i))
         /\ ClearArgs(s, i).bbs = s.bbs /\ ClearArgs(s, i).args = [s.args EXCEPT ![i] = <<>>]
<1>1. s \in States
  BY DEF Good
<1>2. PICK X \in SUBSET Operands(s) : X = Args(s, i)
  BY DEF Args
<1>3. PICK us : us = ArgUses(s, i)
  OBVIOUS
<1>4. Lists(us, X)
  BY <1>1, <1>2, <1>3, ArgUsesIs
<1>5. PICK to : to = [x \in X |-> NoUse]
  OBVIOUS
<1>6. PICK b : b = Relist(s, Drops(s, us))
  OBVIOUS
<1>7. b \in States /\ Relists(s, b, Records(s, X, to))
  BY <1>4, <1>5, <1>6, DropsRelists
<1>8. PICK t : t = ClearArgs(s, i)
  OBVIOUS
<1>9. t = [b EXCEPT !.args[i] = <<>>]
  BY <1>3, <1>6, <1>8 DEF ClearArgs
<1>10. t \in States /\ SameLists(b, t) /\ ArgsSet(b, t, i, <<>>)
  <2>1. PICK q \in Seq(AnyValue) : q = <<>>
    BY EmptyIs
  <2>2. t = [b EXCEPT !.args[i] = q]
    BY <2>1, <1>9
  <2>3. t \in States /\ SameLists(b, t) /\ ArgsSet(b, t, i, q)
    BY <2>2, <1>7 DEF States, SameLists, ArgsSet
  <2> QED BY <2>1, <2>3
<1>11. ArgsSet(s, t, i, <<>>)
  BY <1>7, <1>10 DEF Relists, SameShape, ArgsSet
<1>12. t.args[i] = <<>> /\ Elsewhere(s, t, ArgPos(i))
  BY <1>1, <1>10, <1>11, ArgsSetIs
<1>13. ASSUME NEW u \in ArgPos(i) PROVE u \notin Operands(t)
  <2>1. u \in Operands(t) => u[3] \in DOMAIN <<>>
    BY <1>10, <1>12, NormIs
  <2> QED BY <2>1
<1>14. ASSUME NEW u \in Pos, u \notin X PROVE Same(s, t, u)
  <2>1. CASE u \in ArgPos(i)
    BY <2>1, <1>2, <1>13, <1>14 DEF Args, Same
  <2>2. CASE u \notin ArgPos(i)
    BY <2>2, <1>12 DEF Elsewhere
  <2> QED BY <2>1, <2>2
<1>15. Gone(s, t, X)
  BY <1>2, <1>13, <1>14 DEF Gone, Elsewhere, Args
<1>16. Good(t) /\ Within(s, t)
  BY <1>5, <1>7, <1>10, <1>15, GoneMatches
<1> QED BY <1>8, <1>11, <1>16 DEF ArgsSet

LEMMA ClearBBArgsIs ==
  ASSUME NEW s, Good(s), NEW i \in Instrs, NEW k \in DOMAIN s.bbs[i]
  PROVE  Good(ClearBBArgs(s, i, k)) /\ Within(s, ClearBBArgs(s, i, k))
<1>1. s \in States
  BY DEF Good
<1>2. PICK X \in SUBSET Operands(s) : X = BBArgs(s, i, k)
  BY DEF BBArgs
<1>3. PICK us : us = BBArgUses(s, i, k)
  OBVIOUS
<1>4. Lists(us, X)
  BY <1>1, <1>2, <1>3, BBArgUsesIs
<1>5. PICK to : to = [x \in X |-> NoUse]
  OBVIOUS
<1>6. PICK b : b = Relist(s, Drops(s, us))
  OBVIOUS
<1>7. b \in States /\ Relists(s, b, Records(s, X, to))
  BY <1>4, <1>5, <1>6, DropsRelists
<1>8. b.args = s.args /\ b.bbs = s.bbs
  BY <1>7 DEF Relists, SameShape
<1>9. PICK t : t = ClearBBArgs(s, i, k)
  OBVIOUS
<1>10. t = [b EXCEPT !.bbs[i][k].args = <<>>]
  BY <1>3, <1>6, <1>9 DEF ClearBBArgs
<1>11. t \in States /\ SameLists(b, t) /\ BBArgsSet(s, t, i, k, <<>>)
  <2>1. s.bbs[i] \in Seq(Target) /\ s.bbs[i][k] \in Target
    BY <1>1, ShapeFacts
  <2>2. PICK e : e = [s.bbs[i][k] EXCEPT !.args = <<>>]
    OBVIOUS
  <2>3. e \in Target
    BY <2>1, <2>2, EmptyIs DEF Target
  <2>4. PICK p : p = [s.bbs[i] EXCEPT ![k] = e]
    OBVIOUS
  <2>5. p \in Seq(Target)
    BY <2>1, <2>3, <2>4, ExceptIn
  <2>6. t = [b EXCEPT !.bbs[i] = p]
    BY <1>7, <1>8, <1>10, <2>2, <2>4
  <2>7. t \in States /\ SameLists(b, t)
    BY <1>7, <2>5, <2>6 DEF States, SameLists
  <2>8. t.args = s.args /\ t.bbs = [s.bbs EXCEPT ![i] = p]
    BY <1>7, <1>8, <2>6 DEF States
  <2> QED BY <2>2, <2>4, <2>7, <2>8 DEF BBArgsSet
<1>12. /\ DOMAIN t.bbs[i] = DOMAIN s.bbs[i] /\ t.bbs[i][k].args = <<>>
       /\ Elsewhere(s, t, BBArgPos(i, k))
  BY <1>1, <1>11, BBArgsSetIs
<1>13. ASSUME NEW u \in BBArgPos(i, k) PROVE u \notin Operands(t)
  <2>1. u \in BranchPos(i) /\ u[2] = "BBArg" /\ u[3] = k
    BY DEF BBArgPos, BranchPos
  <2>2. u \in Operands(t) => u[4] \in DOMAIN <<>>
    BY <2>1, <1>11, <1>12, BranchIs
  <2> QED BY <2>2
<1>14. ASSUME NEW u \in Pos, u \notin X PROVE Same(s, t, u)
  <2>1. CASE u \in BBArgPos(i, k)
    BY <2>1, <1>2, <1>13, <1>14 DEF BBArgs, Same
  <2>2. CASE u \notin BBArgPos(i, k)
    BY <2>2, <1>12 DEF Elsewhere
  <2> QED BY <2>1, <2>2
<1>15. Gone(s, t, X)
  BY <1>2, <1>13, <1>14 DEF Gone, Elsewhere, BBArgs
<1>16. Good(t) /\ Within(s, t)
  BY <1>5, <1>7, <1>11, <1>15, GoneMatches
<1> QED BY <1>9, <1>16

LEMMA ClearBBsIs ==
  ASSUME NEW s, Good(s), NEW i \in Instrs
  PROVE  /\ Good(ClearBBs(s, i)) /\ Within(s, ClearBBs(s, i))
         /\ ClearBBs(s, i).args = s.args /\ ClearBBs(s, i).bbs = [s.bbs EXCEPT ![i] = <<>>]
<1>1. s \in States
  BY DEF Good
<1>2. PICK X \in SUBSET Operands(s) : X = Operands(s) \cap BranchPos(i)
  OBVIOUS
<1>3. PICK n \in Nat : DOMAIN s.bbs[i] = 1 .. n
  <2>1. s.bbs[i] \in Seq(Target)
    BY <1>1, ShapeFacts
  <2> QED BY <2>1
<1>4. PICK us : us = [k \in 1 .. n |-> Append(BBArgUses(s, i, k), BB(i, k))]
  OBVIOUS
<1>5. ASSUME NEW k \in 1 .. n
      PROVE  Lists(us[k], Branch(s, i, k)) /\ Branch(s, i, k) \in SUBSET X
  <2>1. us[k] = Append(BBArgUses(s, i, k), BB(i, k))
    BY <1>4
  <2> QED BY <2>1, <1>1, <1>2, <1>3, TargetUsesIs DEF Branch
<1>6. PICK to : to = [x \in X |-> NoUse]
  OBVIOUS
<1>7. MovesApart(X, to) /\ \A x \in X : to[x] = NoUse
  BY <1>6, NothingMoves
<1>8. us \in [1 .. n -> Seq(X)]
  <2>1. \A k \in 1 .. n : us[k] \in Seq(X)
    BY <1>5 DEF Lists
  <2> QED BY <2>1, <1>4
<1>9. \A k \in 1 .. n : IsInjective(us[k]) /\ Range(us[k]) = Branch(s, i, k)
  BY <1>5 DEF Lists
<1>10. \A k, l \in 1 .. n : k # l => Range(us[k]) \cap Range(us[l]) = {}
  BY <1>9 DEF Branch
<1>11. X = UNION {Range(us[k]) : k \in 1 .. n}
  <2>1. ASSUME NEW u \in X PROVE \E k \in 1 .. n : u \in Branch(s, i, k)
    <3>1. u \in BranchPos(i) /\ u \in Operands(s)
      BY <1>2
    <3>2. u[3] \in 1 .. n
      BY <3>1, <1>1, <1>3, BranchIs
    <3> QED BY <3>1, <3>2 DEF Branch
  <2> QED BY <2>1, <1>5, <1>9
<1>12. PICK parts : parts = [k \in 1 .. n |-> Drops(s, us[k])]
  OBVIOUS
<1>13. ASSUME NEW k \in 1 .. n
       PROVE  parts[k] \in Seq(Steps) /\ InTurn(parts[k], s, us[k], to)
  <2>1. us[k] \in Seq(X)
    BY <1>8
  <2>2. \A x \in DOMAIN us[k] : to[us[k][x]] = NoUse
    BY <2>1, <1>7
  <2>3. X \in SUBSET Operands(s)
    OBVIOUS
  <2> QED BY <2>1, <2>2, <2>3, <1>1, <1>12, DropsInTurn
<1>14. parts \in Seq(Seq(Steps)) /\ Len(parts) = n
  BY <1>12, <1>13
<1>15. PICK b : b = RelistEach(s, parts)
  OBVIOUS
<1>16. b \in States /\ Relists(s, b, Records(s, X, to))
  BY <1>7, <1>8, <1>9, <1>10, <1>11, <1>13, <1>14, <1>15, RelistEachMoves
<1>17. b.args = s.args /\ b.bbs = s.bbs
  BY <1>16 DEF Relists, SameShape
<1>18. PICK t : t = ClearBBs(s, i)
  OBVIOUS
<1>19. t = [b EXCEPT !.bbs[i] = <<>>]
  <2>1. parts = [k \in DOMAIN s.bbs[i] |-> Drops(s, Append(BBArgUses(s, i, k), BB(i, k)))]
    BY <1>3, <1>4, <1>12
  <2> QED BY <2>1, <1>15, <1>18 DEF ClearBBs
<1>20. t \in States /\ SameLists(b, t) /\ BBsSet(s, t, i, <<>>)
  <2>1. PICK q \in Seq(Target) : q = <<>>
    BY EmptyIs
  <2>2. t = [b EXCEPT !.bbs[i] = q]
    BY <2>1, <1>19
  <2>3. t \in States /\ SameLists(b, t) /\ BBsSet(s, t, i, q)
    BY <2>2, <1>16, <1>17 DEF States, SameLists, BBsSet
  <2> QED BY <2>1, <2>3
<1>21. t.bbs[i] = <<>> /\ Elsewhere(s, t, BranchPos(i))
  BY <1>1, <1>20, BBsSetIs
<1>22. ASSUME NEW u \in BranchPos(i) PROVE u \notin Operands(t)
  <2>1. u \in Operands(t) => u[3] \in DOMAIN <<>>
    BY <1>20, <1>21, BranchIs
  <2> QED BY <2>1
<1>23. ASSUME NEW u \in Pos, u \notin X PROVE Same(s, t, u)
  <2>1. CASE u \in BranchPos(i)
    BY <2>1, <1>2, <1>22, <1>23 DEF Same
  <2>2. CASE u \notin BranchPos(i)
    BY <2>2, <1>21 DEF Elsewhere
  <2> QED BY <2>1, <2>2
<1>24. Gone(s, t, X)
  BY <1>2, <1>22, <1>23 DEF Gone, Elsewhere
<1>25. Good(t) /\ Within(s, t)
  BY <1>6, <1>16, <1>20, <1>24, GoneMatches
<1> QED BY <1>18, <1>20, <1>25 DEF BBsSet

\* An instruction whose operands were cleared has none.
LEMMA CleanedIs ==
  ASSUME NEW s, Good(s), NEW i \in Instrs, NEW r, r = ClearBBs(ClearArgs(s, i), i)
  PROVE  Good(r) /\ Within(s, r) /\ i \notin Owners(r)
<1>1. PICK t : t = ClearArgs(s, i)
  OBVIOUS
<1>2. Good(t) /\ Within(s, t) /\ t.args = [s.args EXCEPT ![i] = <<>>]
  BY <1>1, ClearArgsIs
<1>3. r = ClearBBs(t, i)
  BY <1>1
<1>4. Good(r) /\ Within(t, r) /\ r.args = t.args /\ r.bbs = [t.bbs EXCEPT ![i] = <<>>]
  BY <1>2, <1>3, ClearBBsIs
<1>5. s \in States /\ t \in States /\ r \in States
  BY <1>2, <1>4 DEF Good
<1>6. r.args[i] = <<>> /\ r.bbs[i] = <<>>
  BY <1>2, <1>4, <1>5 DEF States
<1>7. ASSUME NEW u \in Operands(r), u[1] = i PROVE FALSE
  <2>1. Has(r, u)
    BY <1>5, OperandsAre
  <2> QED BY <2>1, <1>6, <1>7 DEF Has
<1> QED BY <1>2, <1>4, <1>7 DEF Within, Owners

-----------------------------------------------------------------------------
(* Taking an operand out of a row, those behind it move up *)

At(u, c, m) == [u EXCEPT ![c] = m]
Up(u, c)    == At(u, c, u[c] + 1)
Down(u, c)  == At(u, c, u[c] - 1)

\* Z is a row: its positions differ in coordinate c.
IsRow(Z, c) ==
  /\ Z \subseteq Pos /\ c \in {3, 4}
  /\ \A u \in Z, m \in Nat : At(u, c, m) \in Z

Behind(s, Z, c, k) == {u \in Operands(s) : u \in Z /\ u[c] >= k}
Slide(X, c, k) == [x \in X |-> IF x[c] = k THEN NoUse ELSE Down(x, c)]

\* In t the operands of row Z from k on are those behind in s.
Shifted(s, t, Z, c, k) ==
  /\ Elsewhere(s, t, Z)
  /\ \A u \in Z : u[c] < k => Same(s, t, u)
  /\ \A u \in Z : u[c] >= k =>
       /\ u \in Operands(t) <=> Up(u, c) \in Operands(s)
       /\ u \in Operands(t) => ValueAt(t, u) = ValueAt(s, Up(u, c))

LEMMA AtIs ==
  ASSUME NEW u \in Pos, NEW m \in Nat
  PROVE  /\ At(u, 3, m) \in Pos /\ At(u, 3, m) = <<u[1], u[2], m, u[4]>>
         /\ At(u, 4, m) \in Pos /\ At(u, 4, m) = <<u[1], u[2], u[3], m>>
<1>1. u \in Instrs \X {"NormalArg", "BB", "BBArg"} \X Nat \X Nat
  BY DEF Pos
<1>2. PICK i \in Instrs, kind \in {"NormalArg", "BB", "BBArg"}, k \in Nat, a \in Nat :
        u = <<i, kind, k, a>>
  BY <1>1
<1>3. u[1] = i /\ u[2] = kind /\ u[3] = k /\ u[4] = a
  BY <1>2
<1>4. At(u, 3, m) = <<i, kind, m, a>>
  BY <1>2 DEF At
<1>5. At(u, 4, m) = <<i, kind, k, m>>
  BY <1>2 DEF At
<1>6. <<i, kind, m, a>> \in Pos /\ <<i, kind, k, m>> \in Pos
  BY DEF Pos
<1> QED BY <1>3, <1>4, <1>5, <1>6

LEMMA RowsAre ==
  ASSUME NEW i \in Instrs, NEW k
  PROVE  IsRow(ArgPos(i), 3) /\ IsRow(BranchPos(i), 3) /\ IsRow(BBArgPos(i, k), 4)
<1>1. ASSUME NEW u \in Pos, NEW m \in Nat
      PROVE  /\ At(u, 3, m) \in Pos /\ At(u, 3, m)[1] = u[1] /\ At(u, 3, m)[2] = u[2]
             /\ At(u, 4, m) \in Pos /\ At(u, 4, m)[1] = u[1] /\ At(u, 4, m)[2] = u[2]
             /\ At(u, 4, m)[3] = u[3]
  BY AtIs
<1>2. IsRow(ArgPos(i), 3)
  BY <1>1 DEF IsRow, ArgPos
<1>3. IsRow(BranchPos(i), 3)
  BY <1>1 DEF IsRow, BranchPos
<1>4. IsRow(BBArgPos(i, k), 4)
  BY <1>1 DEF IsRow, BBArgPos
<1> QED BY <1>2, <1>3, <1>4

LEMMA UpAndDown ==
  ASSUME NEW Z, NEW c, IsRow(Z, c), NEW u \in Z
  PROVE  /\ u \in Pos /\ u[c] \in Nat
         /\ Up(u, c) \in Z /\ Up(u, c)[c] = u[c] + 1 /\ Up(u, c)[1] = u[1] /\ Down(Up(u, c), c) = u
         /\ u[c] > 0 => /\ Down(u, c) \in Z /\ Down(u, c)[c] = u[c] - 1 /\ Down(u, c)[1] = u[1]
                        /\ Up(Down(u, c), c) = u
<1>1. u \in Pos /\ c \in {3, 4} /\ \A m \in Nat : At(u, c, m) \in Z /\ At(u, c, m) \in Pos
  BY DEF IsRow
<1>2. u[c] \in Nat
  BY <1>1, PosParts
<1>3. ASSUME NEW m \in Nat
      PROVE  At(u, c, m)[c] = m /\ At(u, c, m)[1] = u[1] /\ At(At(u, c, m), c, u[c]) = u
  <2>1. PICK v \in Pos : v = At(u, c, m)
    BY <1>1
  <2>2. CASE c = 3
    <3>1. v = <<u[1], u[2], m, u[4]>>
      BY <2>1, <2>2, <1>1, AtIs
    <3>2. At(v, 3, u[3]) = <<v[1], v[2], u[3], v[4]>>
      BY <2>2, <1>2, AtIs
    <3> QED BY <2>1, <2>2, <3>1, <3>2, <1>1, PosParts
  <2>3. CASE c = 4
    <3>1. v = <<u[1], u[2], u[3], m>>
      BY <2>1, <2>3, <1>1, AtIs
    <3>2. At(v, 4, u[4]) = <<v[1], v[2], v[3], u[4]>>
      BY <2>3, <1>2, AtIs
    <3> QED BY <2>1, <2>3, <3>1, <3>2, <1>1, PosParts
  <2> QED BY <2>2, <2>3, <1>1
<1>4. /\ Up(u, c) \in Z /\ Up(u, c)[c] = u[c] + 1 /\ Up(u, c)[1] = u[1] /\ Down(Up(u, c), c) = u
  <2>1. PICK m \in Nat : m = u[c] + 1 /\ m - 1 = u[c]
    BY <1>2
  <2>2. Up(u, c) = At(u, c, m)
    BY <2>1 DEF Up
  <2>3. Down(At(u, c, m), c) = At(At(u, c, m), c, u[c])
    BY <2>1, <1>3 DEF Down
  <2> QED BY <2>1, <2>2, <2>3, <1>1, <1>3
<1>5. ASSUME u[c] > 0
      PROVE  /\ Down(u, c) \in Z /\ Down(u, c)[c] = u[c] - 1 /\ Down(u, c)[1] = u[1]
             /\ Up(Down(u, c), c) = u
  <2>1. PICK m \in Nat : m = u[c] - 1 /\ m + 1 = u[c]
    BY <1>2, <1>5
  <2>2. Down(u, c) = At(u, c, m)
    BY <2>1 DEF Down
  <2>3. Up(At(u, c, m), c) = At(At(u, c, m), c, u[c])
    BY <2>1, <1>3 DEF Up
  <2> QED BY <2>1, <2>2, <2>3, <1>1, <1>3
<1> QED BY <1>1, <1>2, <1>4, <1>5

LEMMA SlideIs ==
  ASSUME NEW s \in States, NEW Z, NEW c, IsRow(Z, c), NEW k \in Nat,
         NEW X, X = Behind(s, Z, c, k), NEW to, to = Slide(X, c, k)
  PROVE  /\ MovesApart(X, to)
         /\ \A x \in X : /\ x[c] = k => to[x] = NoUse
                         /\ x[c] # k => x[c] > k /\ x[c] > 0 /\ to[x] = Down(x, c) /\ to[x] # NoUse
<1>1. \A x \in X : x \in Z /\ x[c] \in Nat /\ x[c] >= k
  BY UpAndDown DEF Behind
<1>2. ASSUME NEW x \in X
      PROVE  /\ x[c] = k => to[x] = NoUse
             /\ x[c] # k => /\ x[c] > k /\ x[c] > 0 /\ to[x] = Down(x, c)
                            /\ to[x] \in Pos /\ to[x] # NoUse
                            /\ Up(to[x], c) = x
  <2>1. to[x] = IF x[c] = k THEN NoUse ELSE Down(x, c)
    BY DEF Slide
  <2>2. x[c] # k => x[c] > k /\ x[c] > 0
    BY <1>1
  <2>3. x[c] > 0 => Down(x, c) \in Z /\ Up(Down(x, c), c) = x
    BY <1>1, UpAndDown
  <2>4. \A u \in Z : u \in Pos /\ u # NoUse
    BY NoUseIsNone DEF IsRow
  <2> QED BY <2>1, <2>2, <2>3, <2>4
<1>3. to \in [X -> Pos \cup {NoUse}]
  <2>1. to = [x \in X |-> to[x]]
    BY DEF Slide
  <2> QED BY <2>1, <1>2
<1>4. ASSUME NEW x \in X, NEW y \in X, x # y, to[x] # NoUse PROVE to[x] # to[y]
  BY <1>2, <1>4
<1> QED BY <1>2, <1>3, <1>4 DEF MovesApart

LEMMA SlideMatches ==
  ASSUME NEW s, Good(s), NEW Z, NEW c, IsRow(Z, c), NEW k \in Nat,
         NEW X, X = Behind(s, Z, c, k), NEW to, to = Slide(X, c, k),
         NEW b \in States, NEW t \in States, Relists(s, b, Records(s, X, to)), SameLists(b, t),
         Shifted(s, t, Z, c, k)
  PROVE  Good(t) /\ Within(s, t)
<1>1. s \in States
  BY DEF Good
<1>2. /\ MovesApart(X, to)
      /\ \A x \in X : /\ x[c] = k => to[x] = NoUse
                      /\ x[c] # k => x[c] > k /\ x[c] > 0 /\ to[x] = Down(x, c) /\ to[x] # NoUse
  BY <1>1, SlideIs
<1>3. \A x \in X : x \in Operands(s) /\ x \in Z /\ x[c] \in Nat /\ x[c] >= k
  BY UpAndDown DEF Behind
<1>4. ASSUME NEW x \in X, to[x] # NoUse
      PROVE  /\ to[x] \in Operands(t) /\ ValueAt(t, to[x]) = ValueAt(s, x)
             /\ to[x] \in Operands(s) => to[x] \in X
             /\ to[x][1] = x[1]
  <2>1. PICK y : y = Down(x, c)
    OBVIOUS
  <2>2. to[x] = y /\ x[c] > k /\ x[c] > 0
    BY <2>1, <1>2, <1>4
  <2>3. y \in Z /\ y[c] = x[c] - 1 /\ y[1] = x[1] /\ Up(y, c) = x
    BY <2>1, <2>2, <1>3, UpAndDown
  <2>4. y[c] >= k
    BY <2>2, <2>3, <1>3
  <2>5. y \in Operands(t) /\ ValueAt(t, y) = ValueAt(s, x)
    BY <2>3, <2>4, <1>3 DEF Shifted
  <2> QED BY <2>2, <2>3, <2>4, <2>5 DEF Behind
<1>5. ASSUME NEW u \in Operands(s) \ X PROVE u \in Operands(t) /\ ValueAt(t, u) = ValueAt(s, u)
  <2>1. u \in Pos
    BY <1>1, OperandsAre
  <2>2. CASE u \in Z
    <3>1. u[c] \in Nat /\ ~(u[c] >= k)
      BY <2>2, UpAndDown DEF Behind
    <3> QED BY <3>1, <2>2 DEF Shifted, Same
  <2>3. CASE u \notin Z
    BY <2>1, <2>3 DEF Shifted, Elsewhere, Same
  <2> QED BY <2>2, <2>3
<1>6. ASSUME NEW u \in Operands(t) PROVE u \in Operands(s) \ X \/ \E x \in X : to[x] = u
  <2>1. u \in Pos
    BY OperandsAre
  <2>2. CASE u \notin Z
    BY <2>1, <2>2, <1>3 DEF Shifted, Elsewhere, Same
  <2>3. CASE u \in Z /\ u[c] < k
    BY <2>3, <1>3 DEF Shifted, Same
  <2>4. CASE u \in Z /\ u[c] >= k
    <3>1. PICK x : x = Up(u, c)
      OBVIOUS
    <3>2. x \in Z /\ x[c] = u[c] + 1 /\ Down(x, c) = u /\ u[c] \in Nat
      BY <2>4, <3>1, UpAndDown
    <3>3. x \in Operands(s)
      BY <2>4, <3>1 DEF Shifted
    <3>4. x \in X /\ x[c] # k
      BY <2>4, <3>2, <3>3 DEF Behind
    <3> QED BY <3>2, <3>4, <1>2
  <2>5. u \in Z => u[c] \in Nat
    BY UpAndDown
  <2> QED BY <2>2, <2>3, <2>4, <2>5
<1>7. Moved(s, t, X, to)
  BY <1>3, <1>4, <1>5, <1>6 DEF Moved
<1> QED BY <1>2, <1>7, MovedMatches

LEMMA SlideRelists ==
  ASSUME NEW s, Good(s), NEW Z, NEW c, IsRow(Z, c), NEW k \in Nat,
         NEW X, X = Behind(s, Z, c, k), NEW to, to = Slide(X, c, k),
         NEW e \in X, \A x \in X : x[c] = k <=> x = e,
         NEW behind, Lists(behind, X \ {e})
  PROVE  LET r == Relist(s, Moves(s, behind, c) \o Drops(s, <<e>>))
         IN r \in States /\ Relists(s, r, Records(s, X, to))
<1>1. s \in States /\ X \in SUBSET Operands(s)
  BY DEF Good, Behind
<1>2. MovesApart(X, to) /\ to[e] = NoUse /\ \A x \in X \ {e} : to[x] = Down(x, c)
  BY <1>1, SlideIs
<1>3. PICK us : us = Append(behind, e)
  OBVIOUS
<1>4. Lists(us, X)
  <2>1. PICK W : W = X \ {e}
    OBVIOUS
  <2>2. Lists(behind, W) /\ e \notin W /\ X = W \cup {e}
    BY <2>1
  <2> QED BY <2>2, <1>3, ListsAppend
<1>5. behind \in Seq(X) /\ \A x \in DOMAIN behind : behind[x] \in X \ {e}
  BY DEF Lists
<1>6. PICK d : d = Moves(s, behind, c)
  OBVIOUS
<1>7. d \in Seq(Steps) /\ InTurn(d, s, behind, to)
  <2>1. \A x \in DOMAIN behind : to[behind[x]] = [behind[x] EXCEPT ![c] = behind[x][c] - 1]
    BY <1>2, <1>5 DEF Down, At
  <2> QED BY <2>1, <1>1, <1>2, <1>5, <1>6, MovesInTurn
<1>8. PICK f : f = Drops(s, <<e>>)
  OBVIOUS
<1>9. f \in Seq(Steps) /\ InTurn(f, s, <<e>>, to)
  <2>1. PICK one \in Seq(X) : one = <<e>>
    <3>1. <<e>> \in Seq(X)
      OBVIOUS
    <3> QED BY <3>1
  <2>2. \A x \in DOMAIN one : one[x] = e
    BY <2>1
  <2>3. \A x \in DOMAIN one : to[one[x]] = NoUse
    BY <2>2, <1>2
  <2>4. Drops(s, one) \in Seq(Steps) /\ InTurn(Drops(s, one), s, one, to)
    BY <2>3, <1>1, DropsInTurn
  <2> QED BY <2>1, <2>4, <1>8
<1>10. PICK g : g = d \o f
  OBVIOUS
<1>11. g \in Seq(Steps) /\ InTurn(g, s, us, to)
  BY <1>3, <1>5, <1>7, <1>9, <1>10, InTurnConcat
<1>12. us \in Seq(X) /\ IsInjective(us) /\ X = Range(us)
  BY <1>4 DEF Lists
<1>13. Relist(s, g) \in States /\ Relists(s, Relist(s, g), Records(s, X, to))
  BY <1>1, <1>2, <1>11, <1>12, RelistMoves
<1> QED BY <1>6, <1>8, <1>10, <1>13

\* The same, for a sequence e, behind of the positions from k on in the row Z.
SlideStart(s, Z, c, k, e, behind) ==
  LET X == Behind(s, Z, c, k)
  IN IsRow(Z, c) /\ e \in X /\ (\A x \in X : x[c] = k <=> x = e) /\ Lists(behind, X \ {e})
SlideSteps(s, r, c, e, behind) == r = Relist(s, Moves(s, behind, c) \o Drops(s, <<e>>))
SlideDone(s, r, X, to) == r \in States /\ Relists(s, r, Records(s, X, to))

LEMMA SlideRelisted ==
  ASSUME NEW s, Good(s), NEW Z, NEW c, NEW k \in Nat, NEW e, NEW behind,
         SlideStart(s, Z, c, k, e, behind), NEW r, SlideSteps(s, r, c, e, behind)
  PROVE  SlideDone(s, r, Behind(s, Z, c, k), Slide(Behind(s, Z, c, k), c, k))
<1>1. PICK X : X = Behind(s, Z, c, k)
  OBVIOUS
<1>2. /\ IsRow(Z, c) /\ e \in X /\ (\A x \in X : x[c] = k <=> x = e)
      /\ Lists(behind, X \ {e})
  BY <1>1 DEF SlideStart
<1>3. PICK to : to = Slide(X, c, k)
  OBVIOUS
<1>4. PICK z : z = Relist(s, Moves(s, behind, c) \o Drops(s, <<e>>))
  OBVIOUS
<1>5. SlideDone(s, z, X, to)
  BY <1>1, <1>2, <1>3, <1>4, SlideRelists DEF SlideDone
<1>6. z = r
  BY <1>4, Zenon DEF SlideSteps
<1> QED BY <1>1, <1>3, <1>5, <1>6, Zenon

\* A sequence of the positions f[k + 1], f[k + 2], ..., f[n].
LEMMA BehindLists ==
  ASSUME NEW n \in Nat, NEW k \in 1 .. n, NEW f, NEW X,
         \A l \in k .. n : f[l] \in X,
         \A l, m \in k .. n : f[l] = f[m] => l = m,
         \A x \in X : \E l \in k .. n : f[l] = x,
         NEW us, us = [j \in 1 .. n - k |-> f[k + j]]
  PROVE  f[k] \in X /\ Lists(us, X \ {f[k]})
<1>1. k \in k .. n /\ f[k] \in X
  OBVIOUS
<1>2. ASSUME NEW j \in 1 .. n - k PROVE k + j \in k .. n /\ k + j # k /\ us[j] = f[k + j]
  OBVIOUS
<1>3. ASSUME NEW l \in k .. n, l # k PROVE l - k \in 1 .. n - k /\ k + (l - k) = l
  <2>1. l \in Nat /\ k \in Nat /\ l >= k /\ l <= n
    OBVIOUS
  <2>2. l - k \in Nat /\ 1 <= l - k /\ l - k <= n - k /\ k + (l - k) = l
    BY <2>1, <1>3
  <2> QED BY <2>2
<1>4. PICK W : W = X \ {f[k]}
  OBVIOUS
<1>5. \A j \in 1 .. n - k : us[j] \in W
  BY <1>1, <1>2, <1>4
<1>6. us \in Seq(W) /\ DOMAIN us = 1 .. n - k
  BY <1>5
<1>7. ASSUME NEW i \in 1 .. n - k, NEW j \in 1 .. n - k, us[i] = us[j] PROVE i = j
  <2>1. k + i = k + j
    BY <1>2, <1>7
  <2> QED BY <2>1
<1>8. ASSUME NEW w \in W PROVE \E j \in 1 .. n - k : us[j] = w
  <2>1. PICK l \in k .. n : f[l] = w
    BY <1>4
  <2>2. l # k
    BY <2>1, <1>4
  <2>3. l - k \in 1 .. n - k /\ k + (l - k) = l
    BY <2>2, <1>3
  <2> QED BY <2>1, <2>3, <1>2
<1>9. IsInjective(us)
  BY <1>6, <1>7 DEF IsInjective
<1>10. Range(us) \subseteq W
  BY <1>5, <1>6 DEF Range
<1>11. W \subseteq Range(us)
  <2>1. PICK D : D = 1 .. n - k
    OBVIOUS
  <2>2. DOMAIN us = D /\ \A w \in W : \E j \in D : us[j] = w
    BY <2>1, <1>6, <1>8
  <2> QED BY <2>2 DEF Range
<1> QED BY <1>1, <1>4, <1>6, <1>9, <1>10, <1>11 DEF Lists

LEMMA RemoveArgIs ==
  ASSUME NEW s, Good(s), NEW i \in Instrs, NEW k \in DOMAIN s.args[i],
         NEW behind, behind = [j \in 1 .. Len(s.args[i]) - k |-> Norm(i, k + j)],
         NEW r, r = Relist(s, Moves(s, behind, 3) \o Drops(s, <<Norm(i, k)>>))
  PROVE  LET t == [r EXCEPT !.args[i] = RemoveAt(@, k)]
         IN Good(t) /\ Within(s, t)
<1>1. s \in States
  BY DEF Good
<1>2. PICK q \in Seq(AnyValue) : q = s.args[i]
  BY <1>1, ShapeFacts
<1>3. PICK n \in Nat : n = Len(q) /\ DOMAIN q = 1 .. n
  OBVIOUS
<1>4. k \in 1 .. n /\ k \in Nat
  BY <1>2, <1>3
<1>5. PICK Z : Z = ArgPos(i)
  OBVIOUS
<1>6. IsRow(Z, 3)
  BY <1>5, RowsAre
<1>7. PICK X : X = Behind(s, Z, 3, k)
  OBVIOUS
<1>8. PICK to : to = Slide(X, 3, k)
  OBVIOUS
<1>9. PICK f : f = [l \in k .. n |-> Norm(i, l)]
  OBVIOUS
<1>10. ASSUME NEW l \in k .. n PROVE f[l] \in X /\ f[l][3] = l /\ f[l] = Norm(i, l)
  <2>1. l \in Nat /\ l \in 1 .. n /\ l >= k
    BY <1>4
  <2> QED BY <2>1, <1>1, <1>2, <1>3, <1>5, <1>7, <1>9, NormHere DEF Behind
<1>11. ASSUME NEW x \in X PROVE x[3] \in k .. n /\ f[x[3]] = x
  <2>1. x \in Operands(s) /\ x \in ArgPos(i) /\ x[3] >= k
    BY <1>5, <1>7 DEF Behind
  <2>2. x[3] \in 1 .. n /\ x = Norm(i, x[3])
    BY <2>1, <1>1, <1>2, <1>3, NormIs
  <2> QED BY <2>1, <2>2, <1>4, <1>9
<1>12. PICK e : e = f[k]
  OBVIOUS
<1>13. e = Norm(i, k) /\ e[3] = k
  BY <1>4, <1>10, <1>12
<1>14. behind = [j \in 1 .. n - k |-> f[k + j]]
  <2>1. \A j \in 1 .. n - k : f[k + j] = Norm(i, k + j)
    BY <1>4, <1>9
  <2> QED BY <2>1, <1>2, <1>3
<1>15. e \in X /\ Lists(behind, X \ {e})
  <2>1. \A l, m \in k .. n : f[l] = f[m] => l = m
    BY <1>10
  <2>2. \A x \in X : \E l \in k .. n : f[l] = x
    BY <1>11
  <2> QED BY <2>1, <2>2, <1>4, <1>10, <1>12, <1>14, BehindLists
<1>16. \A x \in X : x[3] = k <=> x = e
  BY <1>11, <1>12, <1>13
<1>17. r \in States /\ Relists(s, r, Records(s, X, to))
  <2>1. SlideStart(s, Z, 3, k, e, behind)
    BY <1>6, <1>7, <1>15, <1>16 DEF SlideStart
  <2>2. SlideSteps(s, r, 3, e, behind)
    BY <1>13, Zenon DEF SlideSteps
  <2>3. SlideDone(s, r, Behind(s, Z, 3, k), Slide(Behind(s, Z, 3, k), 3, k))
    BY <2>1, <2>2, <1>4, SlideRelisted
  <2> QED BY <2>3, <1>7, <1>8 DEF SlideDone
<1>18. r.args = s.args /\ r.bbs = s.bbs
  BY <1>17 DEF Relists, SameShape
<1>19. PICK p : p = RemoveAt(q, k)
  OBVIOUS
<1>20. /\ p \in Seq(AnyValue) /\ DOMAIN p = 1 .. (n - 1)
       /\ \A l \in 1 .. (n - 1) : p[l] = IF l < k THEN q[l] ELSE q[l + 1]
  BY <1>3, <1>4, <1>19, RemoveAtIs
<1>21. PICK t : t = [r EXCEPT !.args[i] = RemoveAt(@, k)]
  OBVIOUS
<1>22. t = [r EXCEPT !.args[i] = p]
  BY <1>2, <1>17, <1>18, <1>19, <1>21
<1>23. t \in States /\ SameLists(r, t) /\ ArgsSet(s, t, i, p)
  BY <1>17, <1>18, <1>20, <1>22 DEF States, SameLists, ArgsSet
<1>24. t.args[i] = p /\ Elsewhere(s, t, Z)
  BY <1>1, <1>5, <1>23, ArgsSetIs
<1>25. ASSUME NEW u \in Z
       PROVE  /\ u \in Operands(s) <=> u[3] \in 1 .. n /\ u[4] = 1
              /\ u \in Operands(t) <=> u[3] \in 1 .. n - 1 /\ u[4] = 1
              /\ ValueAt(s, u) = q[u[3]] /\ ValueAt(t, u) = p[u[3]]
              /\ u[3] \in Nat
              /\ Up(u, 3) \in Operands(s) <=> u[3] + 1 \in 1 .. n /\ u[4] = 1
              /\ ValueAt(s, Up(u, 3)) = q[u[3] + 1]
  <2>1. u[3] \in Nat /\ Up(u, 3) \in Z /\ Up(u, 3)[3] = u[3] + 1 /\ u \in Pos
    BY <1>6, UpAndDown
  <2>2. Up(u, 3)[4] = u[4]
    <3>1. PICK m \in Nat : m = u[3] + 1
      BY <2>1
    <3>2. At(u, 3, m) = <<u[1], u[2], m, u[4]>>
      BY <2>1, AtIs
    <3>3. At(u, 3, m)[4] = u[4]
      BY <3>2
    <3> QED BY <3>1, <3>3 DEF Up
  <2>3. /\ u \in Operands(s) <=> u[3] \in 1 .. n /\ u[4] = 1
        /\ ValueAt(s, u) = q[u[3]]
    BY <1>1, <1>2, <1>3, <1>5, NormIs
  <2>4. /\ u \in Operands(t) <=> u[3] \in 1 .. n - 1 /\ u[4] = 1
        /\ ValueAt(t, u) = p[u[3]]
    BY <1>5, <1>20, <1>23, <1>24, NormIs
  <2>5. /\ Up(u, 3) \in Operands(s) <=> u[3] + 1 \in 1 .. n /\ u[4] = 1
        /\ ValueAt(s, Up(u, 3)) = q[u[3] + 1]
    <3>1. PICK y \in ArgPos(i) : y = Up(u, 3)
      BY <2>1, <1>5
    <3>2. y[3] = u[3] + 1 /\ y[4] = u[4]
      BY <3>1, <2>1, <2>2
    <3>3. /\ y \in Operands(s) <=> y[3] \in 1 .. n /\ y[4] = 1
          /\ ValueAt(s, y) = q[y[3]]
      BY <1>1, <1>2, <1>3, NormIs
    <3> QED BY <3>1, <3>2, <3>3
  <2> QED BY <2>1, <2>3, <2>4, <2>5
<1>26. Shifted(s, t, Z, 3, k)
  <2>1. ASSUME NEW u \in Z, u[3] < k PROVE Same(s, t, u)
    <3>1. u[3] \in 1 .. n => u[3] \in 1 .. n - 1
      BY <2>1, <1>4, <1>25
    <3> QED BY <2>1, <3>1, <1>20, <1>25 DEF Same
  <2>2. ASSUME NEW u \in Z, u[3] >= k
        PROVE  /\ u \in Operands(t) <=> Up(u, 3) \in Operands(s)
               /\ u \in Operands(t) => ValueAt(t, u) = ValueAt(s, Up(u, 3))
    <3>1. u[3] \in 1 .. n - 1 <=> u[3] + 1 \in 1 .. n
      BY <2>2, <1>4, <1>25
    <3> QED BY <2>2, <3>1, <1>20, <1>25, <1>4
  <2> QED BY <2>1, <2>2, <1>24 DEF Shifted
<1>27. Good(t) /\ Within(s, t)
  BY <1>4, <1>6, <1>7, <1>8, <1>17, <1>23, <1>26, SlideMatches
<1> QED BY <1>21, <1>27

LEMMA RemoveBBArgIs ==
  ASSUME NEW s, Good(s), NEW i \in Instrs, NEW k \in DOMAIN s.bbs[i],
         NEW a \in DOMAIN s.bbs[i][k].args,
         NEW behind, behind = [j \in 1 .. Len(s.bbs[i][k].args) - a |-> BBArg(i, k, a + j)],
         NEW r, r = Relist(s, Moves(s, behind, 4) \o Drops(s, <<BBArg(i, k, a)>>))
  PROVE  LET t == [r EXCEPT !.bbs[i][k].args = RemoveAt(@, a)]
         IN Good(t) /\ Within(s, t)
<1>1. s \in States
  BY DEF Good
<1>2. PICK q \in Seq(AnyValue) : q = s.bbs[i][k].args
  BY <1>1, ShapeFacts
<1>3. PICK n \in Nat : n = Len(q) /\ DOMAIN q = 1 .. n
  OBVIOUS
<1>4. a \in 1 .. n /\ a \in Nat /\ k \in Nat
  BY <1>1, <1>2, <1>3, ShapeFacts
<1>5. PICK Z : Z = BBArgPos(i, k)
  OBVIOUS
<1>6. IsRow(Z, 4)
  BY <1>5, RowsAre
<1>7. PICK X : X = Behind(s, Z, 4, a)
  OBVIOUS
<1>8. PICK to : to = Slide(X, 4, a)
  OBVIOUS
<1>9. PICK f : f = [l \in a .. n |-> BBArg(i, k, l)]
  OBVIOUS
<1>10. ASSUME NEW l \in a .. n PROVE f[l] \in X /\ f[l][4] = l /\ f[l] = BBArg(i, k, l)
  <2>1. l \in Nat /\ l \in 1 .. n /\ l >= a
    BY <1>4
  <2> QED BY <2>1, <1>1, <1>2, <1>3, <1>4, <1>5, <1>7, <1>9, BBArgHere DEF Behind
<1>11. ASSUME NEW t \in States, NEW p, t.bbs[i][k].args = p, k \in DOMAIN t.bbs[i], NEW u \in Z
       PROVE  /\ u \in Operands(t) <=> u[4] \in DOMAIN p
              /\ ValueAt(t, u) = p[u[4]]
              /\ u = BBArg(i, k, u[4])
  <2>1. u \in BranchPos(i) /\ u[2] = "BBArg" /\ u[3] = k
    BY <1>5 DEF BBArgPos, BranchPos
  <2> QED BY <2>1, <1>11, BranchIs
<1>12. ASSUME NEW x \in X PROVE x[4] \in a .. n /\ f[x[4]] = x
  <2>1. x \in Operands(s) /\ x \in Z /\ x[4] >= a
    BY <1>7 DEF Behind
  <2>2. x[4] \in 1 .. n /\ x = BBArg(i, k, x[4])
    BY <2>1, <1>1, <1>2, <1>3, <1>11
  <2> QED BY <2>1, <2>2, <1>4, <1>9
<1>13. PICK e : e = f[a]
  OBVIOUS
<1>14. e = BBArg(i, k, a) /\ e[4] = a
  BY <1>4, <1>10, <1>13
<1>15. behind = [j \in 1 .. n - a |-> f[a + j]]
  <2>1. \A j \in 1 .. n - a : f[a + j] = BBArg(i, k, a + j)
    BY <1>4, <1>9
  <2> QED BY <2>1, <1>2, <1>3
<1>16. e \in X /\ Lists(behind, X \ {e})
  <2>1. \A l, m \in a .. n : f[l] = f[m] => l = m
    BY <1>10
  <2>2. \A x \in X : \E l \in a .. n : f[l] = x
    BY <1>12
  <2> QED BY <2>1, <2>2, <1>4, <1>10, <1>13, <1>15, BehindLists
<1>17. \A x \in X : x[4] = a <=> x = e
  BY <1>12, <1>13, <1>14
<1>18. r \in States /\ Relists(s, r, Records(s, X, to))
  <2>1. SlideStart(s, Z, 4, a, e, behind)
    BY <1>6, <1>7, <1>16, <1>17 DEF SlideStart
  <2>2. SlideSteps(s, r, 4, e, behind)
    BY <1>14, Zenon DEF SlideSteps
  <2>3. SlideDone(s, r, Behind(s, Z, 4, a), Slide(Behind(s, Z, 4, a), 4, a))
    BY <2>1, <2>2, <1>4, SlideRelisted
  <2> QED BY <2>3, <1>7, <1>8 DEF SlideDone
<1>19. r.args = s.args /\ r.bbs = s.bbs
  BY <1>18 DEF Relists, SameShape
<1>20. PICK p : p = RemoveAt(q, a)
  OBVIOUS
<1>21. /\ p \in Seq(AnyValue) /\ DOMAIN p = 1 .. (n - 1)
       /\ \A l \in 1 .. (n - 1) : p[l] = IF l < a THEN q[l] ELSE q[l + 1]
  BY <1>3, <1>4, <1>20, RemoveAtIs
<1>22. PICK t : t = [r EXCEPT !.bbs[i][k].args = RemoveAt(@, a)]
  OBVIOUS
<1>23. t \in States /\ SameLists(r, t) /\ BBArgsSet(s, t, i, k, p)
  <2>1. s.bbs[i] \in Seq(Target) /\ s.bbs[i][k] \in Target
    BY <1>1, ShapeFacts
  <2>2. PICK y : y = [s.bbs[i][k] EXCEPT !.args = p]
    OBVIOUS
  <2>3. y \in Target
    BY <2>1, <2>2, <1>21 DEF Target
  <2>4. PICK z : z = [s.bbs[i] EXCEPT ![k] = y]
    OBVIOUS
  <2>5. z \in Seq(Target)
    BY <2>1, <2>3, <2>4, ExceptIn
  <2>6. t = [r EXCEPT !.bbs[i] = z]
    BY <1>2, <1>18, <1>19, <1>20, <1>22, <2>2, <2>4
  <2>7. t \in States /\ SameLists(r, t)
    BY <1>18, <2>5, <2>6 DEF States, SameLists
  <2>8. t.args = s.args /\ t.bbs = [s.bbs EXCEPT ![i] = z]
    BY <1>18, <1>19, <2>6 DEF States
  <2> QED BY <2>2, <2>4, <2>7, <2>8 DEF BBArgsSet
<1>24. /\ DOMAIN t.bbs[i] = DOMAIN s.bbs[i] /\ t.bbs[i][k].args = p
       /\ Elsewhere(s, t, Z)
  BY <1>1, <1>5, <1>23, BBArgsSetIs
<1>25. ASSUME NEW u \in Z
       PROVE  /\ u \in Operands(s) <=> u[4] \in 1 .. n
              /\ u \in Operands(t) <=> u[4] \in 1 .. n - 1
              /\ ValueAt(s, u) = q[u[4]] /\ ValueAt(t, u) = p[u[4]]
              /\ u[4] \in Nat
              /\ Up(u, 4) \in Operands(s) <=> u[4] + 1 \in 1 .. n
              /\ ValueAt(s, Up(u, 4)) = q[u[4] + 1]
  <2>1. u[4] \in Nat /\ Up(u, 4) \in Z /\ Up(u, 4)[4] = u[4] + 1
    BY <1>6, UpAndDown
  <2>2. /\ u \in Operands(s) <=> u[4] \in 1 .. n
        /\ ValueAt(s, u) = q[u[4]]
    BY <1>1, <1>2, <1>3, <1>11
  <2>3. /\ u \in Operands(t) <=> u[4] \in 1 .. n - 1
        /\ ValueAt(t, u) = p[u[4]]
    BY <1>21, <1>23, <1>24, <1>11
  <2>4. /\ Up(u, 4) \in Operands(s) <=> u[4] + 1 \in 1 .. n
        /\ ValueAt(s, Up(u, 4)) = q[u[4] + 1]
    BY <2>1, <1>1, <1>2, <1>3, <1>11
  <2> QED BY <2>1, <2>2, <2>3, <2>4
<1>26. Shifted(s, t, Z, 4, a)
  <2>1. ASSUME NEW u \in Z, u[4] < a PROVE Same(s, t, u)
    <3>1. u[4] \in 1 .. n => u[4] \in 1 .. n - 1
      BY <2>1, <1>4, <1>25
    <3> QED BY <2>1, <3>1, <1>21, <1>25 DEF Same
  <2>2. ASSUME NEW u \in Z, u[4] >= a
        PROVE  /\ u \in Operands(t) <=> Up(u, 4) \in Operands(s)
               /\ u \in Operands(t) => ValueAt(t, u) = ValueAt(s, Up(u, 4))
    <3>1. u[4] \in 1 .. n - 1 <=> u[4] + 1 \in 1 .. n
      BY <2>2, <1>4, <1>25
    <3> QED BY <2>2, <3>1, <1>21, <1>25, <1>4
  <2> QED BY <2>1, <2>2, <1>24 DEF Shifted
<1>27. Good(t) /\ Within(s, t)
  BY <1>4, <1>6, <1>7, <1>8, <1>18, <1>23, <1>26, SlideMatches
<1> QED BY <1>22, <1>27

LEMMA RemoveBBIs ==
  ASSUME NEW s, Good(s), NEW i \in Instrs, NEW k \in DOMAIN s.bbs[i],
         NEW behind, behind = [j \in 1 .. Len(s.bbs[i]) - k |-> Moves(s, TargetUses(s, i, k + j), 3)],
         NEW r, r = RelistEach(s, Append(behind, Drops(s, TargetUses(s, i, k))))
  PROVE  LET t == [r EXCEPT !.bbs[i] = RemoveAt(@, k)]
         IN Good(t) /\ Within(s, t)
<1>1. s \in States
  BY DEF Good
<1>2. PICK q \in Seq(Target) : q = s.bbs[i]
  BY <1>1, ShapeFacts
<1>3. PICK n \in Nat : n = Len(q) /\ DOMAIN q = 1 .. n
  OBVIOUS
<1>4. k \in 1 .. n /\ k \in Nat
  BY <1>2, <1>3
<1>5. PICK Z : Z = BranchPos(i)
  OBVIOUS
<1>6. IsRow(Z, 3)
  BY <1>5, RowsAre
<1>7. PICK X : X = Behind(s, Z, 3, k)
  OBVIOUS
<1>8. X \in SUBSET Operands(s)
  BY <1>7 DEF Behind
<1>9. PICK to : to = Slide(X, 3, k)
  OBVIOUS
<1>10. /\ MovesApart(X, to)
       /\ \A x \in X : /\ x[3] = k => to[x] = NoUse
                       /\ x[3] # k => to[x] = Down(x, 3)
  BY <1>1, <1>4, <1>6, <1>7, <1>9, SlideIs
<1>11. PICK w \in Nat : w = n - k + 1
  BY <1>4
<1>12. PICK turn : turn = [j \in 1 .. w |-> IF j = w THEN k ELSE k + j]
  OBVIOUS
<1>13. /\ turn[w] = k /\ w \in 1 .. w
       /\ \A j \in 1 .. n - k : j \in 1 .. w /\ turn[j] = k + j /\ j # w
       /\ \A j \in 1 .. w : j = w \/ j \in 1 .. n - k
       /\ \A j \in 1 .. w : turn[j] \in k .. n /\ turn[j] \in 1 .. n
       /\ \A j, l \in 1 .. w : turn[j] = turn[l] => j = l
       /\ \A l \in k .. n : \E j \in 1 .. w : turn[j] = l
  <2>1. turn[w] = k /\ w \in 1 .. w
    BY <1>4, <1>11, <1>12
  <2>2. \A j \in 1 .. n - k : j \in 1 .. w /\ turn[j] = k + j /\ j # w
    BY <1>4, <1>11, <1>12
  <2>3. \A j \in 1 .. w : j = w \/ j \in 1 .. n - k
    BY <1>4, <1>11
  <2>0. /\ k \in k .. n /\ k \in 1 .. n
        /\ \A j \in 1 .. n - k : k + j \in k .. n /\ k + j \in 1 .. n /\ k + j # k
        /\ \A j, l \in 1 .. n - k : k + j = k + l => j = l
    BY <1>4
  <2>4. \A j \in 1 .. w : turn[j] \in k .. n /\ turn[j] \in 1 .. n
    <3>1. PICK J : J = 1 .. n - k
      OBVIOUS
    <3>2. PICK W : W = 1 .. w
      OBVIOUS
    <3>3. \A j \in J : k + j \in k .. n /\ k + j \in 1 .. n /\ turn[j] = k + j
      BY <2>0, <2>2, <3>1
    <3>4. \A j \in W : j = w \/ j \in J
      BY <2>3, <3>1, <3>2
    <3>5. turn[w] \in k .. n /\ turn[w] \in 1 .. n
      BY <2>0, <2>1
    <3>6. \A j \in W : turn[j] \in k .. n /\ turn[j] \in 1 .. n
      BY <3>3, <3>4, <3>5
    <3> QED BY <3>2, <3>6
  <2>5. ASSUME NEW j \in 1 .. w, NEW l \in 1 .. w, turn[j] = turn[l] PROVE j = l
    <3>1. PICK J : J = 1 .. n - k
      OBVIOUS
    <3>2. \A x \in J : turn[x] # turn[w]
      BY <2>0, <2>1, <2>2, <3>1
    <3>3. \A x, y \in J : turn[x] = turn[y] => x = y
      BY <2>0, <2>2, <3>1
    <3>4. (j = w \/ j \in J) /\ (l = w \/ l \in J)
      BY <2>3, <3>1
    <3> QED BY <2>5, <3>2, <3>3, <3>4
  <2>6. ASSUME NEW l \in k .. n PROVE \E j \in 1 .. w : turn[j] = l
    <3>1. CASE l = k
      BY <3>1, <2>1
    <3>2. CASE l # k
      <4>1. l \in Nat /\ l >= k /\ l <= n
        BY <1>4
      <4>2. PICK j \in Nat : j = l - k
        BY <4>1, <1>4
      <4>3. j \in 1 .. n - k /\ k + j = l
        BY <4>1, <4>2, <3>2, <1>4
      <4> QED BY <4>3, <2>2
    <3> QED BY <3>1, <3>2
  <2> QED BY <2>1, <2>2, <2>3, <2>4, <2>5, <2>6
<1>14. PICK us : us = [j \in 1 .. w |-> TargetUses(s, i, turn[j])]
  OBVIOUS
<1>15. ASSUME NEW j \in 1 .. w
       PROVE  /\ Lists(us[j], Branch(s, i, turn[j]))
              /\ Branch(s, i, turn[j]) \in SUBSET X
              /\ us[j] \in Seq(X)
  <2>1. turn[j] \in DOMAIN s.bbs[i] /\ turn[j] >= k
    BY <1>2, <1>3, <1>4, <1>13
  <2>2. us[j] = TargetUses(s, i, turn[j])
    BY <1>14
  <2>3. Lists(us[j], Branch(s, i, turn[j]))
    BY <2>1, <2>2, <1>1, TargetUsesIs
  <2>4. Branch(s, i, turn[j]) \in SUBSET X
    BY <2>1, <1>5, <1>7 DEF Branch, Behind
  <2> QED BY <2>3, <2>4 DEF Lists
<1>16. us \in [1 .. w -> Seq(X)]
  BY <1>14, <1>15
<1>17. \A j \in 1 .. w : IsInjective(us[j]) /\ Range(us[j]) = Branch(s, i, turn[j])
  BY <1>15 DEF Lists
<1>18. \A j, l \in 1 .. w : j # l => Range(us[j]) \cap Range(us[l]) = {}
  <2>1. ASSUME NEW j \in 1 .. w, NEW l \in 1 .. w, NEW u, u \in Range(us[j]), u \in Range(us[l])
        PROVE  j = l
    <3>1. u[3] = turn[j] /\ u[3] = turn[l]
      BY <2>1, <1>17 DEF Branch
    <3> QED BY <3>1, <1>13
  <2> QED BY <2>1
<1>19. X = UNION {Range(us[j]) : j \in 1 .. w}
  <2>1. ASSUME NEW u \in X PROVE \E j \in 1 .. w : u \in Branch(s, i, turn[j])
    <3>1. u \in BranchPos(i) /\ u \in Operands(s) /\ u[3] >= k
      BY <1>5, <1>7 DEF Behind
    <3>2. u[3] \in 1 .. n
      BY <3>1, <1>1, <1>2, <1>3, BranchIs
    <3>3. u[3] \in k .. n
      BY <3>1, <3>2, <1>4
    <3>4. PICK j \in 1 .. w : turn[j] = u[3]
      BY <3>3, <1>13
    <3> QED BY <3>1, <3>4 DEF Branch
  <2> QED BY <2>1, <1>15, <1>17
<1>20. PICK parts : parts = Append(behind, Drops(s, TargetUses(s, i, k)))
  OBVIOUS
<1>21. /\ DOMAIN parts = 1 .. w /\ Len(parts) = w
       /\ parts[w] = Drops(s, us[w])
       /\ \A j \in 1 .. n - k : parts[j] = Moves(s, us[j], 3)
       /\ parts = [j \in 1 .. w |-> parts[j]]
  <2>1. PICK m \in Nat : m = n - k /\ w = m + 1
    BY <1>4, <1>11
  <2>0. PICK h : h = behind
    OBVIOUS
  <2>2. h = [j \in 1 .. m |-> Moves(s, TargetUses(s, i, k + j), 3)]
    BY <2>0, <2>1, <1>2, <1>3
  <2>3. PICK d : d = Drops(s, TargetUses(s, i, k))
    OBVIOUS
  <2>4. parts = Append(h, d)
    BY <2>0, <2>3, <1>20
  <2>5. PICK V : V = {h[j] : j \in 1 .. m} \cup {d}
    OBVIOUS
  <2>6. h \in Seq(V) /\ d \in V /\ Len(h) = m
    <3>1. \A j \in 1 .. m : h[j] \in V
      BY <2>5
    <3>2. h = [j \in 1 .. m |-> h[j]]
      BY <2>2
    <3>3. h \in Seq(V) /\ Len(h) = m
      <4>1. h \in [1 .. m -> V]
        BY <3>1, <2>2
      <4> QED BY <4>1, TupleIs
    <3> QED BY <3>3, <2>5
  <2>7. /\ parts \in Seq(V) /\ Len(parts) = m + 1 /\ parts[m + 1] = d
        /\ \A j \in 1 .. m : parts[j] = h[j]
    BY <2>4, <2>6
  <2>8. us[w] = TargetUses(s, i, k) /\ \A j \in 1 .. m : us[j] = TargetUses(s, i, k + j)
    BY <1>13, <1>14, <2>1
  <2>9. DOMAIN parts = 1 .. w /\ Len(parts) = w /\ parts = [j \in 1 .. w |-> parts[j]]
    BY <2>1, <2>7
  <2>10. parts[w] = Drops(s, us[w])
    BY <2>1, <2>3, <2>7, <2>8
  <2>11. \A j \in 1 .. m : h[j] = Moves(s, us[j], 3)
    BY <2>2, <2>8
  <2>12. \A j \in 1 .. n - k : parts[j] = Moves(s, us[j], 3)
    BY <2>1, <2>7, <2>11
  <2> QED BY <2>9, <2>10, <2>12
<1>22. ASSUME NEW j \in 1 .. w
       PROVE  parts[j] \in Seq(Steps) /\ InTurn(parts[j], s, us[j], to)
  <2>1. us[j] \in Seq(X) /\ us[j] \in Seq(Branch(s, i, turn[j]))
    BY <1>15 DEF Lists
  <2>2. \A x \in DOMAIN us[j] : us[j][x] \in X /\ us[j][x][3] = turn[j]
    BY <2>1 DEF Branch
  <2>3. CASE j = w
    <3>1. \A x \in DOMAIN us[j] : to[us[j][x]] = NoUse
      BY <2>2, <2>3, <1>10, <1>13
    <3>2. parts[j] = Drops(s, us[j])
      BY <2>3, <1>21
    <3> QED BY <3>1, <3>2, <2>1, <1>1, <1>8, DropsInTurn
  <2>4. CASE j \in 1 .. n - k
    <3>1. turn[j] # k
      BY <2>4, <1>4, <1>13
    <3>2. \A x \in DOMAIN us[j] : to[us[j][x]] = [us[j][x] EXCEPT ![3] = us[j][x][3] - 1]
      BY <3>1, <2>2, <1>10 DEF Down, At
    <3>3. parts[j] = Moves(s, us[j], 3)
      BY <2>4, <1>21
    <3>4. PICK v \in Seq(X) : v = us[j]
      BY <2>1
    <3>5. PICK c : c = 3
      OBVIOUS
    <3>6. \A x \in DOMAIN v : to[v[x]] = [v[x] EXCEPT ![c] = v[x][c] - 1]
      BY <3>2, <3>4, <3>5
    <3>7. Moves(s, v, c) \in Seq(Steps) /\ InTurn(Moves(s, v, c), s, v, to)
      BY <3>6, <1>1, <1>8, <1>10, MovesInTurn
    <3> QED BY <3>3, <3>4, <3>5, <3>7
  <2> QED BY <2>3, <2>4, <1>13
<1>23. parts \in Seq(Seq(Steps))
  <2>1. parts \in [1 .. w -> Seq(Steps)]
    BY <1>21, <1>22
  <2> QED BY <2>1
<1>24. r \in States /\ Relists(s, r, Records(s, X, to))
  <2>1. r = RelistEach(s, parts)
    BY <1>20
  <2>2. \A j \in 1 .. w : IsInjective(us[j])
    BY <1>17
  <2>3. MovesApart(X, to) /\ Len(parts) = w
    BY <1>10, <1>21
  <2>4. \A j \in 1 .. w : InTurn(parts[j], s, us[j], to)
    BY <1>22
  <2>5. PICK z : z = RelistEach(s, parts)
    OBVIOUS
  <2>6. z \in States /\ Relists(s, z, Records(s, X, to))
    BY <2>2, <2>3, <2>4, <2>5, <1>8, <1>11, <1>16, <1>18, <1>19, <1>23, RelistEachMoves
  <2> QED BY <2>1, <2>5, <2>6
<1>25. r.args = s.args /\ r.bbs = s.bbs
  BY <1>24 DEF Relists, SameShape
<1>26. PICK p : p = RemoveAt(q, k)
  OBVIOUS
<1>27. /\ p \in Seq(Target) /\ DOMAIN p = 1 .. (n - 1)
       /\ \A l \in 1 .. (n - 1) : p[l] = IF l < k THEN q[l] ELSE q[l + 1]
  BY <1>3, <1>4, <1>26, RemoveAtIs
<1>28. PICK t : t = [r EXCEPT !.bbs[i] = RemoveAt(@, k)]
  OBVIOUS
<1>29. t = [r EXCEPT !.bbs[i] = p]
  BY <1>2, <1>24, <1>25, <1>26, <1>28
<1>30. t \in States /\ SameLists(r, t) /\ BBsSet(s, t, i, p)
  BY <1>24, <1>25, <1>27, <1>29 DEF States, SameLists, BBsSet
<1>31. t.bbs[i] = p /\ Elsewhere(s, t, Z)
  BY <1>1, <1>5, <1>30, BBsSetIs
<1>32. ASSUME NEW y \in States, NEW u \in Z, NEW v, v = y.bbs[i]
       PROVE  /\ u[2] = "BB" => /\ u \in Operands(y) <=> u[3] \in DOMAIN v /\ u[4] = 1
                                /\ ValueAt(y, u) = v[u[3]].bb
              /\ u[2] = "BBArg" => /\ u \in Operands(y) <=> u[3] \in DOMAIN v /\ u[4] \in DOMAIN v[u[3]].args
                                   /\ ValueAt(y, u) = v[u[3]].args[u[4]]
              /\ u[2] \in {"BB", "BBArg"}
  BY <1>5, <1>32, BranchIs
<1>33. ASSUME NEW u \in Z
       PROVE  /\ Up(u, 3) \in Z /\ Up(u, 3)[3] = u[3] + 1 /\ u[3] \in Nat
              /\ Up(u, 3)[2] = u[2] /\ Up(u, 3)[4] = u[4]
  <2>1. u[3] \in Nat /\ Up(u, 3) \in Z /\ Up(u, 3)[3] = u[3] + 1 /\ u \in Pos
    BY <1>6, UpAndDown
  <2>2. PICK m \in Nat : m = u[3] + 1
    BY <2>1
  <2>3. At(u, 3, m) = <<u[1], u[2], m, u[4]>>
    BY <2>1, AtIs
  <2>4. At(u, 3, m)[2] = u[2] /\ At(u, 3, m)[4] = u[4]
    BY <2>3
  <2> QED BY <2>1, <2>2, <2>4 DEF Up
<1>34. ASSUME NEW u \in Z, u[3] < k PROVE Same(s, t, u)
  <2>1. u[3] \in Nat /\ (u[3] \in 1 .. n <=> u[3] \in 1 .. n - 1)
    BY <1>4, <1>33, <1>34
  <2>2. u[3] \in 1 .. n - 1 => p[u[3]] = q[u[3]]
    BY <1>27, <1>34
  <2>3. CASE u[2] = "BB"
    <3>1. (u \in Operands(s) <=> u[3] \in 1 .. n /\ u[4] = 1) /\ ValueAt(s, u) = q[u[3]].bb
      BY <2>3, <1>1, <1>2, <1>3, <1>32
    <3>2. (u \in Operands(t) <=> u[3] \in 1 .. n - 1 /\ u[4] = 1) /\ ValueAt(t, u) = p[u[3]].bb
      BY <2>3, <1>27, <1>30, <1>31, <1>32
    <3> QED BY <3>1, <3>2, <2>1, <2>2 DEF Same
  <2>4. CASE u[2] = "BBArg"
    <3>1. /\ u \in Operands(s) <=> u[3] \in 1 .. n /\ u[4] \in DOMAIN q[u[3]].args
          /\ ValueAt(s, u) = q[u[3]].args[u[4]]
      BY <2>4, <1>1, <1>2, <1>3, <1>32
    <3>2. /\ u \in Operands(t) <=> u[3] \in 1 .. n - 1 /\ u[4] \in DOMAIN p[u[3]].args
          /\ ValueAt(t, u) = p[u[3]].args[u[4]]
      BY <2>4, <1>27, <1>30, <1>31, <1>32
    <3> QED BY <3>1, <3>2, <2>1, <2>2 DEF Same
  <2> QED BY <2>3, <2>4, <1>1, <1>32
<1>35. ASSUME NEW u \in Z, u[3] >= k
       PROVE  /\ u \in Operands(t) <=> Up(u, 3) \in Operands(s)
              /\ u \in Operands(t) => ValueAt(t, u) = ValueAt(s, Up(u, 3))
  <2>1. PICK x \in Z : x = Up(u, 3)
    BY <1>33
  <2>2. x[3] = u[3] + 1 /\ x[2] = u[2] /\ x[4] = u[4] /\ u[3] \in Nat
    BY <2>1, <1>33
  <2>3. u[3] \in 1 .. n - 1 <=> x[3] \in 1 .. n
    BY <2>2, <1>4, <1>35
  <2>4. u[3] \in 1 .. n - 1 => p[u[3]] = q[x[3]]
    BY <2>2, <1>4, <1>27, <1>35
  <2>5. CASE u[2] = "BB"
    <3>1. (x \in Operands(s) <=> x[3] \in 1 .. n /\ x[4] = 1) /\ ValueAt(s, x) = q[x[3]].bb
      BY <2>2, <2>5, <1>1, <1>2, <1>3, <1>32
    <3>2. (u \in Operands(t) <=> u[3] \in 1 .. n - 1 /\ u[4] = 1) /\ ValueAt(t, u) = p[u[3]].bb
      BY <2>5, <1>27, <1>30, <1>31, <1>32
    <3> QED BY <3>1, <3>2, <2>1, <2>2, <2>3, <2>4
  <2>6. CASE u[2] = "BBArg"
    <3>1. /\ x \in Operands(s) <=> x[3] \in 1 .. n /\ x[4] \in DOMAIN q[x[3]].args
          /\ ValueAt(s, x) = q[x[3]].args[x[4]]
      BY <2>2, <2>6, <1>1, <1>2, <1>3, <1>32
    <3>2. /\ u \in Operands(t) <=> u[3] \in 1 .. n - 1 /\ u[4] \in DOMAIN p[u[3]].args
          /\ ValueAt(t, u) = p[u[3]].args[u[4]]
      BY <2>6, <1>27, <1>30, <1>31, <1>32
    <3> QED BY <3>1, <3>2, <2>1, <2>2, <2>3, <2>4
  <2> QED BY <2>5, <2>6, <1>1, <1>32
<1>36. Shifted(s, t, Z, 3, k)
  BY <1>31, <1>34, <1>35 DEF Shifted
<1>37. Good(t) /\ Within(s, t)
  BY <1>4, <1>6, <1>7, <1>9, <1>24, <1>30, <1>36, SlideMatches
<1> QED BY <1>28, <1>37

-----------------------------------------------------------------------------
(* Copying an instruction *)

AddRecord(s, u)  == [value |-> ValueAt(s, u), from |-> NoUse, to |-> u]
AddRecords(s, X) == {AddRecord(s, u) : u \in X}

LEMMA AddRecordsApart ==
  ASSUME NEW s \in States, NEW X, NEW Y, X \cap Y = {}
  PROVE  Apart(AddRecords(s, X), AddRecords(s, Y))
<1> SUFFICES ASSUME NEW m \in AddRecords(s, X), NEW o \in AddRecords(s, Y)
             PROVE  m.from = NoUse /\ m.to # o.to
  BY DEF Apart
<1>1. PICK x \in X : m = AddRecord(s, x)
  BY DEF AddRecords
<1>2. PICK y \in Y : o = AddRecord(s, y)
  BY DEF AddRecords
<1>3. m.from = NoUse /\ m.to = x /\ o.to = y
  BY <1>1, <1>2 DEF AddRecord
<1> QED BY <1>3

\* Nothing is taken out.
LEMMA AddRecordsPresent ==
  ASSUME NEW s, NEW t, NEW X
  PROVE  Present(t, AddRecords(s, X))
BY DEF Present, AddRecords, AddRecord

LEMMA AddsIs ==
  ASSUME NEW s \in States, NEW X \in SUBSET Operands(s), NEW us, Lists(us, X)
  PROVE  /\ Adds(s, us) \in Seq(Steps) /\ Single(Adds(s, us))
         /\ Range(Adds(s, us)) = AddRecords(s, X)
<1>1. PICK n \in Nat : n = Len(us) /\ DOMAIN us = 1 .. n
  BY DEF Lists
<1>2. PICK d : d = Adds(s, us)
  OBVIOUS
<1>3. \A x \in 1 .. n : us[x] \in X /\ us[x] \in Pos /\ ValueAt(s, us[x]) \in AnyValue
  BY <1>1, ValueAtIn DEF Lists
<1>4. DOMAIN d = 1 .. n /\ \A x \in 1 .. n : d[x] = AddRecord(s, us[x])
  BY <1>1, <1>2 DEF Adds, AddRecord
<1>5. \A x \in 1 .. n : d[x] \in Steps
  BY <1>3, <1>4 DEF AddRecord, Steps
<1>6. d = [x \in 1 .. n |-> d[x]]
  BY <1>1, <1>2 DEF Adds
<1>7. d \in Seq(Steps)
  BY <1>5, <1>6
<1>8. Single(d)
  <2> SUFFICES ASSUME NEW x \in 1 .. n, NEW y \in 1 .. n, x # y PROVE Apart({d[x]}, {d[y]})
    BY <1>4 DEF Single
  <2>1. us[x] # us[y]
    BY <1>1 DEF Lists, IsInjective
  <2>2. d[x].from = NoUse /\ d[x].to = us[x] /\ d[y].to = us[y]
    BY <1>4 DEF AddRecord
  <2> QED BY <2>1, <2>2 DEF Apart
<1>9. Range(d) = AddRecords(s, X)
  <2>1. Range(us) = X
    BY DEF Lists
  <2>2. \A e : e \in Range(d) <=> \E x \in 1 .. n : e = AddRecord(s, us[x])
    BY <1>4 DEF Range
  <2>3. \A e : e \in AddRecords(s, X) <=> \E x \in 1 .. n : e = AddRecord(s, us[x])
    BY <2>1, <1>1 DEF AddRecords, Range
  <2> QED BY <2>2, <2>3
<1> QED BY <1>2, <1>7, <1>8, <1>9

OfInstr(s, i) == {u \in Operands(s) : u[1] = i}

LEMMA OfInstrIs ==
  ASSUME NEW s \in States, NEW i \in Instrs
  PROVE  /\ OfInstr(s, i) = Args(s, i) \cup UNION {Branch(s, i, k) : k \in DOMAIN s.bbs[i]}
         /\ IsFiniteSet(OfInstr(s, i))
<1>1. PICK B : B = {Branch(s, i, k) : k \in DOMAIN s.bbs[i]}
  OBVIOUS
<1>2. ASSUME NEW u \in OfInstr(s, i) PROVE u \in Args(s, i) \cup UNION B
  <2>1. u \in Operands(s) /\ u \in Pos /\ u[1] = i
    BY OperandsAre DEF OfInstr
  <2>2. CASE u[2] = "NormalArg"
    BY <2>1, <2>2 DEF Args, ArgPos
  <2>3. CASE u[2] # "NormalArg"
    <3>1. u \in BranchPos(i)
      BY <2>1, <2>3 DEF BranchPos
    <3>2. u[3] \in DOMAIN s.bbs[i]
      BY <2>1, <3>1, BranchIs
    <3>3. u \in Branch(s, i, u[3])
      BY <2>1, <3>1 DEF Branch
    <3> QED BY <3>2, <3>3, <1>1
  <2> QED BY <2>2, <2>3
<1>3. ASSUME NEW u \in Args(s, i) \cup UNION B PROVE u \in OfInstr(s, i)
  BY <1>1, <1>3 DEF Args, ArgPos, Branch, BranchPos, OfInstr
<1>4. OfInstr(s, i) = Args(s, i) \cup UNION B
  BY <1>2, <1>3
<1>5. ASSUME NEW us, NEW X, Lists(us, X) PROVE IsFiniteSet(X)
  <2>1. PICK n \in Nat : n = Len(us) /\ DOMAIN us = 1 .. n
    BY <1>5 DEF Lists
  <2>2. us \in Surjection(1 .. n, X)
    <3>1. us \in [1 .. n -> X]
      BY <1>5, <2>1 DEF Lists
    <3>2. \A x \in X : \E k \in 1 .. n : us[k] = x
      BY <1>5, <2>1 DEF Lists, Range
    <3> QED BY <3>1, <3>2 DEF Surjection
  <2>3. IsFiniteSet(1 .. n)
    BY FS_Interval
  <2> QED BY <2>2, <2>3, FS_Surjection
<1>6. IsFiniteSet(Args(s, i))
  BY <1>5, ArgUsesIs
<1>7. \A T \in B : IsFiniteSet(T)
  BY <1>1, <1>5, TargetUsesIs
<1>8. IsFiniteSet(B)
  <2>1. PICK n \in Nat : DOMAIN s.bbs[i] = 1 .. n
    <3>1. s.bbs[i] \in Seq(Target)
      BY ShapeFacts
    <3> QED BY <3>1
  <2>2. PICK f : f = [k \in 1 .. n |-> Branch(s, i, k)]
    OBVIOUS
  <2>3. f \in Surjection(1 .. n, B)
    BY <1>1, <2>1, <2>2 DEF Surjection
  <2>4. IsFiniteSet(1 .. n)
    BY FS_Interval
  <2> QED BY <2>3, <2>4, FS_Surjection
<1>9. IsFiniteSet(UNION B)
  BY <1>7, <1>8, FS_UNION
<1>10. IsFiniteSet(OfInstr(s, i))
  BY <1>4, <1>6, <1>9, FS_Union
<1> QED BY <1>1, <1>4, <1>10

\* The elements of a finite set, in some order.
LEMMA SetToSeqIs ==
  ASSUME NEW S, IsFiniteSet(S)
  PROVE  SetToSeq(S) \in Seq(S) /\ Range(SetToSeq(S)) \subseteq S
<1>1. PICK n \in Nat : n = Cardinality(S) /\ ExistsBijection(1 .. n, S)
  BY FS_CardinalityType
<1>2. \E f \in [1 .. n -> S] : IsInjective(f)
  <2>1. PICK f : f \in Bijection(1 .. n, S)
    BY <1>1 DEF ExistsBijection
  <2>2. f \in [1 .. n -> S] /\ \A x, y \in 1 .. n : f[x] = f[y] => x = y
    BY <2>1 DEF Bijection, Injection, IsInjective
  <2> QED BY <2>2 DEF IsInjective
<1>3. SetToSeq(S) \in [1 .. n -> S]
  <2>1. SetToSeq(S) = CHOOSE f \in [1 .. n -> S] : IsInjective(f)
    BY <1>1, Zenon DEF SetToSeq
  <2> QED BY <2>1, <1>2, Zenon
<1>4. PICK q : q = SetToSeq(S)
  OBVIOUS
<1>5. q \in Seq(S)
  BY <1>3, <1>4
<1>6. Range(q) \subseteq S
  BY <1>3, <1>4 DEF Range
<1> QED BY <1>4, <1>5, <1>6

LEMMA FilledIs ==
  ASSUME NEW s \in States, NEW j \in Instrs, NEW c,
         c = RelistEach(Relist(s, Adds(s, ArgUses(s, j))),
                        [k \in DOMAIN s.bbs[j] |-> Adds(s, TargetUses(s, j, k))])
  PROVE  c \in States /\ Relists(s, c, AddRecords(s, OfInstr(s, j)))
<1>1. PICK d : d = Adds(s, ArgUses(s, j))
  OBVIOUS
<1>2. PICK X : X = Args(s, j)
  OBVIOUS
<1>3. d \in Seq(Steps) /\ Single(d) /\ Range(d) = AddRecords(s, X)
  <2>1. X \in SUBSET Operands(s)
    BY <1>2 DEF Args
  <2> QED BY <2>1, <1>1, <1>2, ArgUsesIs, AddsIs
<1>4. PICK m : m = Relist(s, d)
  OBVIOUS
<1>5. m \in States /\ Relists(s, m, AddRecords(s, X))
  <2>1. Present(s, Range(d))
    BY <1>3, AddRecordsPresent
  <2> QED BY <2>1, <1>3, <1>4, RelistIs
<1>6. PICK n \in Nat : DOMAIN s.bbs[j] = 1 .. n
  <2>1. s.bbs[j] \in Seq(Target)
    BY ShapeFacts
  <2> QED BY <2>1
<1>7. PICK parts : parts = [k \in 1 .. n |-> Adds(s, TargetUses(s, j, k))]
  OBVIOUS
<1>8. ASSUME NEW k \in 1 .. n
      PROVE  /\ parts[k] \in Seq(Steps) /\ Single(parts[k])
             /\ Range(parts[k]) = AddRecords(s, Branch(s, j, k))
  <2>1. parts[k] = Adds(s, TargetUses(s, j, k))
    BY <1>7
  <2>2. Lists(TargetUses(s, j, k), Branch(s, j, k))
    BY <1>6, TargetUsesIs
  <2>3. Branch(s, j, k) \in SUBSET Operands(s)
    BY DEF Branch
  <2> QED BY <2>1, <2>2, <2>3, AddsIs
<1>9. parts \in Seq(Seq(Steps)) /\ DOMAIN parts = 1 .. n
  <2>1. parts \in [1 .. n -> Seq(Steps)]
    BY <1>7, <1>8
  <2> QED BY <2>1
<1>10. SingleParts(parts)
  <2> SUFFICES ASSUME NEW k \in 1 .. n, NEW l \in 1 .. n, k # l
               PROVE  Apart(Range(parts[k]), Range(parts[l]))
    BY <1>8, <1>9 DEF SingleParts
  <2>1. Branch(s, j, k) \cap Branch(s, j, l) = {}
    BY DEF Branch
  <2> QED BY <2>1, <1>8, AddRecordsApart
<1>11. PICK Y : Y = UNION {Branch(s, j, k) : k \in 1 .. n}
  OBVIOUS
<1>12. AllSteps(parts) = AddRecords(s, Y)
  <2>1. \A e : e \in AllSteps(parts) <=> \E k \in 1 .. n : e \in AddRecords(s, Branch(s, j, k))
    BY <1>8, <1>9 DEF AllSteps
  <2>2. \A e : e \in AddRecords(s, Y) <=> \E k \in 1 .. n : e \in AddRecords(s, Branch(s, j, k))
    BY <1>11 DEF AddRecords
  <2> QED BY <2>1, <2>2
<1>13. PICK r : r = RelistEach(m, parts)
  OBVIOUS
<1>14. r \in States /\ Relists(m, r, AddRecords(s, Y))
  <2>1. Present(m, AllSteps(parts))
    BY <1>12, AddRecordsPresent
  <2> QED BY <2>1, <1>5, <1>9, <1>10, <1>12, <1>13, RelistEachIs
<1>15. X \cap Y = {}
  BY <1>2, <1>11 DEF Args, ArgPos, Branch, BranchPos
<1>16. PICK Z : Z = AddRecords(s, X) \cup AddRecords(s, Y)
  OBVIOUS
<1>17. Relists(s, r, Z)
  <2>1. PICK S : S = AddRecords(s, X)
    OBVIOUS
  <2>2. PICK T : T = AddRecords(s, Y)
    OBVIOUS
  <2>3. Apart(S, T)
    BY <2>1, <2>2, <1>15, AddRecordsApart
  <2>4. Z = S \cup T /\ Relists(s, m, S) /\ Relists(m, r, T)
    BY <2>1, <2>2, <1>5, <1>14, <1>16
  <2> QED BY <2>3, <2>4, <1>5, <1>14, RelistsTwice
<1>18. Z = AddRecords(s, OfInstr(s, j))
  <2>1. OfInstr(s, j) = X \cup Y
    BY <1>2, <1>6, <1>11, OfInstrIs
  <2> QED BY <2>1, <1>16 DEF AddRecords
<1>19. c = r
  BY <1>1, <1>4, <1>6, <1>7, <1>13
<1> QED BY <1>14, <1>17, <1>18, <1>19

\* The operands of j appear in s, and c has their records.
LEMMA FilledMatches ==
  ASSUME NEW s0, Good(s0), NEW j \in Instrs, j \notin Owners(s0),
         NEW s \in States, SameLists(s0, s), \A u \in Pos : u[1] # j => Same(s0, s, u),
         NEW c \in States, Relists(s, c, AddRecords(s, OfInstr(s, j)))
  PROVE  Good(c) /\ Operands(c) = Operands(s) /\ \A u \in Operands(s) : ValueAt(c, u) = ValueAt(s, u)
<1>1. PICK S : S = AddRecords(s, OfInstr(s, j))
  OBVIOUS
<1>2. Operands(c) = Operands(s) /\ \A u : ValueAt(c, u) = ValueAt(s, u)
  BY DEF Relists, SameShape, Operands, ValueAt
<1>3. \A m : m \in S <=> \E x \in OfInstr(s, j) : m = AddRecord(s, x)
  BY <1>1 DEF AddRecords
<1>4. \A x : AddRecord(s, x).value = ValueAt(s, x) /\ AddRecord(s, x).from = NoUse
             /\ AddRecord(s, x).to = x
  BY DEF AddRecord
<1>5. ASSUME NEW v \in Tracked, NEW u \in Pos
      PROVE  /\ Taken(S, v, u) => Names(s0, u, v)
             /\ Given(S, v, u) => ~Names(s0, u, v) \/ Taken(S, v, u)
             /\ Names(c, u, v) <=> Given(S, v, u) \/ (Names(s0, u, v) /\ ~Taken(S, v, u))
  <2>1. ~Taken(S, v, u)
    <3> SUFFICES ASSUME NEW m \in S, m.from = u PROVE FALSE
      BY DEF Taken
    <3>1. m.from = NoUse
      BY <1>3, <1>4
    <3> QED BY <3>1, NoUseIsNone
  <2>2. Given(S, v, u) <=> u \in OfInstr(s, j) /\ ValueAt(s, u) = v
    <3>1. ASSUME Given(S, v, u) PROVE u \in OfInstr(s, j) /\ ValueAt(s, u) = v
      <4>1. PICK m \in S : m.value = v /\ m.to = u
        BY <3>1 DEF Given
      <4>2. PICK x \in OfInstr(s, j) : m = AddRecord(s, x)
        BY <1>3
      <4> QED BY <4>1, <4>2, <1>4
    <3>2. ASSUME u \in OfInstr(s, j), ValueAt(s, u) = v PROVE Given(S, v, u)
      BY <3>2, <1>3, <1>4 DEF Given
    <3> QED BY <3>1, <3>2
  <2>3. CASE u[1] = j
    <3>1. u \notin Operands(s0)
      BY <2>3 DEF Owners
    <3> QED BY <2>1, <2>2, <2>3, <3>1, <1>2 DEF Names, OfInstr
  <2>4. CASE u[1] # j
    <3>1. Same(s0, s, u)
      BY <2>4
    <3> QED BY <2>1, <2>2, <2>4, <3>1, <1>2 DEF Names, OfInstr, Same
  <2> QED BY <2>3, <2>4
<1>6. Renumbers(s0, c, S)
  BY <1>5 DEF Renumbers
<1>7. SameLists(c, c)
  BY DEF SameLists
<1> QED BY <1>1, <1>2, <1>6, <1>7, RenumberedMatches

LEMMA SubstitutedWithin ==
  ASSUME NEW s, NEW t, NEW X, NEW w, Substituted(s, t, X, w)
  PROVE  Named(t) \subseteq Named(s) \cup {w} /\ Owners(t) = Owners(s)
BY DEF Substituted, Named, Owners

\* The steps of CopyInstr, from s to r.
CopiedShape(s, i, j) == [s EXCEPT !.args[j] = s.args[i], !.bbs[j] = s.bbs[i]]
CopiedLists(s, j) ==
  RelistEach(Relist(s, Adds(s, ArgUses(s, j))),
             [k \in DOMAIN s.bbs[j] |-> Adds(s, TargetUses(s, j, k))])
OwnOperands(s, i, j) == {u \in Operands(s) : u[1] = j /\ ValueAt(s, u) = i}
Copies(s, r, i, j) ==
  LET c   == CopiedLists(CopiedShape(s, i, j), j)
      own == OwnOperands(c, i, j)
  IN r = ReplaceUses(c, SetToSeq(own), own, j, FALSE)

LEMMA CopyInstrIs ==
  ASSUME NEW s0, Good(s0), NEW i \in Instrs, NEW j \in Instrs, i # j, j \notin Owners(s0),
         NEW r, Copies(s0, r, i, j)
  PROVE  Good(r) /\ Named(r) \subseteq Named(s0) \cup {j} /\ Owners(r) \subseteq Owners(s0) \cup {j}
<1>1. s0 \in States
  BY DEF Good
<1>2. PICK t : t = CopiedShape(s0, i, j)
  OBVIOUS
<1>3. /\ t \in States /\ SameLists(s0, t)
      /\ t.args[j] = s0.args[i] /\ t.bbs[j] = s0.bbs[i]
      /\ \A l \in Instrs \ {j} : t.args[l] = s0.args[l] /\ t.bbs[l] = s0.bbs[l]
  <2>1. s0.args[i] \in Seq(AnyValue) /\ s0.bbs[i] \in Seq(Target)
    BY <1>1, ShapeFacts
  <2> QED BY <2>1, <1>1, <1>2 DEF CopiedShape, States, SameLists
<1>4. ASSUME NEW u \in Pos, u[1] # j PROVE Same(s0, t, u)
  <2>1. u[1] \in Instrs \ {j}
    BY <1>4, PosParts
  <2>2. t.args[u[1]] = s0.args[u[1]] /\ t.bbs[u[1]] = s0.bbs[u[1]]
    BY <2>1, <1>3
  <2> QED BY <2>2, <1>1, <1>3, SameIfHas
<1>5. PICK d : d = CopiedLists(t, j)
  OBVIOUS
<1>6. d \in States /\ Relists(t, d, AddRecords(t, OfInstr(t, j)))
  <2>1. d = RelistEach(Relist(t, Adds(t, ArgUses(t, j))),
                       [k \in DOMAIN t.bbs[j] |-> Adds(t, TargetUses(t, j, k))])
    BY <1>5 DEF CopiedLists
  <2> QED BY <2>1, <1>3, FilledIs
<1>7. Good(d) /\ Operands(d) = Operands(t) /\ \A u \in Operands(t) : ValueAt(d, u) = ValueAt(t, u)
  BY <1>3, <1>4, <1>6, FilledMatches
<1>8. ASSUME NEW u \in Operands(t)
      PROVE  ValueAt(t, u) \in Named(s0) /\ u[1] \in Owners(s0) \cup {j}
  <2>1. u \in Pos /\ Has(t, u)
    BY <1>3, OperandsAre
  <2>2. CASE u[1] # j
    BY <2>1, <2>2, <1>4 DEF Same, Named, Owners
  <2>3. CASE u[1] = j
    <3>1. PICK x : x = <<i, u[2], u[3], u[4]>>
      OBVIOUS
    <3>2. x \in Pos /\ x[1] = i /\ x[2] = u[2] /\ x[3] = u[3] /\ x[4] = u[4]
      BY <2>1, <3>1, PosParts DEF Pos
    <3>3. Has(s0, x) /\ ValueAt(s0, x) = ValueAt(t, u)
      BY <2>1, <2>3, <3>2, <1>3 DEF Has, ValueAt
    <3>4. x \in Operands(s0)
      BY <3>2, <3>3, <1>1, OperandsAre
    <3> QED BY <2>3, <3>3, <3>4 DEF Named
  <2> QED BY <2>2, <2>3
<1>9. Named(d) \subseteq Named(s0) /\ Owners(d) \subseteq Owners(s0) \cup {j}
  BY <1>7, <1>8 DEF Named, Owners
<1>10. PICK X : X = OwnOperands(d, i, j)
  OBVIOUS
<1>11. X \in SUBSET Operands(d) /\ X \in SUBSET OfInstr(d, j)
  BY <1>10 DEF OwnOperands, OfInstr
<1>12. IsFiniteSet(X)
  BY <1>6, <1>11, OfInstrIs, FS_Subset
<1>13. PICK copy : copy = SetToSeq(X)
  OBVIOUS
<1>14. copy \in Seq(X) /\ Range(copy) \subseteq X
  BY <1>12, <1>13, SetToSeqIs
<1>15. copy \in Seq(Pos)
  <2>1. X \subseteq Pos
    BY <1>6, <1>11, OperandsAre
  <2> QED BY <2>1, <1>14
<1>16. PICK W : W = Range(copy) \cap X
  OBVIOUS
<1>17. W \subseteq Operands(d)
  BY <1>11, <1>16
<1>18. j \in AnyValue
  BY DEF AnyValue, Tracked
<1>19. PICK no \in BOOLEAN : no = FALSE
  OBVIOUS
<1>20. PICK z : z = ReplaceUses(d, copy, X, j, no)
  OBVIOUS
<1>21. Good(z) /\ Substituted(d, z, W, j)
  BY <1>7, <1>15, <1>16, <1>17, <1>18, <1>20, ReplaceUsesIs
<1>22. Named(z) \subseteq Named(d) \cup {j} /\ Owners(z) = Owners(d)
  BY <1>21, SubstitutedWithin
<1>23. r = z
  BY <1>2, <1>5, <1>10, <1>13, <1>19, <1>20, Zenon DEF Copies
<1> QED BY <1>9, <1>21, <1>22, <1>23

-----------------------------------------------------------------------------
(* The inductive invariant *)

Living(p) == {i \in Instrs : p[i] # Nowhere}
Nameable(p, a) == Living(p) \cup a \cup Untracked \cup Blocks \cup {Invalid}

\* The lists match, and operands belong to live instructions and name live values.
Proper(s, p, a) ==
  /\ Good(s)
  /\ p \in [Instrs -> Blocks \cup {Nowhere}] /\ a \subseteq BlockArgs
  /\ Named(s) \subseteq Nameable(p, a) /\ Owners(s) \subseteq Living(p)

UsesInv == Proper(ir, parent, attached)

LEMMA NameableIs == Nameable(parent, attached) = LiveValues \cup Blocks \cup {Invalid}
BY DEF Nameable, Living, LiveValues, Alive

LEMMA NameableAny ==
  ASSUME NEW s, NEW p, NEW a, Proper(s, p, a)
  PROVE  s \in States /\ Nameable(p, a) \subseteq AnyValue /\ Living(p) \subseteq Instrs
BY DEF Proper, Good, Nameable, Living, AnyValue, Tracked

LEMMA AddedProper ==
  ASSUME NEW s, NEW p, NEW a, Proper(s, p, a), NEW r, NEW i \in Living(p), NEW v \in Nameable(p, a),
         Added(s, r, i, v)
  PROVE  Proper(r, p, a)
BY DEF Proper, Added

LEMMA WithinProper ==
  ASSUME NEW s, NEW p, NEW a, Proper(s, p, a), NEW r, Good(r), Within(s, r)
  PROVE  Proper(r, p, a)
BY DEF Proper, Within

LEMMA SubstitutedProper ==
  ASSUME NEW s, NEW p, NEW a, Proper(s, p, a), NEW r, Good(r), NEW X, NEW w \in Nameable(p, a),
         Substituted(s, r, X, w)
  PROVE  Proper(r, p, a)
BY SubstitutedWithin DEF Proper

LEMMA ReplaceOperandProper ==
  ASSUME NEW s, NEW p, NEW a, Proper(s, p, a), NEW u \in Operands(s), NEW w \in Nameable(p, a),
         NEW r, r = ReplaceOperand(s, u, w, TRUE)
  PROVE  Proper(r, p, a) /\ Operands(r) = Operands(s)
<1>1. Good(s) /\ w \in AnyValue
  BY NameableAny DEF Proper
<1>2. PICK yes \in BOOLEAN : yes = TRUE
  OBVIOUS
<1>3. PICK z : z = ReplaceOperand(s, u, w, yes)
  OBVIOUS
<1>4. Good(z) /\ Substituted(s, z, {u}, w)
  BY <1>1, <1>3, ReplaceOperandIs
<1>5. Proper(z, p, a) /\ Operands(z) = Operands(s)
  <2>1. PICK X : X = {u}
    OBVIOUS
  <2>2. Substituted(s, z, X, w)
    BY <2>1, <1>4
  <2> QED BY <2>2, <1>4, SubstitutedProper DEF Substituted
<1>6. r = z
  BY <1>2, <1>3, Zenon
<1> QED BY <1>5, <1>6

LEMMA ReplaceEveryProper ==
  ASSUME NEW s, NEW p, NEW a, Proper(s, p, a), NEW v \in Tracked, NEW w \in Nameable(p, a)
  PROVE  Proper(ReplaceEvery(s, v, w), p, a)
<1>1. Good(s) /\ w \in AnyValue
  BY NameableAny DEF Proper
<1>2. PICK X : X = {u \in Operands(s) : ValueAt(s, u) = v}
  OBVIOUS
<1>3. PICK r : r = ReplaceEvery(s, v, w)
  OBVIOUS
<1>4. Good(r) /\ Substituted(s, r, X, w)
  BY <1>1, <1>2, <1>3, ReplaceEveryIs
<1>5. Proper(r, p, a)
  BY <1>4, SubstitutedProper
<1> QED BY <1>3, <1>5

\* Replaced by Invalid, a value is named nowhere.
LEMMA ForgottenIs ==
  ASSUME NEW s, Good(s), NEW v \in Tracked, NEW r, r = ReplaceEvery(s, v, Invalid)
  PROVE  /\ Good(r) /\ Named(r) \subseteq (Named(s) \cup {Invalid}) \ {v}
         /\ Owners(r) = Owners(s)
<1>1. Invalid \in AnyValue /\ Invalid # v
  BY KindsAssumption DEF AnyValue, Tracked
<1>2. PICK X : X = {u \in Operands(s) : ValueAt(s, u) = v}
  OBVIOUS
<1>3. PICK w : w = Invalid
  OBVIOUS
<1>4. PICK z : z = ReplaceEvery(s, v, w)
  OBVIOUS
<1>5. Good(z) /\ Substituted(s, z, X, w)
  BY <1>1, <1>2, <1>3, <1>4, ReplaceEveryIs
<1>6. Owners(z) = Owners(s) /\ Named(z) \subseteq (Named(s) \cup {w}) \ {v}
  BY <1>1, <1>2, <1>3, <1>5 DEF Substituted, Named, Owners
<1> QED BY <1>3, <1>4, <1>5, <1>6

LEMMA InitProper ==
  ASSUME UsesInit
  PROVE  UsesInv
<1>1. ir \in States
  BY EmptyIs DEF UsesInit, States
<1>2. ASSUME NEW u PROVE u \notin Operands(ir)
  <2>1. CASE u \in Pos
    <3>1. u[1] \in Instrs
      BY <2>1, PosParts
    <3>2. ~Has(ir, u)
      BY <3>1 DEF UsesInit, Has
    <3> QED BY <3>2, <1>1, OperandsAre
  <2> QED BY <2>1, <1>1, OperandsAre
<1>3. ASSUME NEW v \in Tracked, NEW u \in Pos PROVE Listed(ir, v, u) = Bit(Names(ir, u, v))
  <2>1. ir.uses[v] = <<>>
    BY DEF UsesInit
  <2>2. u \notin Range(ir.uses[v])
    BY <2>1 DEF Range
  <2>3. Listed(ir, v, u) = 0
    BY <2>2, <1>1, ListedNat
  <2> QED BY <2>3, <1>2 DEF Names, Bit
<1>4. Good(ir)
  BY <1>1, <1>3 DEF Good, Matches, UsesInit
<1>5. Named(ir) = {} /\ Owners(ir) = {}
  BY <1>2 DEF Named, Owners
<1> QED BY <1>4, <1>5 DEF UsesInit, UsesInv, Proper

-----------------------------------------------------------------------------
(* Every operation keeps it *)

SamePlaces(s, t) == Operands(t) = Operands(s)

LEMMA ReplaceOperandPlaces ==
  ASSUME NEW s, NEW p, NEW a, Proper(s, p, a), NEW u \in Operands(s), NEW w \in Nameable(p, a),
         NEW r, r = ReplaceOperand(s, u, w, TRUE)
  PROVE  SamePlaces(s, r)
<1>1. Good(s) /\ w \in AnyValue
  BY NameableAny DEF Proper
<1>2. PICK yes \in BOOLEAN : yes = TRUE
  OBVIOUS
<1>3. PICK z : z = ReplaceOperand(s, u, w, yes)
  OBVIOUS
<1>4. PICK X : X = {u}
  OBVIOUS
<1>5. Substituted(s, z, X, w)
  BY <1>1, <1>3, <1>4, ReplaceOperandIs
<1>6. SamePlaces(s, z)
  BY <1>5 DEF Substituted, SamePlaces
<1>7. r = z
  BY <1>2, <1>3, Zenon
<1> QED BY <1>6, <1>7

Lengthened(s, t, i, k, w) == t = [s EXCEPT !.bbs[i][k].args = Append(@, w)]

LEMMA LengthenedIs ==
  ASSUME NEW s \in States, NEW i \in Instrs, NEW k \in DOMAIN s.bbs[i], NEW w,
         NEW t, Lengthened(s, t, i, k, w)
  PROVE  t.bbs[i][k].args = Append(s.bbs[i][k].args, w)
<1>1. PICK y : y = t
  OBVIOUS
<1>2. PICK q : q = Append(s.bbs[i][k].args, w)
  OBVIOUS
<1>3. PICK e : e = [s.bbs[i][k] EXCEPT !.args = q]
  OBVIOUS
<1>4. PICK p : p = [s.bbs[i] EXCEPT ![k] = e]
  OBVIOUS
<1>5. y = [s EXCEPT !.bbs[i] = p]
  BY <1>1, <1>2, <1>3, <1>4 DEF Lengthened
<1>6. y.bbs[i] = p
  BY <1>5 DEF States
<1>7. p[k] = e
  BY <1>4
<1>8. e.args = q
  BY <1>3, ShapeFacts DEF Target
<1> QED BY <1>1, <1>2, <1>6, <1>7, <1>8, Zenon

LEMMA AddArgKeeps ==
  ASSUME UsesInv, NEW i \in Instrs, NEW v \in LiveValues, AddArg(i, v)
  PROVE  UsesInv'
<1>1. PICK s : s = ir
  OBVIOUS
<1>2. Proper(s, parent, attached) /\ Good(s)
  BY <1>1 DEF UsesInv, Proper
<1>3. v \in Nameable(parent, attached) /\ v \in AnyValue /\ i \in Living(parent)
  BY <1>2, NameableIs, NameableAny DEF AddArg, Alive, Living
<1>4. PICK t : t = [s EXCEPT !.args[i] = Append(@, v)]
  OBVIOUS
<1>5. PICK r : r = AddUsage(t, v, Norm(i, Len(t.args[i])))
  OBVIOUS
<1>6. Added(s, r, i, v)
  BY <1>2, <1>3, <1>4, <1>5, AddArgIs
<1>7. Proper(r, parent, attached)
  BY <1>2, <1>3, <1>6, AddedProper
<1>8. ir' = r /\ UNCHANGED <<parent, attached>>
  BY <1>1, <1>4, <1>5 DEF AddArg
<1> QED BY <1>7, <1>8 DEF UsesInv

LEMMA AddBBKeeps ==
  ASSUME UsesInv, NEW i \in Instrs, NEW b \in Blocks, AddBB(i, b)
  PROVE  UsesInv'
<1>1. PICK s : s = ir
  OBVIOUS
<1>2. Proper(s, parent, attached) /\ Good(s)
  BY <1>1 DEF UsesInv, Proper
<1>3. b \in Nameable(parent, attached) /\ b \in AnyValue /\ i \in Living(parent)
  BY <1>2, NameableAny DEF AddBB, Alive, Living, Nameable
<1>4. PICK t : t = [s EXCEPT !.bbs[i] = Append(@, [bb |-> b, args |-> <<>>])]
  OBVIOUS
<1>5. PICK r : r = AddUsage(t, b, BB(i, Len(t.bbs[i])))
  OBVIOUS
<1>6. Added(s, r, i, b)
  BY <1>2, <1>3, <1>4, <1>5, AddBBIs
<1>7. Proper(r, parent, attached)
  BY <1>2, <1>3, <1>6, AddedProper
<1>8. ir' = r /\ UNCHANGED <<parent, attached>>
  BY <1>1, <1>4, <1>5 DEF AddBB
<1> QED BY <1>7, <1>8 DEF UsesInv

LEMMA AddBBArgKeeps ==
  ASSUME UsesInv, NEW i \in Instrs, NEW k, NEW v \in LiveValues, AddBBArg(i, k, v)
  PROVE  UsesInv'
<1>1. PICK s : s = ir
  OBVIOUS
<1>2. Proper(s, parent, attached) /\ Good(s) /\ k \in DOMAIN s.bbs[i]
  BY <1>1 DEF UsesInv, Proper, AddBBArg
<1>3. v \in Nameable(parent, attached) /\ v \in AnyValue /\ i \in Living(parent)
  BY <1>2, NameableIs, NameableAny DEF AddBBArg, Alive, Living
<1>4. PICK t : t = [s EXCEPT !.bbs[i][k].args = Append(@, v)]
  OBVIOUS
<1>5. PICK r : r = AddUsage(t, v, BBArg(i, k, Len(t.bbs[i][k].args)))
  OBVIOUS
<1>6. Added(s, r, i, v)
  BY <1>2, <1>3, <1>4, <1>5, AddBBArgIs
<1>7. Proper(r, parent, attached)
  BY <1>2, <1>3, <1>6, AddedProper
<1>8. ir' = r /\ UNCHANGED <<parent, attached>>
  BY <1>1, <1>4, <1>5 DEF AddBBArg
<1> QED BY <1>7, <1>8 DEF UsesInv

LEMMA ReplaceArgKeeps ==
  ASSUME UsesInv, NEW i \in Instrs, NEW k, NEW v \in LiveValues, ReplaceArg(i, k, v)
  PROVE  UsesInv'
<1>1. PICK s : s = ir
  OBVIOUS
<1>2. Proper(s, parent, attached) /\ s \in States /\ k \in DOMAIN s.args[i]
  BY <1>1 DEF UsesInv, Proper, Good, ReplaceArg
<1>3. v \in Nameable(parent, attached) /\ k \in Nat
  BY <1>2, NameableIs, ShapeFacts
<1>4. PICK u \in Operands(s) : u = Norm(i, k)
  BY <1>2, <1>3, NormHere
<1>5. PICK r : r = ReplaceOperand(s, u, v, TRUE)
  OBVIOUS
<1>6. Proper(r, parent, attached)
  BY <1>2, <1>3, <1>5, ReplaceOperandProper
<1>7. ir' = r /\ UNCHANGED <<parent, attached>>
  BY <1>1, <1>4, <1>5, Zenon DEF ReplaceArg
<1> QED BY <1>6, <1>7 DEF UsesInv

LEMMA ReplaceBBKeeps ==
  ASSUME UsesInv, NEW i \in Instrs, NEW k, NEW b \in Blocks, NEW keep \in BOOLEAN,
         ReplaceBB(i, k, b, keep)
  PROVE  UsesInv'
<1>1. PICK s : s = ir
  OBVIOUS
<1>2. Proper(s, parent, attached) /\ s \in States /\ k \in DOMAIN s.bbs[i]
  BY <1>1 DEF UsesInv, Proper, Good, ReplaceBB
<1>3. b \in Nameable(parent, attached) /\ k \in Nat
  BY <1>2, ShapeFacts DEF Nameable
<1>4. PICK u \in Operands(s) : u = BB(i, k)
  BY <1>2, <1>3, BBHere
<1>5. PICK r : r = ReplaceOperand(s, u, b, TRUE)
  OBVIOUS
<1>6. Proper(r, parent, attached) /\ SamePlaces(s, r)
  <2>1. Proper(r, parent, attached)
    BY <1>2, <1>3, <1>5, ReplaceOperandProper
  <2>2. SamePlaces(s, r)
    BY <1>2, <1>3, <1>5, ReplaceOperandPlaces
  <2> QED BY <2>1, <2>2
<1>7. k \in DOMAIN r.bbs[i]
  <2>1. u \in Operands(r) /\ r \in States
    BY <1>4, <1>6, NameableAny DEF SamePlaces
  <2> QED BY <2>1, <1>3, <1>4, BBHere
<1>8. PICK z : z = ClearBBArgs(r, i, k)
  OBVIOUS
<1>9. Good(z) /\ Within(r, z)
  BY <1>6, <1>7, <1>8, ClearBBArgsIs DEF Proper
<1>10. Proper(z, parent, attached)
  BY <1>6, <1>9, WithinProper
<1>11. UNCHANGED <<parent, attached>>
  BY DEF ReplaceBB
<1>12. ir' = r \/ ir' = z
  <2>1. ir' = IF keep \/ s.bbs[i][k].bb = b THEN r ELSE z
    BY <1>1, <1>4, <1>5, <1>8, Zenon DEF ReplaceBB
  <2> QED BY <2>1
<1> QED BY <1>6, <1>10, <1>11, <1>12 DEF UsesInv

LEMMA ReplaceBBArgKeeps ==
  ASSUME UsesInv, NEW i \in Instrs, NEW k, NEW a \in 1 .. MaxOperands, NEW v \in LiveValues,
         ReplaceBBArg(i, k, a, v)
  PROVE  UsesInv'
<1>1. PICK s : s = ir
  OBVIOUS
<1>2. /\ Proper(s, parent, attached) /\ Good(s) /\ s \in States /\ k \in DOMAIN s.bbs[i]
      /\ i \in Living(parent)
  BY <1>1 DEF UsesInv, Proper, Good, ReplaceBBArg, Alive, Living
<1>3. v \in Nameable(parent, attached) /\ k \in Nat /\ a \in Nat /\ a >= 1
  BY <1>2, NameableIs, ShapeFacts, MaxOperandsAssumption
<1>4. PICK q \in Seq(AnyValue) : q = s.bbs[i][k].args
  BY <1>2, ShapeFacts
<1>5. PICK w : w = Invalid
  OBVIOUS
<1>6. PICK t : t = [s EXCEPT !.bbs[i][k].args = Append(@, w)]
  OBVIOUS
<1>7. w \in Nameable(parent, attached) /\ w \in AnyValue /\ w \notin Tracked
  BY <1>5, KindsAssumption DEF Nameable, AnyValue, Tracked
<1>8. /\ Added(s, AddUsage(t, w, BBArg(i, k, Len(t.bbs[i][k].args))), i, w)
      /\ DOMAIN t.bbs[i] = DOMAIN s.bbs[i] /\ t.bbs[i][k].args = Append(q, w)
  <2>1. /\ Added(s, AddUsage(t, w, BBArg(i, k, Len(t.bbs[i][k].args))), i, w)
        /\ DOMAIN t.bbs[i] = DOMAIN s.bbs[i] /\ t.bbs[i][k].args = Append(s.bbs[i][k].args, w)
    <3>1. Good(s) /\ k \in DOMAIN s.bbs[i] /\ w \in AnyValue
      BY <1>2, <1>7
    <3>2. Added(s, AddUsage(t, w, BBArg(i, k, Len(t.bbs[i][k].args))), i, w)
      BY <3>1, <1>6, AddBBArgIs
    <3>3. DOMAIN t.bbs[i] = DOMAIN s.bbs[i]
      BY <3>1, <1>6, AddBBArgIs
    <3>4. t.bbs[i][k].args = Append(s.bbs[i][k].args, w)
      <4>1. Lengthened(s, t, i, k, w)
        BY <1>6 DEF Lengthened
      <4> QED BY <4>1, <3>1, <1>2, LengthenedIs
    <3> QED BY <3>2, <3>3, <3>4
  <2> QED BY <2>1, <1>4
<1>9. AddUsage(t, w, BBArg(i, k, Len(t.bbs[i][k].args))) = t
  BY <1>7 DEF AddUsage
<1>10. Added(s, t, i, w)
  BY <1>8, <1>9
<1>11. Proper(t, parent, attached)
  BY <1>2, <1>7, <1>10, AddedProper
<1>12. PICK y : y = IF a \in DOMAIN q THEN s ELSE t
  OBVIOUS
<1>13. Proper(y, parent, attached) /\ k \in DOMAIN y.bbs[i] /\ a \in DOMAIN y.bbs[i][k].args
  <2>1. CASE a \in DOMAIN q
    BY <2>1, <1>2, <1>4, <1>12
  <2>2. CASE a \notin DOMAIN q
    <3>1. a = Len(q) + 1
      <4>1. a > Len(q)
        BY <2>2, <1>3
      <4>2. a > Len(s.bbs[i][k].args) => a = Len(s.bbs[i][k].args) + 1
        BY <1>1 DEF ReplaceBBArg
      <4> QED BY <4>1, <4>2, <1>4
    <3>2. a \in DOMAIN Append(q, w)
      BY <3>1, <1>7
    <3> QED BY <2>2, <3>2, <1>2, <1>8, <1>11, <1>12
  <2> QED BY <2>1, <2>2
<1>14. PICK u \in Operands(y) : u = BBArg(i, k, a)
  BY <1>3, <1>13, NameableAny, BBArgHere
<1>15. PICK r : r = ReplaceOperand(y, u, v, TRUE)
  OBVIOUS
<1>16. Proper(r, parent, attached)
  BY <1>3, <1>13, <1>15, ReplaceOperandProper
<1>17. ir' = r /\ UNCHANGED <<parent, attached>>
  BY <1>1, <1>4, <1>5, <1>6, <1>12, <1>14, <1>15, Zenon DEF ReplaceBBArg
<1> QED BY <1>16, <1>17 DEF UsesInv

LEMMA RemoveArgKeeps ==
  ASSUME UsesInv, NEW i \in Instrs, NEW k, RemoveArg(i, k)
  PROVE  UsesInv'
<1>1. PICK s : s = ir
  OBVIOUS
<1>2. Proper(s, parent, attached) /\ Good(s) /\ k \in DOMAIN s.args[i]
  BY <1>1 DEF UsesInv, Proper, RemoveArg
<1>3. PICK behind : behind = [j \in 1 .. Len(s.args[i]) - k |-> Norm(i, k + j)]
  OBVIOUS
<1>4. PICK r : r = Relist(s, Moves(s, behind, 3) \o Drops(s, <<Norm(i, k)>>))
  OBVIOUS
<1>5. PICK t : t = [r EXCEPT !.args[i] = RemoveAt(@, k)]
  OBVIOUS
<1>6. Good(t) /\ Within(s, t)
  BY <1>2, <1>3, <1>4, <1>5, RemoveArgIs
<1>7. Proper(t, parent, attached)
  BY <1>2, <1>6, WithinProper
<1>8. ir' = t /\ UNCHANGED <<parent, attached>>
  BY <1>1, <1>3, <1>4, <1>5 DEF RemoveArg
<1> QED BY <1>7, <1>8 DEF UsesInv

LEMMA RemoveBBKeeps ==
  ASSUME UsesInv, NEW i \in Instrs, NEW k, RemoveBB(i, k)
  PROVE  UsesInv'
<1>1. PICK s : s = ir
  OBVIOUS
<1>2. Proper(s, parent, attached) /\ Good(s) /\ k \in DOMAIN s.bbs[i]
  BY <1>1 DEF UsesInv, Proper, RemoveBB
<1>3. PICK behind :
        behind = [j \in 1 .. Len(s.bbs[i]) - k |-> Moves(s, TargetUses(s, i, k + j), 3)]
  OBVIOUS
<1>4. PICK r : r = RelistEach(s, Append(behind, Drops(s, TargetUses(s, i, k))))
  OBVIOUS
<1>5. PICK t : t = [r EXCEPT !.bbs[i] = RemoveAt(@, k)]
  OBVIOUS
<1>6. Good(t) /\ Within(s, t)
  BY <1>2, <1>3, <1>4, <1>5, RemoveBBIs
<1>7. Proper(t, parent, attached)
  BY <1>2, <1>6, WithinProper
<1>8. ir' = t /\ UNCHANGED <<parent, attached>>
  BY <1>1, <1>3, <1>4, <1>5 DEF RemoveBB
<1> QED BY <1>7, <1>8 DEF UsesInv

LEMMA RemoveBBArgKeeps ==
  ASSUME UsesInv, NEW i \in Instrs, NEW k, NEW a, RemoveBBArg(i, k, a)
  PROVE  UsesInv'
<1>1. PICK s : s = ir
  OBVIOUS
<1>2. /\ Proper(s, parent, attached) /\ Good(s) /\ k \in DOMAIN s.bbs[i]
      /\ a \in DOMAIN s.bbs[i][k].args
  BY <1>1 DEF UsesInv, Proper, RemoveBBArg
<1>3. PICK behind :
        behind = [j \in 1 .. Len(s.bbs[i][k].args) - a |-> BBArg(i, k, a + j)]
  OBVIOUS
<1>4. PICK r : r = Relist(s, Moves(s, behind, 4) \o Drops(s, <<BBArg(i, k, a)>>))
  OBVIOUS
<1>5. PICK t : t = [r EXCEPT !.bbs[i][k].args = RemoveAt(@, a)]
  OBVIOUS
<1>6. Good(t) /\ Within(s, t)
  BY <1>2, <1>3, <1>4, <1>5, RemoveBBArgIs
<1>7. Proper(t, parent, attached)
  BY <1>2, <1>6, WithinProper
<1>8. ir' = t /\ UNCHANGED <<parent, attached>>
  BY <1>1, <1>3, <1>4, <1>5 DEF RemoveBBArg
<1> QED BY <1>7, <1>8 DEF UsesInv

LEMMA ReplaceAllUsesKeeps ==
  ASSUME UsesInv, NEW v \in Tracked, NEW w \in Nameable(parent, attached), ReplaceAllUses(v, w)
  PROVE  UsesInv'
<1>1. PICK s : s = ir
  OBVIOUS
<1>2. Proper(s, parent, attached)
  BY <1>1 DEF UsesInv
<1>3. PICK r : r = ReplaceEvery(s, v, w)
  OBVIOUS
<1>4. Proper(r, parent, attached)
  BY <1>2, <1>3, ReplaceEveryProper
<1>5. ir' = r /\ UNCHANGED <<parent, attached>>
  BY <1>1, <1>3 DEF ReplaceAllUses
<1> QED BY <1>4, <1>5 DEF UsesInv

LEMMA ReplaceUsesOutsideBlockKeeps ==
  ASSUME UsesInv, NEW v \in Tracked, NEW b, NEW w \in Nameable(parent, attached),
         ReplaceUsesOutsideBlock(v, b, w)
  PROVE  UsesInv'
<1>1. PICK s : s = ir
  OBVIOUS
<1>2. Proper(s, parent, attached) /\ Good(s)
  BY <1>1 DEF UsesInv, Proper
<1>3. PICK copy \in Seq(Pos) : copy = s.uses[v]
  BY <1>2, ListIs
<1>4. PICK outside : outside = {u \in Range(copy) : parent[u[1]] # b}
  OBVIOUS
<1>5. PICK yes \in BOOLEAN : yes = TRUE
  OBVIOUS
<1>6. PICK r : r = ReplaceUses(s, copy, outside, w, yes)
  OBVIOUS
<1>7. PICK X : X = Range(copy) \cap outside
  OBVIOUS
<1>8. X \subseteq Operands(s)
  BY <1>2, <1>3, <1>7, ListIs
<1>9. w \in AnyValue
  BY <1>2, NameableAny
<1>10. Good(r) /\ Substituted(s, r, X, w)
  BY <1>2, <1>6, <1>7, <1>8, <1>9, ReplaceUsesIs
<1>11. Proper(r, parent, attached)
  BY <1>2, <1>10, SubstitutedProper
<1>12. ir' = r /\ UNCHANGED <<parent, attached>>
  BY <1>1, <1>3, <1>4, <1>5, <1>6, Zenon DEF ReplaceUsesOutsideBlock
<1> QED BY <1>11, <1>12 DEF UsesInv

LEMMA DyingProper ==
  ASSUME NEW s, NEW p, NEW a, Proper(s, p, a), NEW i \in Instrs, NEW r, Good(r),
         Named(r) \subseteq (Named(s) \cup {Invalid}) \ {i}, Owners(r) \subseteq Owners(s),
         i \notin Owners(r), NEW q, q = [p EXCEPT ![i] = Nowhere]
  PROVE  Proper(r, q, a)
<1>1. q \in [Instrs -> Blocks \cup {Nowhere}] /\ Living(q) = Living(p) \ {i}
  BY DEF Proper, Living
<1>2. Nameable(p, a) \ {i} \subseteq Nameable(q, a) /\ Invalid \in Nameable(q, a)
  BY <1>1 DEF Nameable
<1> QED BY <1>1, <1>2 DEF Proper

LEMMA BornProper ==
  ASSUME NEW s, NEW p, NEW a, Proper(s, p, a), NEW j \in Instrs, NEW b \in Blocks, NEW r, Good(r),
         Named(r) \subseteq Named(s) \cup {j}, Owners(r) \subseteq Owners(s) \cup {j},
         NEW q, q = [p EXCEPT ![j] = b]
  PROVE  Proper(r, q, a)
<1>1. q \in [Instrs -> Blocks \cup {Nowhere}] /\ Living(q) = Living(p) \cup {j}
  BY KindsAssumption DEF Proper, Living
<1>2. Nameable(p, a) \cup {j} \subseteq Nameable(q, a)
  BY <1>1 DEF Nameable
<1> QED BY <1>1, <1>2 DEF Proper

LEMMA RemoveInstrKeeps ==
  ASSUME UsesInv, NEW i \in Instrs, RemoveInstr(i)
  PROVE  UsesInv'
<1>1. PICK s : s = ir
  OBVIOUS
<1>2. Proper(s, parent, attached) /\ Good(s) /\ i \in Tracked
  BY <1>1 DEF UsesInv, Proper, Tracked
<1>3. PICK t : t = ReplaceEvery(s, i, Invalid)
  OBVIOUS
<1>4. /\ Good(t) /\ Named(t) \subseteq (Named(s) \cup {Invalid}) \ {i}
      /\ Owners(t) = Owners(s)
  BY <1>2, <1>3, ForgottenIs
<1>5. PICK r : r = ClearBBs(ClearArgs(t, i), i)
  OBVIOUS
<1>6. Good(r) /\ Within(t, r) /\ i \notin Owners(r)
  BY <1>4, <1>5, CleanedIs
<1>7. PICK p : p = [parent EXCEPT ![i] = Nowhere]
  OBVIOUS
<1>8. Proper(r, p, attached)
  BY <1>2, <1>4, <1>6, <1>7, DyingProper DEF Within
<1>9. ir' = r /\ parent' = p /\ attached' = attached
  BY <1>1, <1>3, <1>5, <1>7 DEF RemoveInstr
<1> QED BY <1>8, <1>9 DEF UsesInv

LEMMA DestroyKeeps ==
  ASSUME UsesInv, NEW i \in Instrs, Destroy(i)
  PROVE  UsesInv'
<1>1. PICK s : s = ir
  OBVIOUS
<1>2. Proper(s, parent, attached) /\ Good(s) /\ i \in Tracked
  BY <1>1 DEF UsesInv, Proper, Tracked
<1>3. PICK t : t = ClearBBs(ClearArgs(s, i), i)
  OBVIOUS
<1>4. Good(t) /\ Within(s, t) /\ i \notin Owners(t)
  BY <1>2, <1>3, CleanedIs
<1>5. PICK r : r = ReplaceEvery(t, i, Invalid)
  OBVIOUS
<1>6. /\ Good(r) /\ Named(r) \subseteq (Named(t) \cup {Invalid}) \ {i}
      /\ Owners(r) = Owners(t)
  BY <1>2, <1>4, <1>5, ForgottenIs
<1>7. PICK p : p = [parent EXCEPT ![i] = Nowhere]
  OBVIOUS
<1>8. Proper(r, p, attached)
  BY <1>2, <1>4, <1>6, <1>7, DyingProper DEF Within
<1>9. ir' = r /\ parent' = p /\ attached' = attached
  BY <1>1, <1>3, <1>5, <1>7 DEF Destroy
<1> QED BY <1>8, <1>9 DEF UsesInv

LEMMA RemoveBlockArgKeeps ==
  ASSUME UsesInv, NEW q \in BlockArgs, RemoveBlockArg(q)
  PROVE  UsesInv'
<1>1. PICK s : s = ir
  OBVIOUS
<1>2. Proper(s, parent, attached) /\ Good(s) /\ q \in Tracked
  BY <1>1 DEF UsesInv, Proper, Tracked
<1>3. PICK r : r = ReplaceEvery(s, q, Invalid)
  OBVIOUS
<1>4. /\ Good(r) /\ Named(r) \subseteq (Named(s) \cup {Invalid}) \ {q}
      /\ Owners(r) = Owners(s)
  BY <1>2, <1>3, ForgottenIs
<1>5. PICK a : a = attached \ {q}
  OBVIOUS
<1>6. Nameable(parent, attached) \ {q} \subseteq Nameable(parent, a)
  BY <1>5 DEF Nameable
<1>7. Proper(r, parent, a)
  BY <1>2, <1>4, <1>5, <1>6 DEF Proper, Nameable
<1>8. ir' = r /\ parent' = parent /\ attached' = a
  BY <1>1, <1>3, <1>5 DEF RemoveBlockArg
<1> QED BY <1>7, <1>8 DEF UsesInv

LEMMA NewInstrKeeps ==
  ASSUME UsesInv, NEW i \in Instrs, NEW b \in Blocks, NewInstr(i, b)
  PROVE  UsesInv'
<1>1. PICK s : s = ir
  OBVIOUS
<1>2. Proper(s, parent, attached) /\ Good(s)
  BY <1>1 DEF UsesInv, Proper
<1>3. PICK p : p = [parent EXCEPT ![i] = b]
  OBVIOUS
<1>4. Named(s) \subseteq Named(s) \cup {i} /\ Owners(s) \subseteq Owners(s) \cup {i}
  OBVIOUS
<1>5. Proper(s, p, attached)
  BY <1>2, <1>3, <1>4, BornProper
<1>6. ir' = s /\ parent' = p /\ attached' = attached
  BY <1>1, <1>3 DEF NewInstr
<1> QED BY <1>5, <1>6 DEF UsesInv

LEMMA CopyInstrKeeps ==
  ASSUME UsesInv, NEW i \in Instrs, NEW j \in Instrs, NEW b \in Blocks, CopyInstr(i, j, b)
  PROVE  UsesInv'
<1>1. PICK s0 : s0 = ir
  OBVIOUS
<1>2. Proper(s0, parent, attached) /\ Good(s0)
  BY <1>1 DEF UsesInv, Proper
<1>3. i # j /\ j \notin Owners(s0)
  BY <1>2 DEF CopyInstr, Proper, Alive, Living
<1>4. PICK r : r = ir'
  OBVIOUS
<1>5. Copies(s0, r, i, j)
  <2>1. Copies(ir, ir', i, j)
    BY Zenon DEF CopyInstr, Copies, CopiedShape, CopiedLists, OwnOperands
  <2> QED BY <2>1, <1>1, <1>4, Zenon
<1>8. /\ Good(r) /\ Named(r) \subseteq Named(s0) \cup {j}
      /\ Owners(r) \subseteq Owners(s0) \cup {j}
  BY <1>2, <1>3, <1>5, CopyInstrIs
<1>9. PICK p : p = [parent EXCEPT ![j] = b]
  OBVIOUS
<1>10. Proper(r, p, attached)
  BY <1>2, <1>8, <1>9, BornProper
<1>11. parent' = p /\ attached' = attached
  BY <1>9 DEF CopyInstr
<1> QED BY <1>4, <1>10, <1>11 DEF UsesInv

LEMMA UsesStep ==
  ASSUME UsesInv, [UsesNext]_usesVars
  PROVE  UsesInv'
<1>1. Nameable(parent, attached) = LiveValues \cup Blocks \cup {Invalid}
  BY NameableIs
<1>2. CASE UNCHANGED usesVars
  BY <1>2 DEF usesVars, UsesInv
<1>3. CASE \E i \in Instrs, b \in Blocks : NewInstr(i, b)
  BY <1>3, NewInstrKeeps
<1>4. CASE \E i \in Instrs, v \in LiveValues : AddArg(i, v)
  BY <1>4, AddArgKeeps
<1>5. CASE \E i \in Instrs, b \in Blocks : AddBB(i, b)
  BY <1>5, AddBBKeeps
<1>6. CASE \E i \in Instrs, k \in 1 .. MaxOperands, v \in LiveValues : AddBBArg(i, k, v)
  BY <1>6, AddBBArgKeeps
<1>7. CASE \E i \in Instrs, k \in 1 .. MaxOperands, v \in LiveValues : ReplaceArg(i, k, v)
  BY <1>7, ReplaceArgKeeps
<1>8. CASE \E i \in Instrs, k \in 1 .. MaxOperands, b \in Blocks, keep \in BOOLEAN :
             ReplaceBB(i, k, b, keep)
  BY <1>8, ReplaceBBKeeps
<1>9. CASE \E i \in Instrs, k, a \in 1 .. MaxOperands, v \in LiveValues :
             ReplaceBBArg(i, k, a, v)
  BY <1>9, ReplaceBBArgKeeps
<1>10. CASE \E i \in Instrs, k \in 1 .. MaxOperands : RemoveArg(i, k)
  BY <1>10, RemoveArgKeeps
<1>11. CASE \E i \in Instrs, k \in 1 .. MaxOperands : RemoveBB(i, k)
  BY <1>11, RemoveBBKeeps
<1>12. CASE \E i \in Instrs, k, a \in 1 .. MaxOperands : RemoveBBArg(i, k, a)
  BY <1>12, RemoveBBArgKeeps
<1>13. CASE \E v \in Instrs \cup BlockArgs, w \in LiveValues : ReplaceAllUses(v, w)
  BY <1>13, <1>1, ReplaceAllUsesKeeps DEF Tracked
<1>14. CASE \E v \in Instrs \cup BlockArgs, b \in Blocks, w \in LiveValues :
              ReplaceUsesOutsideBlock(v, b, w)
  BY <1>14, <1>1, ReplaceUsesOutsideBlockKeeps DEF Tracked
<1>15. CASE \E b, c \in Blocks : ReplaceAllUses(b, c)
  BY <1>15, <1>1, ReplaceAllUsesKeeps DEF Tracked
<1>16. CASE \E i \in Instrs : RemoveInstr(i)
  BY <1>16, RemoveInstrKeeps
<1>17. CASE \E i \in Instrs : Destroy(i)
  BY <1>17, DestroyKeeps
<1>18. CASE \E p \in BlockArgs : RemoveBlockArg(p)
  BY <1>18, RemoveBlockArgKeeps
<1>19. CASE \E i, j \in Instrs, b \in Blocks : CopyInstr(i, j, b)
  BY <1>19, CopyInstrKeeps
<1> QED
  BY <1>2, <1>3, <1>4, <1>5, <1>6, <1>7, <1>8, <1>9, <1>10, <1>11, <1>12, <1>13, <1>14,
     <1>15, <1>16, <1>17, <1>18, <1>19 DEF UsesNext

LEMMA ListsMatch ==
  ASSUME UsesInv
  PROVE  UsesMatchOperands
<1>1. PICK s : s = ir
  OBVIOUS
<1>2. Proper(s, parent, attached) /\ Good(s)
  BY <1>1 DEF UsesInv, Proper
<1>3. NoUseOfTheDead
  BY <1>1, <1>2, NameableIs DEF NoUseOfTheDead, Proper, Named
<1>4. ~ir.missing
  BY <1>1, <1>2 DEF Good
<1>5. ASSUME NEW v \in Tracked
      PROVE  /\ IsInjective(ir.uses[v])
             /\ Range(ir.uses[v]) = {u \in Operands(ir) : ValueAt(ir, u) = v}
  BY <1>1, <1>2, ListIs
<1> QED BY <1>3, <1>4, <1>5 DEF UsesMatchOperands

\* After ReplaceEvery(s, v, w) nothing names v, and the other operands are as before.
Replaced(s, r, v) ==
  /\ r.uses[v] = <<>>
  /\ Operands(r) = Operands(s)
  /\ \A u \in Operands(s) : ValueAt(s, u) # v => ValueAt(r, u) = ValueAt(s, u)

LEMMA ReplaceEveryReplaces ==
  ASSUME NEW s, Good(s), NEW v \in Tracked, NEW w \in AnyValue, v # w
  PROVE  Replaced(s, ReplaceEvery(s, v, w), v)
<1>1. PICK X : X = {u \in Operands(s) : ValueAt(s, u) = v}
  OBVIOUS
<1>2. PICK r : r = ReplaceEvery(s, v, w)
  OBVIOUS
<1>3. Good(r) /\ Substituted(s, r, X, w)
  BY <1>1, <1>2, ReplaceEveryIs
<1>4. PICK q \in Seq(Pos) : q = r.uses[v]
  BY <1>3, ListIs
<1>5. \A u \in Operands(r) : ValueAt(r, u) # v
  BY <1>1, <1>3 DEF Substituted
<1>6. Range(q) = {}
  <2>1. Range(r.uses[v]) = {u \in Operands(r) : ValueAt(r, u) = v}
    BY <1>3, ListIs
  <2> QED BY <2>1, <1>4, <1>5
<1>7. q = <<>>
  <2>1. DOMAIN q = {}
    BY <1>6 DEF Range
  <2>2. PICK n \in Nat : n = Len(q) /\ DOMAIN q = 1 .. n
    BY <1>4
  <2>3. n = 0
    BY <2>1, <2>2
  <2> QED BY <2>2, <2>3, <1>4, EmptySeq
<1>8. /\ Operands(r) = Operands(s)
      /\ \A u \in Operands(s) : ValueAt(s, u) # v => ValueAt(r, u) = ValueAt(s, u)
  BY <1>1, <1>3 DEF Substituted
<1>9. Replaced(s, r, v)
  BY <1>4, <1>7, <1>8 DEF Replaced
<1> QED BY <1>2, <1>9

\* The list of every value holds each operand that names it, once, and no other,
\* and no operand names a value that is gone, in every program of any size: the
\* use lists of ir/use.cpp agree with the operands through every operation of
\* ir/instruction.cpp, and the assertion of remove_usage never fails.
THEOREM UseListsMatchOperands == UsesSpec => []UsesMatchOperands
<1>1. UsesInit => UsesInv
  BY InitProper
<1>2. UsesInv /\ [UsesNext]_usesVars => UsesInv'
  BY UsesStep
<1>3. UsesInv => UsesMatchOperands
  BY ListsMatch
<1> QED BY <1>1, <1>2, <1>3, PTL DEF UsesSpec

\* replace_all_uses empties the list of the value it replaces and leaves every
\* operand that named another value as it was.
THEOREM ReplacesEveryUse == UsesSpec => ReplaceIsTotal
<1>1. UsesInit => UsesInv
  BY InitProper
<1>2. UsesInv /\ [UsesNext]_usesVars => UsesInv'
  BY UsesStep
<1> DEFINE Step ==
      \A v \in Instrs \cup BlockArgs, w \in LiveValues :
        (v # w /\ ReplaceAllUses(v, w)) =>
          /\ ir'.uses[v] = <<>>
          /\ Operands(ir') = Operands(ir)
          /\ \A u \in Operands(ir) :
               ValueAt(ir, u) # v => ValueAt(ir', u) = ValueAt(ir, u)
<1>3. UsesInv => Step
  <2> SUFFICES ASSUME UsesInv, NEW v \in Instrs \cup BlockArgs, NEW w \in LiveValues,
                      v # w, ReplaceAllUses(v, w)
               PROVE  /\ ir'.uses[v] = <<>>
                      /\ Operands(ir') = Operands(ir)
                      /\ \A u \in Operands(ir) :
                           ValueAt(ir, u) # v => ValueAt(ir', u) = ValueAt(ir, u)
    OBVIOUS
  <2>1. PICK s : s = ir
    OBVIOUS
  <2>2. Proper(s, parent, attached) /\ Good(s) /\ v \in Tracked
    BY <2>1 DEF UsesInv, Proper, Tracked
  <2>3. w \in AnyValue
    BY <2>2, NameableIs, NameableAny
  <2>4. PICK r : r = ReplaceEvery(s, v, w)
    OBVIOUS
  <2>5. Replaced(s, r, v)
    BY <2>2, <2>3, <2>4, ReplaceEveryReplaces
  <2>6. ir' = r
    BY <2>1, <2>4 DEF ReplaceAllUses
  <2> QED BY <2>1, <2>5, <2>6 DEF Replaced
<1> QED BY <1>1, <1>2, <1>3, PTL DEF UsesSpec, ReplaceIsTotal
=============================================================================
