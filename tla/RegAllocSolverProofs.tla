------------------------- MODULE RegAllocSolverProofs -------------------------
(***************************************************************************)
(* The register allocator's solver keeps its graph consistent, never gives *)
(* two values that interfere one register, and colours a graph that only   *)
(* degree one and two reductions took apart at minimal cost, for any       *)
(* graph, costs, registers and copies.                                     *)
(***************************************************************************)
EXTENDS RegAllocSolver, FiniteSetTheorems, WellFoundedInduction, TLAPS

----------------------------------------------------------------------------
(* Folds over finite sets.  Induction over subsets: a set of finite sets has a *)
(* minimal element.                                                        *)

LEMMA MinimalSet ==
  ASSUME NEW S, IsFiniteSet(S), NEW T \in SUBSET SUBSET S, T # {}
  PROVE  \E x \in T : \A y \in T : y \subseteq x => y = x
<1>1. T \subseteq FiniteSubsetsOf(S)
  BY FS_Subset DEF FiniteSubsetsOf
<1>2. PICK x \in T : \A y \in T : ~(<<y, x>> \in StrictSubsetOrdering(S))
  BY <1>1, FS_StrictSubsetOrderingWellFounded, WFMin, Zenon
<1>3. ASSUME NEW y \in T, y \subseteq x, y # x PROVE FALSE
  <2>1. <<y, x>> \in StrictSubsetOrdering(S)
    BY <1>3 DEF StrictSubsetOrdering
  <2> QED BY <2>1, <1>2
<1> QED BY <1>3

\* A solution of the recursion of a fold on the subsets of U: ch names the element
\* that is taken last.
Solves(g, U, base, ch, f) ==
  \A s \in SUBSET U :
    g[s] = IF s = {} THEN base ELSE f[<<ch[s], g[s \ {ch[s]}]>>]

\* Two solutions agree where both are defined.
LEMMA SolutionUnique ==
  ASSUME NEW S, IsFiniteSet(S), NEW base, NEW ch, NEW f,
         \A s \in SUBSET S : s # {} => ch[s] \in s,
         NEW U \in SUBSET S, NEW V \in SUBSET S, NEW g, NEW h,
         Solves(g, U, base, ch, f), Solves(h, V, base, ch, f),
         NEW t \in SUBSET (U \cap V)
  PROVE  g[t] = h[t]
<1> DEFINE Bad == {s \in SUBSET (U \cap V) : g[s] # h[s]}
<1> SUFFICES ASSUME Bad # {} PROVE FALSE
  OBVIOUS
<1>1. PICK s \in Bad : \A y \in Bad : y \subseteq s => y = s
  <2>1. Bad \in SUBSET SUBSET S
    OBVIOUS
  <2> HIDE DEF Bad
  <2> QED BY <2>1, MinimalSet
<1>2. s \in SUBSET U /\ s \in SUBSET V /\ s \in SUBSET S
  OBVIOUS
<1>3. s # {}
  BY <1>1, <1>2 DEF Solves
<1>4. PICK r : r = s \ {ch[s]}
  OBVIOUS
<1>5. r \subseteq s /\ r # s
  BY <1>2, <1>3, <1>4
<1>6. g[r] = h[r]
  BY <1>1, <1>5
<1>7. g[s] = f[<<ch[s], g[r]>>] /\ h[s] = f[<<ch[s], h[r]>>]
  BY <1>2, <1>3, <1>4 DEF Solves
<1> QED BY <1>1, <1>6, <1>7

\* The recursion of a fold has a solution.
LEMMA SolutionExists ==
  ASSUME NEW S, IsFiniteSet(S), NEW A, NEW base \in A, NEW ch, NEW f \in [S \X A -> A],
         \A s \in SUBSET S : s # {} => ch[s] \in s
  PROVE  \E g \in [SUBSET S -> A] : Solves(g, S, base, ch, f)
<1> DEFINE Good(s) == \E g \in [SUBSET s -> A] : Solves(g, s, base, ch, f)
<1> DEFINE Bad == {s \in SUBSET S : ~Good(s)}
<1>1. SUFFICES ASSUME Bad # {} PROVE FALSE
  OBVIOUS
<1>2. PICK s \in Bad : \A y \in Bad : y \subseteq s => y = s
  <2>1. Bad \in SUBSET SUBSET S
    OBVIOUS
  <2> HIDE DEF Bad
  <2> QED BY <2>1, <1>1, MinimalSet
<1>3. \A t \in SUBSET s : t # s => Good(t)
  BY <1>2
<1> DEFINE G(t) == CHOOSE g : g \in [SUBSET t -> A] /\ Solves(g, t, base, ch, f)
<1>4. ASSUME NEW t \in SUBSET s, t # s
      PROVE  G(t) \in [SUBSET t -> A] /\ Solves(G(t), t, base, ch, f)
  BY <1>3, <1>4, Zenon
<1>5. ASSUME NEW t \in SUBSET s, t # s, NEW u \in SUBSET t
      PROVE  G(t)[u] = G(u)[u]
  <2>1. u \in SUBSET s /\ u # s
    BY <1>5
  <2> HIDE DEF G
  <2>2. Solves(G(t), t, base, ch, f) /\ Solves(G(u), u, base, ch, f)
    BY <1>4, <1>5, <2>1
  <2> QED BY <2>2, SolutionUnique, <1>5, s \in SUBSET S
<1> HIDE DEF G
<1>6. PICK last : last = IF s = {} THEN base ELSE f[<<ch[s], G(s \ {ch[s]})[s \ {ch[s]}]>>]
  OBVIOUS
<1>7. last \in A
  <2>1. CASE s = {}
    BY <2>1, <1>6
  <2>2. CASE s # {}
    <3>1. PICK r : r = s \ {ch[s]}
      OBVIOUS
    <3>2. ch[s] \in s /\ r \in SUBSET s /\ r # s
      BY <2>2, <3>1
    <3>3. G(r)[r] \in A
      BY <1>4, <3>2
    <3> QED BY <1>6, <2>2, <3>1, <3>2, <3>3
  <2> QED BY <2>1, <2>2
<1>8. PICK h : h = [t \in SUBSET s |-> IF t = s THEN last ELSE G(t)[t]]
  OBVIOUS
<1>9. h \in [SUBSET s -> A]
  <2>1. \A t \in SUBSET s : t # s => G(t)[t] \in A
    BY <1>4
  <2> QED BY <2>1, <1>7, <1>8
<1>10. ASSUME NEW t \in SUBSET s
       PROVE  h[t] = IF t = {} THEN base ELSE f[<<ch[t], h[t \ {ch[t]}]>>]
  <2>1. PICK r : r = t \ {ch[t]}
    OBVIOUS
  <2>2. t # {} => r \in SUBSET t /\ r # t /\ r # s /\ r \in SUBSET s
    BY <2>1
  <2>3. t # {} => h[r] = G(r)[r]
    BY <2>2, <1>8
  <2>4. CASE t = s
    BY <2>1, <2>3, <2>4, <1>6, <1>8
  <2>5. CASE t # s
    <3>1. h[t] = G(t)[t]
      BY <2>5, <1>8
    <3>2. G(t)[t] = IF t = {} THEN base ELSE f[<<ch[t], G(t)[r]>>]
      BY <1>4, <2>5, <2>1 DEF Solves
    <3>3. t # {} => G(t)[r] = G(r)[r]
      BY <1>5, <2>5, <2>2
    <3> QED BY <3>1, <3>2, <3>3, <2>1, <2>3
  <2> QED BY <2>4, <2>5
<1>11. Good(s)
  BY <1>9, <1>10 DEF Solves
<1> QED BY <1>2, <1>11

\* A finite set of integers has a greatest one.
LEMMA MaxOf ==
  ASSUME NEW S \in SUBSET Int, IsFiniteSet(S), S # {}
  PROVE  Max(S) \in S /\ \A y \in S : Max(S) >= y
<1> DEFINE HasMax(s) == \E x \in s : \A y \in s : x >= y
<1> DEFINE Bad == {s \in SUBSET S : s # {} /\ ~HasMax(s)}
<1>1. HasMax(S)
  <2> SUFFICES ASSUME Bad # {} PROVE FALSE
    OBVIOUS
  <2>1. PICK s \in Bad : \A y \in Bad : y \subseteq s => y = s
    <3>1. PICK I : I = S
      OBVIOUS
    <3>2. Bad \in SUBSET SUBSET I /\ IsFiniteSet(I)
      BY <3>1
    <3> HIDE DEF Bad
    <3> QED BY <3>2, MinimalSet
  <2>2. PICK e \in s : TRUE
    OBVIOUS
  <2>3. PICK r : r = s \ {e}
    OBVIOUS
  <2>4. r # {}
    BY <2>2, <2>3
  <2>5. r \notin Bad
    BY <2>1, <2>2, <2>3
  <2>6. PICK x \in r : \A y \in r : x >= y
    BY <2>3, <2>4, <2>5
  <2>7. e \in Int /\ x \in Int /\ \A y \in s : y \in Int
    BY <2>3
  <2>8. CASE e >= x
    <3>1. \A y \in s : e >= y
      BY <2>3, <2>6, <2>7, <2>8
    <3> QED BY <3>1
  <2>9. CASE ~(e >= x)
    <3>1. \A y \in s : x >= y
      BY <2>3, <2>6, <2>7, <2>9
    <3> QED BY <3>1, <2>3
  <2> QED BY <2>8, <2>9
<1> QED BY <1>1, Zenon DEF Max

\* Keeping adds an element of the list after the other, or passes over it.
AddsEach(g, list, K) ==
  /\ Keeping(list, K) = g[DOMAIN list]
  /\ g[{}] = <<>>
  /\ \A s \in SUBSET DOMAIN list : s # {} =>
       \E x \in s : g[s] = IF list[x] \in K THEN Append(g[s \ {x}], list[x])
                           ELSE g[s \ {x}]

LEMMA KeepingSteps ==
  ASSUME NEW N, NEW list \in Seq(N), NEW K
  PROVE  \E g \in [SUBSET DOMAIN list -> Seq(N)] : AddsEach(g, list, K)
<1> DEFINE D == 1 .. Len(list)
           P(g) == g = [s \in SUBSET D |->
                          IF s = {} THEN <<>>
                          ELSE IF list[Max(s)] \in K
                               THEN Append(g[s \ {Max(s)}], list[Max(s)])
                               ELSE g[s \ {Max(s)}]]
<1>1. Keeping(list, K) = (CHOOSE g : P(g))[D]
  <2>1. DOMAIN list = D
    OBVIOUS
  <2> QED BY <2>1, Zenon DEF Keeping, FoldLeft, MapThenFoldSet
<1>2. PICK ch : ch = [s \in SUBSET D |-> Max(s)]
  OBVIOUS
<1>3. PICK f : f = [p \in D \X Seq(N) |-> IF list[p[1]] \in K THEN Append(p[2], list[p[1]])
                                          ELSE p[2]]
  OBVIOUS
<1>4. \A s \in SUBSET D : s # {} => ch[s] \in s /\ ch[s] = Max(s)
  <2>1. ASSUME NEW s \in SUBSET D, s # {} PROVE Max(s) \in s
    <3>1. s \in SUBSET Int /\ IsFiniteSet(s)
      <4>1. IsFiniteSet(D)
        BY FS_Interval
      <4>2. D \subseteq Int
        OBVIOUS
      <4> HIDE DEF D
      <4> QED BY <4>1, <4>2, FS_Subset
    <3> QED BY <2>1, <3>1, MaxOf
  <2> QED BY <1>2, <2>1
<1>5. f \in [D \X Seq(N) -> Seq(N)]
  BY <1>3
<1>6. PICK g \in [SUBSET D -> Seq(N)] : Solves(g, D, <<>>, ch, f)
  <2>1. IsFiniteSet(D) /\ <<>> \in Seq(N)
    BY FS_Interval
  <2> QED BY <2>1, <1>4, <1>5, SolutionExists
<1>7. ASSUME NEW s \in SUBSET D, s # {}
      PROVE  f[<<ch[s], g[s \ {ch[s]}]>>] =
               IF list[Max(s)] \in K THEN Append(g[s \ {Max(s)}], list[Max(s)])
               ELSE g[s \ {Max(s)}]
  <2>1. PICK x : x = Max(s)
    OBVIOUS
  <2>2. x = ch[s] /\ x \in D
    BY <1>4, <1>7, <2>1
  <2>3. PICK q : q = g[s \ {x}]
    OBVIOUS
  <2>4. q \in Seq(N)
    BY <2>3
  <2>5. f[<<x, q>>] = IF list[x] \in K THEN Append(q, list[x]) ELSE q
    BY <1>3, <2>2, <2>4
  <2> QED BY <2>1, <2>2, <2>3, <2>5
<1>8. P(g)
  <2>1. \A s \in SUBSET D :
          g[s] = IF s = {} THEN <<>>
                 ELSE IF list[Max(s)] \in K THEN Append(g[s \ {Max(s)}], list[Max(s)])
                 ELSE g[s \ {Max(s)}]
    BY <1>6, <1>7 DEF Solves
  <2>2. g = [s \in SUBSET D |-> g[s]]
    OBVIOUS
  <2> QED BY <2>1, <2>2, Zenon
<1>9. PICK h : h = CHOOSE k : P(k)
  OBVIOUS
<1>10. P(h)
  BY <1>8, <1>9, Zenon
<1>11. \A s \in SUBSET D :
          h[s] = IF s = {} THEN <<>>
                 ELSE IF list[Max(s)] \in K THEN Append(h[s \ {Max(s)}], list[Max(s)])
                 ELSE h[s \ {Max(s)}]
  BY <1>10, Zenon
<1> HIDE DEF P
<1>12. \A s \in SUBSET D : g[s] = h[s]
  <2> DEFINE Bad == {s \in SUBSET D : g[s] # h[s]}
  <2> SUFFICES ASSUME Bad # {} PROVE FALSE
    OBVIOUS
  <2>1. PICK s \in Bad : \A y \in Bad : y \subseteq s => y = s
    <3>1. PICK I : I = D
      OBVIOUS
    <3>2. Bad \in SUBSET SUBSET I /\ IsFiniteSet(I)
      BY <3>1, FS_Interval
    <3> HIDE DEF Bad
    <3> QED BY <3>2, MinimalSet
  <2>2. PICK x : x = Max(s)
    OBVIOUS
  <2>3. PICK r : r = s \ {x}
    OBVIOUS
  <2>4. s \in SUBSET D /\ r \in SUBSET D
    BY <2>1, <2>3
  <2>5. g[s] = IF s = {} THEN <<>>
               ELSE IF list[x] \in K THEN Append(g[r], list[x]) ELSE g[r]
    BY <1>8, <2>2, <2>3, <2>4, Zenon DEF P
  <2>6. h[s] = IF s = {} THEN <<>>
               ELSE IF list[x] \in K THEN Append(h[r], list[x]) ELSE h[r]
    BY <1>11, <2>2, <2>3, <2>4, Zenon
  <2>7. s # {}
    BY <2>1, <2>5, <2>6
  <2>8. r # s /\ r \subseteq s
    BY <1>4, <2>2, <2>3, <2>4, <2>7
  <2>9. g[r] = h[r]
    BY <2>1, <2>4, <2>8
  <2> QED BY <2>1, <2>5, <2>6, <2>9
<1>13. Keeping(list, K) = g[D]
  BY <1>1, <1>9, <1>12
<1>14. g[{}] = <<>>
  BY <1>6 DEF Solves
<1>15. ASSUME NEW s \in SUBSET D, s # {}
       PROVE  \E x \in s : g[s] = IF list[x] \in K THEN Append(g[s \ {x}], list[x])
                                  ELSE g[s \ {x}]
  <2>1. ch[s] \in s /\ ch[s] = Max(s)
    BY <1>4, <1>15
  <2>2. g[s] = f[<<ch[s], g[s \ {ch[s]}]>>]
    BY <1>6, <1>15 DEF Solves
  <2> QED BY <1>7, <1>15, <2>1, <2>2, Zenon
<1>16. DOMAIN list = D
  OBVIOUS
<1> QED BY <1>13, <1>14, <1>15, <1>16 DEF AddsEach

\* Appending to a list without repetition something that is not in it.
LEMMA AppendDistinct ==
  ASSUME NEW N, NEW q \in Seq(N), NEW e \in N
  PROVE  /\ Range(Append(q, e)) = Range(q) \cup {e}
         /\ IsInjective(q) /\ e \notin Range(q) => IsInjective(Append(q, e))
<1>1. PICK a : a = Append(q, e)
  OBVIOUS
<1>2. /\ DOMAIN a = 1 .. Len(q) + 1 /\ DOMAIN q = 1 .. Len(q) /\ Len(q) \in Nat
      /\ \A i \in 1 .. Len(q) : a[i] = q[i]
      /\ a[Len(q) + 1] = e
  BY <1>1
<1>3. Range(a) = Range(q) \cup {e}
  <2>1. Range(a) \subseteq Range(q) \cup {e}
    BY <1>2 DEF Range
  <2>2. Range(q) \subseteq Range(a) /\ e \in Range(a)
    BY <1>2 DEF Range
  <2> QED BY <2>1, <2>2
<1>4. ASSUME IsInjective(q), e \notin Range(q) PROVE IsInjective(a)
  <2>1. \A i \in 1 .. Len(q) : a[i] # e
    BY <1>2, <1>4 DEF Range
  <2> SUFFICES ASSUME NEW i \in DOMAIN a, NEW j \in DOMAIN a, a[i] = a[j] PROVE i = j
    BY DEF IsInjective
  <2>2. CASE i = Len(q) + 1
    BY <2>1, <2>2, <1>2
  <2>3. CASE j = Len(q) + 1
    BY <2>1, <2>3, <1>2
  <2>4. CASE i # Len(q) + 1 /\ j # Len(q) + 1
    <3>1. i \in DOMAIN q /\ j \in DOMAIN q /\ q[i] = q[j]
      BY <2>4, <1>2
    <3> QED BY <3>1, <1>4 DEF IsInjective
  <2> QED BY <2>2, <2>3, <2>4
<1> QED BY <1>1, <1>3, <1>4

\* What Keeping keeps: the elements that are in K, without repetition if the
\* list has none.
LEMMA KeepingList ==
  ASSUME NEW N, NEW list \in Seq(N), NEW K
  PROVE  /\ Keeping(list, K) \in Seq(N)
         /\ Range(Keeping(list, K)) = Range(list) \cap K
         /\ IsInjective(list) => IsInjective(Keeping(list, K))
<1> DEFINE Image(s) == {list[i] : i \in s}
<1>1. PICK D : D = 1 .. Len(list)
  OBVIOUS
<1>2. IsFiniteSet(D) /\ DOMAIN list = D
  BY <1>1, FS_Interval
<1>3. PICK g \in [SUBSET D -> Seq(N)] : AddsEach(g, list, K)
  BY <1>2, KeepingSteps
<1> DEFINE Kept(s) == /\ Range(g[s]) = Image(s) \cap K
                      /\ IsInjective(list) => IsInjective(g[s])
           Bad == {s \in SUBSET D : ~Kept(s)}
<1>4. ASSUME Bad # {} PROVE FALSE
  <2>1. PICK s \in Bad : \A y \in Bad : y \subseteq s => y = s
    <3>1. Bad \in SUBSET SUBSET D
      OBVIOUS
    <3> HIDE DEF Bad
    <3> QED BY <3>1, <1>2, <1>4, MinimalSet
  <2>2. s \in SUBSET D /\ ~Kept(s)
    BY <2>1
  <2>3. s # {}
    <3>1. Kept({})
      BY <1>3 DEF Range, IsInjective, AddsEach
    <3> QED BY <3>1, <2>2
  <2>4. PICK x \in s : g[s] = IF list[x] \in K THEN Append(g[s \ {x}], list[x])
                              ELSE g[s \ {x}]
    BY <2>2, <2>3, <1>2, <1>3 DEF AddsEach
  <2>5. PICK r : r = s \ {x}
    OBVIOUS
  <2>6. r \in SUBSET D /\ r # s /\ r \subseteq s
    BY <2>2, <2>5
  <2>7. Kept(r)
    BY <2>1, <2>6
  <2>8. PICK q : q = g[r]
    OBVIOUS
  <2>9. q \in Seq(N) /\ list[x] \in N
    BY <2>2, <2>6, <2>8, <1>1
  <2>10. Image(s) = Image(r) \cup {list[x]}
    BY <2>5
  <2>11. IsInjective(list) => list[x] \notin Image(r)
    BY <2>2, <2>5, <1>2 DEF IsInjective
  <2>12. Range(q) = Image(r) \cap K /\ (IsInjective(list) => IsInjective(q))
    BY <2>7, <2>8
  <2> HIDE DEF Image
  <2>13. CASE list[x] \in K
    <3>1. g[s] = Append(q, list[x])
      BY <2>4, <2>5, <2>8, <2>13
    <3>2. Range(g[s]) = Range(q) \cup {list[x]}
      BY <3>1, <2>9, AppendDistinct
    <3>3. IsInjective(list) => IsInjective(g[s])
      BY <3>1, <2>9, <2>11, <2>12, AppendDistinct
    <3> QED BY <3>2, <3>3, <2>2, <2>10, <2>12, <2>13
  <2>14. CASE list[x] \notin K
    <3>1. g[s] = q
      BY <2>4, <2>5, <2>8, <2>14
    <3> QED BY <3>1, <2>2, <2>10, <2>12, <2>14
  <2> QED BY <2>13, <2>14
<1>5. Kept(D)
  BY <1>4
<1>6. Image(D) = Range(list)
  BY <1>2 DEF Range
<1> HIDE DEF Image
<1>7. g[D] \in Seq(N)
  BY <1>3
<1>8. Keeping(list, K) = g[D]
  BY <1>2, <1>3 DEF AddsEach
<1> QED BY <1>5, <1>6, <1>7, <1>8

\* The cost of a record's edges is infinite if one of them is, in whatever order
\* they are added.
LEMMA InfiniteSum ==
  ASSUME NEW S, IsFiniteSet(S), NEW u, NEW r, NEW e \in S,
         \A x \in S : CostOf(x.costs, u, r, x.other, assign[x.other]) \in Int,
         CostOf(e.costs, u, r, e.other, assign[e.other]) = Inf
  PROVE  EdgesPaid(u, r, S) = Inf
<1> DEFINE c(x) == CostOf(x.costs, u, r, x.other, assign[x.other])
           P(g) == g = [s \in SUBSET S |->
                          IF s = {} THEN 0
                          ELSE Add(c(CHOOSE x \in s : TRUE), g[s \ {CHOOSE x \in s : TRUE}])]
<1>1. EdgesPaid(u, r, S) = (CHOOSE g : P(g))[S]
  BY SMT DEF EdgesPaid, FoldSet, MapThenFoldSet
<1>2. PICK ch : ch = [s \in SUBSET S |-> CHOOSE x \in s : TRUE]
  OBVIOUS
<1>3. PICK f : f = [p \in S \X Int |-> Add(c(p[1]), p[2])]
  OBVIOUS
<1>4. ASSUME NEW s \in SUBSET S, s # {}
      PROVE  ch[s] \in s /\ ch[s] = CHOOSE x \in s : TRUE
  BY <1>2, <1>4, Zenon
<1>5. \A x \in S : c(x) \in Int
  OBVIOUS
<1>6. f \in [S \X Int -> Int]
  BY <1>3, <1>5, CostAssumption DEF Add
<1>7. PICK g \in [SUBSET S -> Int] : Solves(g, S, 0, ch, f)
  <2>1. \A s \in SUBSET S : s # {} => ch[s] \in s
    BY <1>4
  <2>2. 0 \in Int
    OBVIOUS
  <2> HIDE DEF c
  <2> QED BY <1>6, <2>1, <2>2, SolutionExists
<1>8. \A x \in S, v \in Int : f[<<x, v>>] = Add(c(x), v)
  BY <1>3
<1> HIDE DEF c
<1>9. P(g)
  <2>1. ASSUME NEW s \in SUBSET S, s # {}
        PROVE  g[s] = Add(c(CHOOSE x \in s : TRUE), g[s \ {CHOOSE x \in s : TRUE}])
    <3>1. PICK y : y = CHOOSE x \in s : TRUE
      OBVIOUS
    <3>2. y = ch[s] /\ y \in S
      BY <1>4, <2>1, <3>1
    <3>3. g[s \ {y}] \in Int
      BY <1>7
    <3>4. g[s] = f[<<y, g[s \ {y}]>>]
      BY <1>7, <2>1, <3>2 DEF Solves
    <3>5. g[s] = Add(c(y), g[s \ {y}])
      BY <1>8, <3>2, <3>3, <3>4
    <3> QED BY <3>1, <3>5
  <2>2. g[{}] = 0
    BY <1>7 DEF Solves
  <2>3. g = [s \in SUBSET S |-> g[s]]
    OBVIOUS
  <2> QED BY <2>1, <2>2, <2>3
<1>10. PICK h : h = CHOOSE k : P(k)
  OBVIOUS
<1> HIDE DEF P
<1>11. P(h)
  BY <1>9, <1>10, Zenon
\* Any set with e in it has an infinite sum: the last element is e, or the sum of
\* the others is infinite.
<1> DEFINE Bad == {s \in SUBSET S : e \in s /\ h[s] # Inf}
<1>12. ASSUME Bad # {} PROVE FALSE
  <2>1. PICK s \in Bad : \A y \in Bad : y \subseteq s => y = s
    <3>1. Bad \in SUBSET SUBSET S
      OBVIOUS
    <3> HIDE DEF Bad
    <3> QED BY <3>1, <1>12, MinimalSet
  <2>2. s \in SUBSET S /\ e \in s /\ s # {} /\ h[s] # Inf
    BY <2>1
  <2>3. PICK y : y = CHOOSE x \in s : TRUE
    OBVIOUS
  <2>4. y \in s
    BY <2>2, <2>3, Zenon
  <2>5. h[s] = Add(c(y), h[s \ {y}])
    BY <1>11, <2>2, <2>3 DEF P
  <2>6. PICK q : q = s \ {y}
    OBVIOUS
  <2>7. CASE y = e
    BY <2>2, <2>5, <2>7, CostAssumption DEF Add, c
  <2>8. CASE y # e
    <3>1. e \in q /\ q \in SUBSET S /\ q # s
      BY <2>2, <2>4, <2>6, <2>8
    <3>2. h[q] = Inf
      BY <2>1, <2>6, <3>1
    <3> QED BY <2>2, <2>5, <2>6, <3>2, CostAssumption DEF Add
  <2> QED BY <2>7, <2>8
<1>13. h[S] = Inf
  BY <1>12
<1> QED BY <1>1, <1>10, <1>13

\* A finite set of costs has a cheapest one.
LEMMA MinOf ==
  ASSUME NEW S \in SUBSET Int, IsFiniteSet(S), S # {}
  PROVE  Min(S) \in S /\ Min(S) \in Int /\ \A y \in S : Min(S) <= y
<1> DEFINE HasMin(s) == \E x \in s : \A y \in s : x =< y
<1> DEFINE Bad == {s \in SUBSET S : s # {} /\ ~HasMin(s)}
<1>1. HasMin(S)
  <2> SUFFICES ASSUME Bad # {} PROVE FALSE
    OBVIOUS
  <2>1. PICK s \in Bad : \A y \in Bad : y \subseteq s => y = s
    <3>1. PICK I : I = S
      OBVIOUS
    <3>2. Bad \in SUBSET SUBSET I /\ IsFiniteSet(I)
      BY <3>1
    <3> HIDE DEF Bad
    <3> QED BY <3>2, MinimalSet
  <2>2. PICK e \in s : TRUE
    OBVIOUS
  <2>3. PICK r : r = s \ {e}
    OBVIOUS
  <2>4. r # {}
    BY <2>2, <2>3
  <2>5. r \notin Bad
    BY <2>1, <2>2, <2>3
  <2>6. PICK x \in r : \A y \in r : x =< y
    BY <2>3, <2>4, <2>5
  <2>7. e \in Int /\ x \in Int /\ \A y \in s : y \in Int
    BY <2>3
  <2>8. CASE e =< x
    <3>1. \A y \in s : e =< y
      BY <2>3, <2>6, <2>7, <2>8
    <3> QED BY <3>1
  <2>9. CASE ~(e =< x)
    <3>1. \A y \in s : x =< y
      BY <2>3, <2>6, <2>7, <2>9
    <3> QED BY <3>1, <2>3
  <2> QED BY <2>8, <2>9
<1>2. Min(S) \in S /\ \A y \in S : Min(S) =< y
  BY <1>1, Zenon DEF Min
<1> QED BY <1>2

----------------------------------------------------------------------------
(* The graph. *)

LEMMA NodesAreNumbers == Nodes \subseteq Nat /\ Cardinality(Nodes) \in Nat
<1>1. Cardinality(Nodes) \in Nat
  BY NodesAssumption, FS_CardinalityType
<1> QED BY <1>1, NodesAssumption

\* The key of an edge names its two ends, whatever their order.
LEMMA KeyNames ==
  ASSUME NEW a \in Nodes, NEW b \in Nodes, a # b
  PROVE  /\ Key(a, b) = Key(b, a) /\ Key(a, b) \in Pairs
         /\ a < b => Key(a, b)[1] = a /\ Key(a, b)[2] = b
         /\ ~(a < b) => b < a /\ Key(a, b)[1] = b /\ Key(a, b)[2] = a
         /\ \A c, d \in Nodes : Key(c, d) = Key(a, b) => (c = a /\ d = b) \/ (c = b /\ d = a)
<1>1. a \in Nat /\ b \in Nat
  BY NodesAreNumbers
<1>2. CASE a < b
  <2>1. Key(a, b) = <<a, b>> /\ Key(b, a) = <<a, b>>
    BY <1>1, <1>2 DEF Key
  <2>2. <<a, b>> \in Pairs
    BY <1>2 DEF Pairs
  <2>3. \A c, d \in Nodes : Key(c, d) = <<a, b>> => (c = a /\ d = b) \/ (c = b /\ d = a)
    <3> SUFFICES ASSUME NEW c \in Nodes, NEW d \in Nodes, Key(c, d) = <<a, b>>
                 PROVE  (c = a /\ d = b) \/ (c = b /\ d = a)
      OBVIOUS
    <3>1. <<c, d>> = <<a, b>> \/ <<d, c>> = <<a, b>>
      BY DEF Key
    <3> QED BY <3>1
  <2> QED BY <1>1, <1>2, <2>1, <2>2, <2>3
<1>3. CASE ~(a < b)
  <2>1. b < a
    BY <1>1, <1>3
  <2>2. Key(a, b) = <<b, a>> /\ Key(b, a) = <<b, a>>
    BY <1>3, <2>1 DEF Key
  <2>3. <<b, a>> \in Pairs
    BY <2>1 DEF Pairs
  <2>4. \A c, d \in Nodes : Key(c, d) = <<b, a>> => (c = a /\ d = b) \/ (c = b /\ d = a)
    <3> SUFFICES ASSUME NEW c \in Nodes, NEW d \in Nodes, Key(c, d) = <<b, a>>
                 PROVE  (c = a /\ d = b) \/ (c = b /\ d = a)
      OBVIOUS
    <3>1. <<c, d>> = <<b, a>> \/ <<d, c>> = <<b, a>>
      BY DEF Key
    <3> QED BY <3>1
  <2> QED BY <1>3, <2>1, <2>2, <2>3, <2>4
<1> QED BY <1>2, <1>3

\* The costs of an edge, for each register of the lower and of the higher node.
Table(p)  == [Domain[p[1]] \X Domain[p[2]] -> Int]
Tables    == UNION {Table(p) : p \in Pairs}
\* Both ends of the edge in one register cost too much.
Infinite(m, p) == \A r \in Domain[p[1]] \cap Domain[p[2]] : r >= 1 => m[<<r, r>>] = Inf

LEMMA AddInt ==
  ASSUME NEW x \in Int, NEW y \in Int
  PROVE  Add(x, y) \in Int /\ Add(x, Inf) = Inf /\ Add(Inf, x) = Inf
  BY CostAssumption DEF Add

LEMMA CostInt ==
  ASSUME NEW a \in Nodes, NEW b \in Nodes, a # b, NEW m \in Table(Key(a, b)),
         NEW ra \in Domain[a], NEW rb \in Domain[b]
  PROVE  /\ CostOf(m, a, ra, b, rb) \in Int
         /\ CostOf(m, a, ra, b, rb) = CostOf(m, b, rb, a, ra)
         /\ Infinite(m, Key(a, b)) /\ ra = rb /\ ra >= 1 => CostOf(m, a, ra, b, rb) = Inf
<1>1. CASE a < b
  <2>1. Key(a, b)[1] = a /\ Key(a, b)[2] = b /\ ~(b < a)
    BY <1>1, KeyNames, NodesAreNumbers
  <2> QED BY <1>1, <2>1 DEF CostOf, Table, Infinite
<1>2. CASE ~(a < b)
  <2>1. Key(a, b)[1] = b /\ Key(a, b)[2] = a /\ b < a
    BY <1>2, KeyNames, NodesAreNumbers
  <2> QED BY <1>2, <2>1 DEF CostOf, Table, Infinite
<1> QED BY <1>1, <1>2

\* Interference and copies start as tables of integers.
LEMMA MatrixTable ==
  ASSUME NEW p \in Pairs, NEW kind
  PROVE  Matrix(p, kind) \in Table(p) /\ (kind = "interfere" => Infinite(Matrix(p, kind), p))
<1>1. Interference(p) \in Table(p) /\ Infinite(Interference(p), p)
  BY CostAssumption DEF Interference, Table, Infinite
<1>2. \A t \in Int : Discounted(p, t) \in Table(p)
  BY DEF Discounted, Table, CopyDiscount
<1> QED BY <1>1, <1>2 DEF Matrix

\* What a register of a node costs at best, over the registers of another.
LEMMA CheapestInt ==
  ASSUME NEW n \in Nodes, NEW F, \A q \in Domain[n] : F[q] \in Int
  PROVE  Min({F[q] : q \in Domain[n]}) \in Int
<1>1. PICK S : S = {F[q] : q \in Domain[n]}
  OBVIOUS
<1>2. S \subseteq Int
  BY <1>1
<1>3. Domain[n] # {} /\ IsFiniteSet(Domain[n])
  BY DomainAssumption DEF Concrete
<1>4. S # {}
  BY <1>1, <1>3
<1>5. IsFiniteSet(S)
  <2>1. PICK f : f = [q \in Domain[n] |-> F[q]]
    OBVIOUS
  <2>2. f \in Surjection(Domain[n], S)
    BY <1>1, <2>1 DEF Surjection
  <2> QED BY <1>3, <2>2, FS_Surjection
<1> QED BY <1>1, <1>2, <1>4, <1>5, MinOf

\* Every active node is where active_pos says.
Positions(a, ap) == \A n \in Range(a) : ap[n] \in DOMAIN a /\ a[ap[n]] = n

\* Taking a node out of active moves the last one into its place.
LEMMA EraseKeepsPositions ==
  ASSUME NEW a \in Seq(Nodes), IsInjective(a), NEW ap \in [Nodes -> Nat], Positions(a, ap),
         NEW k \in DOMAIN a, NEW b, NEW bp,
         IF k = Len(a) THEN b = Front(a) /\ bp = ap
         ELSE b = Front([a EXCEPT ![k] = Last(a)]) /\ bp = [ap EXCEPT ![Last(a)] = k]
  PROVE  /\ b \in Seq(Nodes) /\ IsInjective(b) /\ bp \in [Nodes -> Nat]
         /\ Positions(b, bp) /\ Range(b) = Range(a) \ {a[k]}
<1>1. PICK l : l = Len(a)
  OBVIOUS
<1>2. l \in Nat /\ l >= 1 /\ DOMAIN a = 1 .. l /\ k \in 1 .. l /\ l \in DOMAIN a
  BY <1>1
<1>3. \A i \in 1 .. l : a[i] \in Nodes
  BY <1>2
<1>4. /\ b \in Seq(Nodes) /\ Len(b) = l - 1
      /\ \A i \in 1 .. (l - 1) : b[i] = IF i = k THEN a[l] ELSE a[i]
  <2>1. CASE k = l
    <3>1. b = SubSeq(a, 1, l - 1)
      BY <1>1, <2>1 DEF Front
    <3> QED BY <1>2, <2>1, <3>1
  <2>2. CASE k # l
    <3>1. PICK c : c = [a EXCEPT ![k] = a[l]]
      OBVIOUS
    <3>2. c \in Seq(Nodes) /\ Len(c) = l
      BY <1>1, <1>2, <1>3, <3>1
    <3>3. b = SubSeq(c, 1, l - 1)
      BY <1>1, <2>2, <3>1, <3>2 DEF Front, Last
    <3>4. \A i \in 1 .. l : c[i] = IF i = k THEN a[l] ELSE a[i]
      BY <1>2, <3>1
    <3> QED BY <1>2, <3>2, <3>3, <3>4
  <2> QED BY <2>1, <2>2
<1>5. DOMAIN b = 1 .. (l - 1)
  BY <1>2, <1>4
<1>6. \A i, j \in 1 .. l : a[i] = a[j] => i = j
  BY <1>2 DEF IsInjective
<1>7. IsInjective(b)
  <2> SUFFICES ASSUME NEW i \in 1 .. (l - 1), NEW j \in 1 .. (l - 1), b[i] = b[j] PROVE i = j
    BY <1>5 DEF IsInjective
  <2>1. i \in 1 .. l /\ j \in 1 .. l /\ i # l /\ j # l
    BY <1>2
  <2> QED BY <1>2, <1>4, <1>6, <2>1
<1>8. Range(b) = Range(a) \ {a[k]}
  <2>1. Range(b) \subseteq Range(a) \ {a[k]}
    <3> SUFFICES ASSUME NEW i \in 1 .. (l - 1) PROVE b[i] \in Range(a) \ {a[k]}
      BY <1>5 DEF Range
    <3>1. i \in 1 .. l /\ i # l
      BY <1>2
    <3>2. CASE i = k
      <4>1. a[l] # a[k]
        BY <1>2, <1>6, <3>1, <3>2
      <4> QED BY <1>2, <1>4, <3>2, <4>1 DEF Range
    <3>3. CASE i # k
      <4>1. a[i] # a[k]
        BY <1>2, <1>6, <3>1, <3>3
      <4> QED BY <1>2, <1>4, <3>1, <3>3, <4>1 DEF Range
    <3> QED BY <3>2, <3>3
  <2>2. Range(a) \ {a[k]} \subseteq Range(b)
    <3> SUFFICES ASSUME NEW i \in 1 .. l, a[i] # a[k] PROVE a[i] \in Range(b)
      BY <1>2 DEF Range
    <3>1. CASE i = l
      <4>1. k \in 1 .. (l - 1) /\ b[k] = a[i]
        BY <1>2, <1>4, <3>1
      <4> QED BY <1>5, <4>1 DEF Range
    <3>2. CASE i # l
      <4>1. i \in 1 .. (l - 1) /\ b[i] = a[i]
        BY <1>2, <1>4, <3>2
      <4> QED BY <1>5, <4>1 DEF Range
    <3> QED BY <3>1, <3>2
  <2> QED BY <2>1, <2>2
<1>9. bp \in [Nodes -> Nat]
  BY <1>1, <1>2, <1>3 DEF Last
<1>10. Positions(b, bp)
  <2> SUFFICES ASSUME NEW n \in Range(b) PROVE bp[n] \in 1 .. (l - 1) /\ b[bp[n]] = n
    BY <1>5 DEF Positions
  <2>1. n \in Range(a) /\ n # a[k]
    BY <1>8
  <2>2. ap[n] \in 1 .. l /\ a[ap[n]] = n
    BY <1>2, <2>1 DEF Positions
  <2>3. ap[n] # k
    BY <2>1, <2>2
  <2>4. n \in Nodes
    BY <1>3, <2>2
  <2>5. CASE n = a[l]
    <3>1. ap[n] = l
      BY <1>2, <1>6, <2>2, <2>5
    <3>2. k # l /\ k \in 1 .. (l - 1)
      BY <1>2, <2>3, <3>1
    <3>3. bp[n] = k
      BY <1>1, <2>4, <2>5, <3>2 DEF Last
    <3> QED BY <1>4, <2>5, <3>2, <3>3
  <2>6. CASE n # a[l]
    <3>1. ap[n] # l /\ ap[n] \in 1 .. (l - 1)
      BY <1>2, <2>2, <2>6
    <3>2. bp[n] = ap[n]
      BY <1>1, <2>4, <2>6 DEF Last
    <3> QED BY <1>4, <2>2, <2>3, <3>1, <3>2
  <2> QED BY <2>5, <2>6
<1> QED BY <1>4, <1>7, <1>8, <1>9, <1>10

\* The lists of the nodes in A agree with the edges in E.
Adjacent(E, ng, A) ==
  \A n \in A :
    /\ IsInjective(ng[n])
    /\ \A m \in Nodes : m \in Range(ng[n]) <=> m \in A /\ m # n /\ Key(n, m) \in E

LEMMA AdjacencyParts ==
  AdjacencyAgrees <=>
    Positions(active, activePos) /\ Adjacent(DOMAIN edges, neigh, Range(active))
  BY DEF AdjacencyAgrees, Positions, Adjacent

\* Taking a node out of its neighbours' lists.
DetachedFrom(ng, n) == [m \in Nodes |-> IF m = n THEN <<>> ELSE Without(ng[m], n)]

LEMMA DetachKeepsAdjacent ==
  ASSUME NEW E, NEW A \in SUBSET Nodes, NEW n \in A, NEW ng \in [Nodes -> Seq(Nodes)],
         Adjacent(E, ng, A)
  PROVE  /\ DetachedFrom(ng, n) \in [Nodes -> Seq(Nodes)]
         /\ Adjacent(E, DetachedFrom(ng, n), A \ {n})
<1> DEFINE d == DetachedFrom(ng, n)
<1>1. ASSUME NEW m \in Nodes
      PROVE  /\ Without(ng[m], n) \in Seq(Nodes)
             /\ Range(Without(ng[m], n)) = Range(ng[m]) \cap (Nodes \ {n})
             /\ IsInjective(ng[m]) => IsInjective(Without(ng[m], n))
  <2>1. ng[m] \in Seq(Nodes)
    OBVIOUS
  <2> QED BY <2>1, KeepingList DEF Without
<1>2. d \in [Nodes -> Seq(Nodes)]
  BY <1>1 DEF DetachedFrom
<1>3. ASSUME NEW m \in A \ {n}
      PROVE  /\ IsInjective(d[m])
             /\ \A k \in Nodes : k \in Range(d[m]) <=>
                                   k \in A \ {n} /\ k # m /\ Key(m, k) \in E
  <2>1. d[m] = Without(ng[m], n)
    BY DEF DetachedFrom
  <2>2. IsInjective(d[m]) /\ Range(d[m]) = Range(ng[m]) \cap (Nodes \ {n})
    BY <1>1, <2>1 DEF Adjacent
  <2> QED BY <2>2 DEF Adjacent
<1> QED BY <1>2, <1>3 DEF Adjacent

\* A new edge is entered at both of its ends.
LEMMA LinkKeepsAdjacent ==
  ASSUME NEW E, NEW A \in SUBSET Nodes, NEW a \in A, NEW c \in A, a # c,
         NEW ng \in [Nodes -> Seq(Nodes)], Adjacent(E, ng, A), Key(a, c) \notin E, NEW g,
         g = [ng EXCEPT ![a] = Append(@, c), ![c] = Append(@, a)]
  PROVE  g \in [Nodes -> Seq(Nodes)] /\ Adjacent(E \cup {Key(a, c)}, g, A)
<1>1. /\ g[a] = Append(ng[a], c) /\ g[c] = Append(ng[c], a)
      /\ \A m \in Nodes \ {a, c} : g[m] = ng[m]
      /\ g \in [Nodes -> Seq(Nodes)]
  <2>1. a \in Nodes /\ c \in Nodes /\ ng[a] \in Seq(Nodes) /\ ng[c] \in Seq(Nodes)
    OBVIOUS
  <2>2. Append(ng[a], c) \in Seq(Nodes) /\ Append(ng[c], a) \in Seq(Nodes)
    BY <2>1
  <2> QED BY <2>1, <2>2
<1>2. Key(a, c) = Key(c, a)
  BY KeyNames
<1>3. c \notin Range(ng[a]) /\ a \notin Range(ng[c])
  BY <1>2 DEF Adjacent
<1>4. /\ Range(g[a]) = Range(ng[a]) \cup {c} /\ IsInjective(g[a])
      /\ Range(g[c]) = Range(ng[c]) \cup {a} /\ IsInjective(g[c])
  <2>1. ng[a] \in Seq(Nodes) /\ ng[c] \in Seq(Nodes) /\ a \in Nodes /\ c \in Nodes
    OBVIOUS
  <2>2. IsInjective(ng[a]) /\ IsInjective(ng[c])
    BY DEF Adjacent
  <2>3. /\ Range(Append(ng[a], c)) = Range(ng[a]) \cup {c}
        /\ IsInjective(Append(ng[a], c))
    BY <1>3, <2>1, <2>2, AppendDistinct
  <2>4. /\ Range(Append(ng[c], a)) = Range(ng[c]) \cup {a}
        /\ IsInjective(Append(ng[c], a))
    BY <1>3, <2>1, <2>2, AppendDistinct
  <2> QED BY <1>1, <2>3, <2>4
<1>5. \A n, m \in Nodes : Key(n, m) = Key(a, c) => (n = a /\ m = c) \/ (n = c /\ m = a)
  BY KeyNames
<1>6. ASSUME NEW n \in A, NEW m \in Nodes
      PROVE  /\ IsInjective(g[n])
             /\ m \in Range(g[n]) <=> m \in A /\ m # n /\ Key(n, m) \in E \cup {Key(a, c)}
  <2>1. m \in Range(ng[n]) <=> m \in A /\ m # n /\ Key(n, m) \in E
    BY DEF Adjacent
  <2>2. CASE n = a
    BY <1>4, <1>5, <2>1, <2>2
  <2>3. CASE n = c
    BY <1>2, <1>4, <1>5, <2>1, <2>3
  <2>4. CASE n \notin {a, c}
    BY <1>1, <1>5, <2>1, <2>4 DEF Adjacent
  <2> QED BY <2>2, <2>3, <2>4
<1> QED BY <1>1, <1>6 DEF Adjacent

----------------------------------------------------------------------------
(* The invariant. *)

\* Edges are never forgotten, and what is added to an edge leaves the infinite
\* costs of interference infinite.
EdgesInv ==
  /\ DOMAIN edges \subseteq Pairs
  /\ \A p \in DOMAIN edges : edges[p] \in Table(p)
  /\ \A p \in Pairs : given.kind[p] = "interfere" =>
                        p \in DOMAIN edges /\ Infinite(edges[p], p)

CostsInv == DOMAIN cost = Nodes /\ \A n \in Nodes : cost[n] \in [Domain[n] -> Int]

\* The precoloured nodes stay in the graph.
ActiveInv ==
  /\ neigh \in [Nodes -> Seq(Nodes)]
  /\ active \in Seq(Nodes) /\ IsInjective(active) /\ activePos \in [Nodes -> Nat]
  /\ \A n \in Nodes : Concrete(n) => n \in Range(active)

CtlInv ==
  /\ pos \in Nat \ {0}
  /\ phase \in {"reduce", "colour", "coalesce", "done"}
  /\ phase \in {"coalesce", "done"} => stack = <<>>
  /\ copies \in Seq(Pairs)

Frame == [type : {"R1", "R2", "RM"}, node : Nodes,
          edges : SUBSET [other : Nodes, costs : Tables]]

FrameOK(e) ==
  /\ e \in Frame /\ ~Concrete(e.node) /\ IsFiniteSet(e.edges)
  /\ \A x \in e.edges : x.other # e.node /\ x.costs \in Table(Key(e.node, x.other))

NodesOf(s) == {s[i].node : i \in DOMAIN s}

\* A node that interferes is below, and will be coloured after e.node, or the
\* record knows that they cannot share a register.
Covers(e, below) ==
  \A m \in Interfering(e.node) :
    \/ m \in below
    \/ \E x \in e.edges : x.other = m /\ Infinite(x.costs, Key(e.node, m))

Frames(s) ==
  /\ s \in Seq(Frame)
  /\ \A i \in DOMAIN s : FrameOK(s[i]) /\ Covers(s[i], {s[j].node : j \in 1 .. (i - 1)})
  /\ \A i, j \in DOMAIN s : s[i].node = s[j].node => i = j

\* While the graph is reduced a node is in it or on the stack.
StackInv ==
  /\ Frames(stack)
  /\ phase = "reduce" =>
       \A n \in Nodes : ~Concrete(n) => (n \in Range(active) <=> n \notin NodesOf(stack))

\* The nodes that have their register do not interfere.
AssignInv ==
  /\ assign \in [Nodes -> Nat] /\ \A n \in Nodes : assign[n] \in Domain[n]
  /\ phase # "reduce" =>
       \A n, m \in Nodes \ NodesOf(stack) :
         m \in Interfering(n) /\ assign[n] # 0 => assign[m] # assign[n]

IInv ==
  /\ EdgesInv /\ CostsInv /\ ActiveInv /\ AdjacencyAgrees
  /\ CtlInv /\ StackInv /\ AssignInv

\* Interference is symmetric.
LEMMA InterferingFacts ==
  ASSUME NEW n \in Nodes, NEW m \in Interfering(n)
  PROVE  m \in Nodes /\ m # n /\ n \in Interfering(m) /\ given.kind[Key(n, m)] = "interfere"
         /\ Key(n, m) \in Pairs
  BY KeyNames DEF Interfering

\* Pushing a node that is not on the stack and is covered by it.
LEMMA PushFrame ==
  ASSUME NEW s, Frames(s), NEW e, FrameOK(e), e.node \notin NodesOf(s), Covers(e, NodesOf(s))
  PROVE  Frames(Append(s, e)) /\ NodesOf(Append(s, e)) = NodesOf(s) \cup {e.node}
<1>1. PICK t : t = Append(s, e)
  OBVIOUS
<1>2. PICK l : l = Len(s)
  OBVIOUS
<1>3. s \in Seq(Frame) /\ e \in Frame
  BY DEF Frames, FrameOK
<1>4. /\ l \in Nat /\ DOMAIN s = 1 .. l /\ DOMAIN t = 1 .. (l + 1) /\ t \in Seq(Frame)
      /\ \A i \in 1 .. l : t[i] = s[i]
      /\ t[l + 1] = e
  BY <1>1, <1>2, <1>3
<1>5. NodesOf(t) = NodesOf(s) \cup {e.node}
  <2>1. NodesOf(t) \subseteq NodesOf(s) \cup {e.node}
    BY <1>4 DEF NodesOf
  <2>2. NodesOf(s) \subseteq NodesOf(t) /\ e.node \in NodesOf(t)
    BY <1>4 DEF NodesOf
  <2> QED BY <2>1, <2>2
<1>6. ASSUME NEW i \in 1 .. (l + 1)
      PROVE  FrameOK(t[i]) /\ Covers(t[i], {t[j].node : j \in 1 .. (i - 1)})
  <2>1. CASE i = l + 1
    <3>1. {t[j].node : j \in 1 .. (i - 1)} = NodesOf(s)
      <4>1. 1 .. (i - 1) = 1 .. l
        BY <1>4, <2>1
      <4> QED BY <1>4, <4>1 DEF NodesOf
    <3> QED BY <1>4, <2>1, <3>1
  <2>2. CASE i # l + 1
    <3>1. i \in 1 .. l /\ \A j \in 1 .. (i - 1) : j \in 1 .. l
      BY <1>4, <2>2
    <3>2. {t[j].node : j \in 1 .. (i - 1)} = {s[j].node : j \in 1 .. (i - 1)}
      BY <1>4, <3>1
    <3> QED BY <1>4, <3>1, <3>2 DEF Frames
  <2> QED BY <2>1, <2>2
<1>7. ASSUME NEW i \in 1 .. (l + 1), NEW j \in 1 .. (l + 1), t[i].node = t[j].node
      PROVE  i = j
  <2>1. \A k \in 1 .. l : t[k].node # e.node
    BY <1>4 DEF NodesOf
  <2>2. CASE i = l + 1 \/ j = l + 1
    BY <1>4, <1>7, <2>1, <2>2
  <2>3. CASE i # l + 1 /\ j # l + 1
    <3>1. i \in 1 .. l /\ j \in 1 .. l
      BY <1>4, <2>3
    <3> QED BY <1>4, <1>7, <3>1 DEF Frames
  <2> QED BY <2>2, <2>3
<1>8. Frames(t)
  <2>1. \A i \in DOMAIN t : FrameOK(t[i]) /\ Covers(t[i], {t[j].node : j \in 1 .. (i - 1)})
    BY <1>4, <1>6
  <2>2. \A i, j \in DOMAIN t : t[i].node = t[j].node => i = j
    BY <1>4, <1>7
  <2> QED BY <1>4, <2>1, <2>2, Zenon DEF Frames
<1> QED BY <1>1, <1>5, <1>8

\* What is on top of the stack is not below it, and is covered by what is.
LEMMA PopFrame ==
  ASSUME NEW s, Frames(s), s # <<>>
  PROVE  /\ Frames(Front(s)) /\ NodesOf(Front(s)) = NodesOf(s) \ {Last(s).node}
         /\ FrameOK(Last(s)) /\ Covers(Last(s), NodesOf(Front(s)))
         /\ Last(s).node \in NodesOf(s)
<1>1. PICK t : t = Front(s)
  OBVIOUS
<1>2. PICK l : l = Len(s)
  OBVIOUS
<1>3. s \in Seq(Frame)
  BY DEF Frames
<1>4. l \in Nat /\ l >= 1 /\ DOMAIN s = 1 .. l /\ l \in 1 .. l
  BY <1>2, <1>3
<1>5. /\ DOMAIN t = 1 .. (l - 1) /\ t \in Seq(Frame)
      /\ \A i \in 1 .. (l - 1) : t[i] = s[i] /\ i \in 1 .. l /\ i # l
  BY <1>1, <1>2, <1>3, <1>4 DEF Front
<1>6. Last(s) = s[l]
  BY <1>2 DEF Last
<1>7. \A i \in 1 .. l : i \in 1 .. (l - 1) \/ i = l
  BY <1>4
<1>8. NodesOf(t) = NodesOf(s) \ {s[l].node}
  <2>1. NodesOf(t) \subseteq NodesOf(s) \ {s[l].node}
    BY <1>4, <1>5 DEF NodesOf, Frames
  <2>2. NodesOf(s) \ {s[l].node} \subseteq NodesOf(t)
    BY <1>4, <1>5, <1>7 DEF NodesOf
  <2> QED BY <2>1, <2>2
<1>9. ASSUME NEW i \in 1 .. (l - 1)
      PROVE  FrameOK(t[i]) /\ Covers(t[i], {t[j].node : j \in 1 .. (i - 1)})
  <2>1. \A j \in 1 .. (i - 1) : j \in 1 .. (l - 1)
    BY <1>4
  <2>2. {t[j].node : j \in 1 .. (i - 1)} = {s[j].node : j \in 1 .. (i - 1)}
    BY <1>5, <2>1
  <2> QED BY <1>4, <1>5, <2>2 DEF Frames
<1>10. Frames(t)
  BY <1>4, <1>5, <1>9 DEF Frames
<1>11. FrameOK(s[l]) /\ Covers(s[l], NodesOf(t))
  <2>1. NodesOf(t) = {s[j].node : j \in 1 .. (l - 1)}
    BY <1>5 DEF NodesOf
  <2> QED BY <1>4, <2>1 DEF Frames
<1>12. s[l].node \in NodesOf(s)
  BY <1>4 DEF NodesOf
<1> QED BY <1>1, <1>6, <1>8, <1>10, <1>11, <1>12

----------------------------------------------------------------------------
(* Taking a node out of the graph. *)

\* Frames and the nodes that interfere depend on the stack and the given graph only.
LEMMA FramesAtNext ==
  ASSUME given' = given, NEW t, Frames(t), stack' = t
  PROVE  Frames(stack)' /\ NodesOf(stack)' = NodesOf(t)
<1>1. \A e, S : Covers(e, S) => Covers(e, S)'
  BY DEF Covers, Interfering
<1>2. Frames(t)'
  BY <1>1 DEF Frames
<1> QED BY <1>2 DEF Frames, NodesOf, Covers, Interfering

LEMMA ListFinite ==
  ASSUME NEW N, NEW q \in Seq(N)
  PROVE  IsFiniteSet(Range(q))
<1>1. q \in Surjection(1 .. Len(q), Range(q))
  BY DEF Surjection, Range
<1>2. IsFiniteSet(1 .. Len(q))
  BY FS_Interval
<1> QED BY <1>1, <1>2, FS_Surjection

\* What a neighbour's list says: the neighbour is in the graph, and its edge is found.
LEMMA NeighbourFacts ==
  ASSUME EdgesInv, ActiveInv, AdjacencyAgrees, NEW n \in Range(active),
         NEW m \in Range(neigh[n])
  PROVE  /\ n \in Nodes /\ m \in Nodes /\ m # n /\ m \in Range(active)
         /\ Key(n, m) \in DOMAIN edges /\ edges[Key(n, m)] \in Table(Key(n, m))
<1>1. n \in Nodes /\ neigh[n] \in Seq(Nodes)
  BY DEF ActiveInv, Range
<1>2. m \in Nodes
  BY <1>1 DEF Range
<1>3. m \in Range(active) /\ m # n /\ Key(n, m) \in DOMAIN edges
  BY <1>2, AdjacencyParts DEF Adjacent
<1> QED BY <1>1, <1>2, <1>3 DEF EdgesInv

\* The record of a node holds its edges; a node that interferes and has no edge in
\* it was taken out before and is on the stack.
LEMMA RecordCovers ==
  ASSUME IInv, phase = "reduce", NEW n \in Range(active), ~Concrete(n),
         NEW type \in {"R1", "R2", "RM"}
  PROVE  /\ FrameOK(Record(n, type)) /\ Covers(Record(n, type), NodesOf(stack))
         /\ Record(n, type).node = n
<1>1. PICK e : e = Record(n, type)
  OBVIOUS
<1>2. /\ e.node = n /\ e.type = type
      /\ e.edges = {[other |-> m, costs |-> edges[Key(n, m)]] : m \in Range(neigh[n])}
      /\ e = [type |-> type, node |-> n, edges |-> e.edges]
  BY <1>1 DEF Record
<1>3. n \in Nodes /\ neigh[n] \in Seq(Nodes)
  BY DEF IInv, ActiveInv, Range
<1>4. ASSUME NEW x \in e.edges
      PROVE  /\ x \in [other : Nodes, costs : Tables] /\ x.other # n
             /\ x.costs \in Table(Key(n, x.other))
  <2>1. PICK m \in Range(neigh[n]) : x = [other |-> m, costs |-> edges[Key(n, m)]]
    BY <1>2
  <2>2. m \in Nodes /\ m # n /\ edges[Key(n, m)] \in Table(Key(n, m))
    BY NeighbourFacts DEF IInv
  <2>3. edges[Key(n, m)] \in Tables
    BY <1>3, <2>2, KeyNames DEF Tables
  <2> QED BY <2>1, <2>2, <2>3
<1>5. IsFiniteSet(e.edges)
  <2>1. PICK f : f = [m \in Range(neigh[n]) |-> [other |-> m, costs |-> edges[Key(n, m)]]]
    OBVIOUS
  <2>2. f \in Surjection(Range(neigh[n]), e.edges)
    BY <1>2, <2>1 DEF Surjection
  <2> QED BY <1>3, <2>2, ListFinite, FS_Surjection
<1>6. e \in Frame
  <2>1. e.edges \in SUBSET [other : Nodes, costs : Tables]
    BY <1>4
  <2> QED BY <1>2, <1>3, <2>1 DEF Frame
<1>7. FrameOK(e)
  BY <1>2, <1>4, <1>5, <1>6 DEF FrameOK
<1>8. ASSUME NEW m \in Interfering(n), m \notin NodesOf(stack)
      PROVE  \E x \in e.edges : x.other = m /\ Infinite(x.costs, Key(n, m))
  <2>1. /\ m \in Nodes /\ m # n
        /\ Key(n, m) \in DOMAIN edges /\ Infinite(edges[Key(n, m)], Key(n, m))
    BY <1>3, InterferingFacts DEF IInv, EdgesInv
  <2>2. m \in Range(active)
    BY <1>8, <2>1 DEF IInv, StackInv, ActiveInv
  <2>3. m \in Range(neigh[n])
    BY <2>1, <2>2, AdjacencyParts DEF IInv, Adjacent
  <2>4. PICK x : x = [other |-> m, costs |-> edges[Key(n, m)]]
    OBVIOUS
  <2>5. x \in e.edges
    BY <1>2, <2>3, <2>4
  <2> QED BY <2>1, <2>4, <2>5
<1>9. Covers(e, NodesOf(stack))
  BY <1>2, <1>8 DEF Covers
<1> QED BY <1>1, <1>2, <1>7, <1>9

\* What R1, R2 and RM share: the node moves from the graph to the stack.
LEMMA TakeOut ==
  ASSUME IInv, phase = "reduce", phase' = "reduce", given' = given, NEW k \in DOMAIN active,
         NEW n, n = active[k], ~Concrete(n), NEW type \in {"R1", "R2", "RM"},
         stack' = Append(stack, Record(n, type)), EraseActive(k)
  PROVE  /\ StackInv'
         /\ active' \in Seq(Nodes) /\ IsInjective(active') /\ activePos' \in [Nodes -> Nat]
         /\ Positions(active', activePos') /\ Range(active') = Range(active) \ {n}
         /\ \A m \in Nodes : Concrete(m) => m \in Range(active')
         /\ Detached(n) \in [Nodes -> Seq(Nodes)]
         /\ Adjacent(DOMAIN edges, Detached(n), Range(active'))
<1>1. /\ active \in Seq(Nodes) /\ IsInjective(active) /\ activePos \in [Nodes -> Nat]
      /\ Positions(active, activePos) /\ Adjacent(DOMAIN edges, neigh, Range(active))
      /\ neigh \in [Nodes -> Seq(Nodes)]
  BY AdjacencyParts DEF IInv, ActiveInv
<1>2. n \in Range(active) /\ n \in Nodes /\ Range(active) \subseteq Nodes
  BY <1>1 DEF Range
<1>3. IF k = Len(active) THEN active' = Front(active) /\ activePos' = activePos
      ELSE /\ active' = Front([active EXCEPT ![k] = Last(active)])
           /\ activePos' = [activePos EXCEPT ![Last(active)] = k]
  BY DEF EraseActive
<1>4. PICK a, ap, b, bp : a = active /\ ap = activePos /\ b = active' /\ bp = activePos'
  OBVIOUS
<1>5. /\ active' \in Seq(Nodes) /\ IsInjective(active') /\ activePos' \in [Nodes -> Nat]
      /\ Positions(active', activePos') /\ Range(active') = Range(active) \ {n}
  <2>1. /\ b \in Seq(Nodes) /\ IsInjective(b) /\ bp \in [Nodes -> Nat]
        /\ Positions(b, bp) /\ Range(b) = Range(a) \ {a[k]}
    BY <1>1, <1>3, <1>4, EraseKeepsPositions
  <2> QED BY <1>4, <2>1
<1>6. \A m \in Nodes : Concrete(m) => m \in Range(active')
  BY <1>5 DEF IInv, ActiveInv
<1>7. Detached(n) \in [Nodes -> Seq(Nodes)] /\ Adjacent(DOMAIN edges, Detached(n), Range(active'))
  <2>1. Detached(n) = DetachedFrom(neigh, n)
    BY DEF Detached, DetachedFrom
  <2>2. /\ DetachedFrom(neigh, n) \in [Nodes -> Seq(Nodes)]
        /\ Adjacent(DOMAIN edges, DetachedFrom(neigh, n), Range(active) \ {n})
    BY <1>1, <1>2, DetachKeepsAdjacent
  <2> QED BY <1>5, <2>1, <2>2
<1>8. StackInv'
  <2>1. PICK e : e = Record(n, type)
    OBVIOUS
  <2>2. FrameOK(e) /\ Covers(e, NodesOf(stack)) /\ e.node = n
    BY <1>2, <2>1, RecordCovers
  <2>3. n \notin NodesOf(stack)
    BY <1>2 DEF IInv, StackInv
  <2>4. Frames(Append(stack, e)) /\ NodesOf(Append(stack, e)) = NodesOf(stack) \cup {n}
    BY <2>2, <2>3, PushFrame DEF IInv, StackInv
  <2>5. Frames(stack)' /\ NodesOf(stack)' = NodesOf(stack) \cup {n}
    BY <2>1, <2>4, FramesAtNext
  <2>6. \A m \in Nodes : ~Concrete(m) => (m \in Range(active') <=> m \notin NodesOf(stack)')
    BY <1>5, <2>5 DEF IInv, StackInv
  <2> QED BY <2>5, <2>6 DEF StackInv
<1> QED BY <1>5, <1>6, <1>7, <1>8

----------------------------------------------------------------------------
(* The steps. *)

\* R1: the neighbour pays for the node; the edges stay as they are.
LEMMA R1Keeps ==
  ASSUME IInv, NEW n \in Nodes, R1Reduction(n)
  PROVE  IInv'
<1>1. /\ phase = "reduce" /\ phase' = "reduce" /\ pos \in DOMAIN active /\ n = active[pos]
      /\ ~Concrete(n) /\ Len(neigh[n]) = 1 /\ given' = given /\ edges' = edges
      /\ stack' = Append(stack, Record(n, "R1")) /\ EraseActive(pos) /\ neigh' = Detached(n)
      /\ pos' = pos /\ assign' = assign /\ copies' = copies
  BY DEF R1Reduction, Scanning, IInv, CtlInv, ActiveInv
<1>2. /\ StackInv'
      /\ active' \in Seq(Nodes) /\ IsInjective(active') /\ activePos' \in [Nodes -> Nat]
      /\ Positions(active', activePos') /\ Range(active') = Range(active) \ {n}
      /\ \A m \in Nodes : Concrete(m) => m \in Range(active')
      /\ Detached(n) \in [Nodes -> Seq(Nodes)]
      /\ Adjacent(DOMAIN edges, Detached(n), Range(active'))
  BY <1>1, TakeOut
<1>3. EdgesInv'
  BY <1>1 DEF IInv, EdgesInv
<1>4. CostsInv'
  <2>1. PICK b : b = neigh[n][1]
    OBVIOUS
  <2>2. n \in Range(active) /\ b \in Range(neigh[n])
    BY <1>1, <2>1 DEF IInv, ActiveInv, Range
  <2>3. b \in Nodes /\ b # n /\ edges[Key(n, b)] \in Table(Key(n, b))
    BY <2>2, NeighbourFacts DEF IInv
  <2>4. PICK best : best = [r \in Domain[b] |->
           Min({Add(EdgeCost(n, q, b, r), cost[n][q]) : q \in Domain[n]})]
    OBVIOUS
  <2>5. cost' = [cost EXCEPT ![b] = [r \in Domain[b] |-> Add(cost[b][r], best[r])]]
    BY <2>1, <2>4 DEF R1Reduction
  <2>6. ASSUME NEW r \in Domain[b] PROVE best[r] \in Int
    <3>1. PICK F : F = [q \in Domain[n] |-> Add(EdgeCost(n, q, b, r), cost[n][q])]
      OBVIOUS
    <3>2. ASSUME NEW q \in Domain[n] PROVE F[q] \in Int
      <4>1. EdgeCost(n, q, b, r) \in Int
        BY <2>3, CostInt DEF EdgeCost
      <4>2. cost[n][q] \in Int
        BY DEF IInv, CostsInv
      <4> QED BY <3>1, <4>1, <4>2, AddInt
    <3>3. Min({F[q] : q \in Domain[n]}) \in Int
      BY <3>2, CheapestInt
    <3>4. {F[q] : q \in Domain[n]} = {Add(EdgeCost(n, q, b, r), cost[n][q]) : q \in Domain[n]}
      BY <3>1
    <3> QED BY <2>4, <3>3, <3>4
  <2>7. [r \in Domain[b] |-> Add(cost[b][r], best[r])] \in [Domain[b] -> Int]
    <3>1. \A r \in Domain[b] : cost[b][r] \in Int
      BY <2>3 DEF IInv, CostsInv
    <3> QED BY <2>6, <3>1, AddInt
  <2> QED BY <2>3, <2>5, <2>7 DEF IInv, CostsInv
<1>5. ActiveInv'
  BY <1>1, <1>2 DEF ActiveInv
<1>6. AdjacencyAgrees'
  <2>1. Positions(active, activePos)' /\ Adjacent(DOMAIN edges, neigh, Range(active))'
    BY <1>1, <1>2
  <2> QED BY <2>1, AdjacencyParts DEF AdjacencyAgrees, Positions, Adjacent
<1>7. CtlInv'
  <2>1. pos' \in Nat \ {0} /\ copies' \in Seq(Pairs)
    BY <1>1 DEF IInv, CtlInv
  <2> QED BY <1>1, <2>1 DEF CtlInv
<1>8. AssignInv'
  BY <1>1 DEF IInv, AssignInv
<1> QED BY <1>2, <1>3, <1>4, <1>5, <1>6, <1>7, <1>8 DEF IInv

\* The edge between the neighbours of a node of degree two gets integers, and what
\* was infinite stays so.
LEMMA ThroughTable ==
  ASSUME IInv, NEW n \in Nodes, NEW a \in Nodes, NEW c \in Nodes, a # n, c # n, a # c,
         edges[Key(n, a)] \in Table(Key(n, a)), edges[Key(n, c)] \in Table(Key(n, c))
  PROVE  /\ R2Through(n, a, c) \in Table(Key(a, c))
         /\ Key(a, c) \in DOMAIN edges /\ Infinite(edges[Key(a, c)], Key(a, c)) =>
              Infinite(R2Through(n, a, c), Key(a, c))
<1> DEFINE through(ra, rc) ==
      Min({Add(Add(EdgeCost(a, ra, n, q), cost[n][q]), EdgeCost(n, q, c, rc)) :
             q \in Domain[n]})
<1>1. ASSUME NEW ra \in Domain[a], NEW rc \in Domain[c] PROVE through(ra, rc) \in Int
  <2>1. PICK F : F = [q \in Domain[n] |->
                        Add(Add(EdgeCost(a, ra, n, q), cost[n][q]), EdgeCost(n, q, c, rc))]
    OBVIOUS
  <2>2. ASSUME NEW q \in Domain[n] PROVE F[q] \in Int
    <3>1. EdgeCost(a, ra, n, q) \in Int
      <4>1. edges[Key(a, n)] \in Table(Key(a, n))
        BY KeyNames
      <4> QED BY <4>1, CostInt DEF EdgeCost
    <3>2. EdgeCost(n, q, c, rc) \in Int
      BY CostInt DEF EdgeCost
    <3>3. cost[n][q] \in Int
      BY DEF IInv, CostsInv
    <3>4. Add(EdgeCost(a, ra, n, q), cost[n][q]) \in Int
      BY <3>1, <3>3, AddInt
    <3>5. Add(Add(EdgeCost(a, ra, n, q), cost[n][q]), EdgeCost(n, q, c, rc)) \in Int
      BY <3>2, <3>4, AddInt
    <3> QED BY <2>1, <3>5
  <2>3. Min({F[q] : q \in Domain[n]}) \in Int
    BY <2>2, CheapestInt
  <2>4. {F[q] : q \in Domain[n]} =
          {Add(Add(EdgeCost(a, ra, n, q), cost[n][q]), EdgeCost(n, q, c, rc)) : q \in Domain[n]}
    BY <2>1
  <2> QED BY <2>3, <2>4
<1>2. PICK k : k = Key(a, c)
  OBVIOUS
<1>3. k \in Pairs /\ ((k[1] = a /\ k[2] = c) \/ (k[1] = c /\ k[2] = a))
  BY <1>2, KeyNames
<1> DEFINE old(r) == IF k \in DOMAIN edges THEN edges[k][r] ELSE 0
           new(r) == IF k[1] = a THEN through(r[1], r[2]) ELSE through(r[2], r[1])
<1> HIDE DEF through
<1>4. ASSUME NEW r \in Domain[k[1]] \X Domain[k[2]] PROVE old(r) \in Int /\ new(r) \in Int
  <2>1. old(r) \in Int
    <3>1. CASE k \in DOMAIN edges
      <4>1. edges[k] \in [Domain[k[1]] \X Domain[k[2]] -> Int]
        BY <3>1 DEF IInv, EdgesInv, Table
      <4>2. edges[k][r] \in Int
        BY <4>1
      <4> QED BY <3>1, <4>2
    <3>2. CASE k \notin DOMAIN edges
      BY <3>2
    <3> QED BY <3>1, <3>2
  <2>2. new(r) \in Int
    <3>1. r[1] \in Domain[k[1]] /\ r[2] \in Domain[k[2]]
      OBVIOUS
    <3>2. CASE k[1] = a
      BY <1>1, <1>3, <3>1, <3>2
    <3>3. CASE k[1] # a
      BY <1>1, <1>3, <3>1, <3>3
    <3> QED BY <3>2, <3>3
  <2> QED BY <2>1, <2>2
<1>5. R2Through(n, a, c) = [r \in Domain[k[1]] \X Domain[k[2]] |-> Add(old(r), new(r))]
  BY <1>2 DEF R2Through, through
<1> HIDE DEF old, new
<1>6. R2Through(n, a, c) \in Table(k)
  <2>1. \A r \in Domain[k[1]] \X Domain[k[2]] : Add(old(r), new(r)) \in Int
    BY <1>4, AddInt
  <2> QED BY <1>5, <2>1 DEF Table
<1>7. ASSUME k \in DOMAIN edges, Infinite(edges[k], k),
             NEW r \in Domain[k[1]] \cap Domain[k[2]], r >= 1
      PROVE  R2Through(n, a, c)[<<r, r>>] = Inf
  <2>1. PICK rr : rr = <<r, r>>
    OBVIOUS
  <2>2. rr \in Domain[k[1]] \X Domain[k[2]]
    BY <2>1
  <2>3. old(rr) = Inf
    BY <1>7, <2>1 DEF old, Infinite
  <2>4. Add(old(rr), new(rr)) = Inf
    BY <1>4, <2>2, <2>3, AddInt
  <2> QED BY <1>5, <2>1, <2>2, <2>4
<1> QED BY <1>2, <1>6, <1>7 DEF Infinite

\* R2: the two neighbours are linked, or their edge gets the costs as well.
LEMMA R2Keeps ==
  ASSUME IInv, NEW n \in Nodes, R2Reduction(n)
  PROVE  IInv'
<1>1. /\ phase = "reduce" /\ phase' = "reduce" /\ pos \in DOMAIN active /\ n = active[pos]
      /\ ~Concrete(n) /\ Len(neigh[n]) = 2 /\ given' = given /\ cost' = cost
      /\ stack' = Append(stack, Record(n, "R2")) /\ EraseActive(pos)
      /\ pos' = pos /\ assign' = assign /\ copies' = copies
  BY DEF R2Reduction, Scanning, IInv, CtlInv, ActiveInv
<1>2. PICK a, c, k, without :
        a = neigh[n][1] /\ c = neigh[n][2] /\ k = Key(a, c) /\ without = Detached(n)
  OBVIOUS
<1>3. /\ edges' = [p \in DOMAIN edges \cup {k} |->
                     IF p = k THEN R2Through(n, a, c) ELSE edges[p]]
      /\ neigh' = IF k \in DOMAIN edges THEN without
                  ELSE [without EXCEPT ![a] = Append(@, c), ![c] = Append(@, a)]
  BY <1>2 DEF R2Reduction
<1>4. /\ StackInv'
      /\ active' \in Seq(Nodes) /\ IsInjective(active') /\ activePos' \in [Nodes -> Nat]
      /\ Positions(active', activePos') /\ Range(active') = Range(active) \ {n}
      /\ \A m \in Nodes : Concrete(m) => m \in Range(active')
      /\ without \in [Nodes -> Seq(Nodes)]
      /\ Adjacent(DOMAIN edges, without, Range(active'))
  BY <1>1, <1>2, TakeOut
<1>5. n \in Range(active) /\ a \in Range(neigh[n]) /\ c \in Range(neigh[n]) /\ a # c
  <2>1. n \in Range(active)
    BY <1>1 DEF Range
  <2>2. neigh[n] \in Seq(Nodes) /\ IsInjective(neigh[n]) /\ 1 \in DOMAIN neigh[n] /\ 2 \in DOMAIN neigh[n]
    BY <1>1, <2>1 DEF IInv, ActiveInv, AdjacencyAgrees
  <2> QED BY <1>2, <2>1, <2>2 DEF Range, IsInjective
<1>6. /\ a \in Nodes /\ a # n /\ a \in Range(active') /\ edges[Key(n, a)] \in Table(Key(n, a))
      /\ c \in Nodes /\ c # n /\ c \in Range(active') /\ edges[Key(n, c)] \in Table(Key(n, c))
  <2>1. EdgesInv /\ ActiveInv /\ AdjacencyAgrees
    BY DEF IInv
  <2>2. /\ a \in Nodes /\ a # n /\ a \in Range(active) /\ edges[Key(n, a)] \in Table(Key(n, a))
    BY <1>5, <2>1, NeighbourFacts
  <2>3. /\ c \in Nodes /\ c # n /\ c \in Range(active) /\ edges[Key(n, c)] \in Table(Key(n, c))
    BY <1>5, <2>1, NeighbourFacts
  <2> QED BY <1>4, <2>2, <2>3
<1>7. /\ R2Through(n, a, c) \in Table(k) /\ k \in Pairs
      /\ k \in DOMAIN edges /\ Infinite(edges[k], k) => Infinite(R2Through(n, a, c), k)
  BY <1>2, <1>5, <1>6, ThroughTable, KeyNames
<1>8. EdgesInv'
  <2>1. DOMAIN edges' = DOMAIN edges \cup {k}
    BY <1>3
  <2>2. DOMAIN edges' \subseteq Pairs
    BY <1>7, <2>1 DEF IInv, EdgesInv
  <2>3. \A p \in DOMAIN edges' : edges'[p] \in Table(p)
    BY <1>3, <1>7, <2>1 DEF IInv, EdgesInv
  <2>4. ASSUME NEW p \in Pairs, given'.kind[p] = "interfere"
        PROVE  p \in DOMAIN edges' /\ Infinite(edges'[p], p)
    <3>1. p \in DOMAIN edges /\ Infinite(edges[p], p)
      BY <1>1, <2>4 DEF IInv, EdgesInv
    <3>2. p \in DOMAIN edges' /\ edges'[p] = IF p = k THEN R2Through(n, a, c) ELSE edges[p]
      BY <1>3, <2>1, <3>1
    <3> QED BY <1>7, <3>1, <3>2
  <2> QED BY <2>2, <2>3, <2>4 DEF EdgesInv
<1>9. neigh' \in [Nodes -> Seq(Nodes)] /\ Adjacent(DOMAIN edges', neigh', Range(active'))
  <2>1. DOMAIN edges' = DOMAIN edges \cup {k}
    BY <1>3
  <2>2. CASE k \in DOMAIN edges
    <3>1. DOMAIN edges' = DOMAIN edges /\ neigh' = without
      BY <1>3, <2>1, <2>2
    <3> QED BY <1>4, <3>1
  <2>3. CASE k \notin DOMAIN edges
    <3>1. PICK A : A = Range(active')
      OBVIOUS
    <3>2. A \in SUBSET Nodes
      BY <1>4, <3>1 DEF Range
    <3>3. PICK g : g = [without EXCEPT ![a] = Append(@, c), ![c] = Append(@, a)]
      OBVIOUS
    <3>4. g \in [Nodes -> Seq(Nodes)] /\ Adjacent(DOMAIN edges \cup {Key(a, c)}, g, A)
      BY <1>2, <1>4, <1>5, <1>6, <2>3, <3>1, <3>2, <3>3, LinkKeepsAdjacent
    <3> QED BY <1>2, <1>3, <2>1, <2>3, <3>1, <3>3, <3>4
  <2> QED BY <2>2, <2>3
<1>10. CostsInv'
  BY <1>1 DEF IInv, CostsInv
<1>11. ActiveInv'
  BY <1>4, <1>9 DEF ActiveInv
<1>12. AdjacencyAgrees'
  <2>1. Positions(active, activePos)' /\ Adjacent(DOMAIN edges, neigh, Range(active))'
    BY <1>4, <1>9
  <2> QED BY <2>1, AdjacencyParts DEF AdjacencyAgrees, Positions, Adjacent
<1>13. CtlInv'
  <2>1. pos' \in Nat \ {0} /\ copies' \in Seq(Pairs)
    BY <1>1 DEF IInv, CtlInv
  <2> QED BY <1>1, <2>1 DEF CtlInv
<1>14. AssignInv'
  BY <1>1 DEF IInv, AssignInv
<1> QED BY <1>4, <1>8, <1>10, <1>11, <1>12, <1>13, <1>14 DEF IInv

\* RM: the node that is cheapest to spill leaves the graph, wherever it is in active.
LEMMA RMKeeps ==
  ASSUME IInv, NEW n \in Nodes, RMReduction(n)
  PROVE  IInv'
<1>1. /\ phase = "reduce" /\ phase' = "reduce" /\ given' = given /\ edges' = edges /\ cost' = cost
      /\ stack' = Append(stack, Record(n, "RM")) /\ EraseActive(activePos[n])
      /\ neigh' = Detached(n) /\ pos' = 1 /\ assign' = assign /\ copies' = copies
      /\ n \in Range(active) /\ ~Concrete(n)
  BY DEF RMReduction, Victim, Spillable
<1>2. activePos[n] \in DOMAIN active /\ n = active[activePos[n]]
  BY <1>1 DEF IInv, AdjacencyAgrees
<1>3. /\ StackInv'
      /\ active' \in Seq(Nodes) /\ IsInjective(active') /\ activePos' \in [Nodes -> Nat]
      /\ Positions(active', activePos') /\ Range(active') = Range(active) \ {n}
      /\ \A m \in Nodes : Concrete(m) => m \in Range(active')
      /\ Detached(n) \in [Nodes -> Seq(Nodes)]
      /\ Adjacent(DOMAIN edges, Detached(n), Range(active'))
  BY <1>1, <1>2, TakeOut
<1>4. EdgesInv' /\ CostsInv'
  BY <1>1 DEF IInv, EdgesInv, CostsInv
<1>5. ActiveInv'
  BY <1>1, <1>3 DEF ActiveInv
<1>6. AdjacencyAgrees'
  <2>1. Positions(active, activePos)' /\ Adjacent(DOMAIN edges, neigh, Range(active))'
    BY <1>1, <1>3
  <2> QED BY <2>1, AdjacencyParts DEF AdjacencyAgrees, Positions, Adjacent
<1>7. CtlInv'
  <2>1. pos' \in Nat \ {0} /\ copies' \in Seq(Pairs)
    BY <1>1 DEF IInv, CtlInv
  <2> QED BY <1>1, <2>1 DEF CtlInv
<1>8. AssignInv'
  BY <1>1 DEF IInv, AssignInv
<1> QED BY <1>3, <1>4, <1>5, <1>6, <1>7, <1>8 DEF IInv

\* Steps that leave the graph alone.
LEMMA GraphKept ==
  ASSUME EdgesInv, CostsInv, ActiveInv, AdjacencyAgrees, UNCHANGED <<given, graph>>
  PROVE  EdgesInv' /\ CostsInv' /\ ActiveInv' /\ AdjacencyAgrees'
<1>1. /\ given' = given /\ edges' = edges /\ cost' = cost /\ neigh' = neigh
      /\ active' = active /\ activePos' = activePos
  BY DEF graph
<1>2. EdgesInv' /\ CostsInv'
  BY <1>1 DEF EdgesInv, CostsInv
<1>3. ActiveInv' /\ AdjacencyAgrees'
  BY <1>1 DEF ActiveInv, AdjacencyAgrees
<1> QED BY <1>2, <1>3

LEMMA ScanKeeps ==
  ASSUME IInv, SkipNode \/ Rescan
  PROVE  IInv'
<1>1. /\ phase = "reduce" /\ phase' = phase /\ pos' \in Nat \ {0} /\ stack' = stack
      /\ copies' = copies /\ assign' = assign /\ UNCHANGED <<given, graph>>
  BY DEF SkipNode, Rescan, IInv, CtlInv
<1>2. EdgesInv' /\ CostsInv' /\ ActiveInv' /\ AdjacencyAgrees'
  BY <1>1, GraphKept DEF IInv
<1>3. CtlInv'
  BY <1>1 DEF IInv, CtlInv
<1>4. StackInv'
  <2>1. Frames(stack)' /\ NodesOf(stack)' = NodesOf(stack)
    BY <1>1, FramesAtNext DEF IInv, StackInv
  <2> QED BY <1>1, <2>1 DEF IInv, StackInv, graph
<1>5. AssignInv'
  BY <1>1 DEF IInv, AssignInv
<1> QED BY <1>2, <1>3, <1>4, <1>5 DEF IInv

\* The end of the reduction: what is left has no edges, so nothing that interferes
\* with it is left either.
LEMMA EndKeeps ==
  ASSUME IInv, EndReduction
  PROVE  IInv'
<1>1. /\ phase = "reduce" /\ phase' = "colour" /\ Spillable = {} /\ pos' = pos
      /\ copies' = copies /\ assign' = assign /\ UNCHANGED <<given, graph>> /\ given' = given
  BY DEF EndReduction
<1>2. EdgesInv' /\ CostsInv' /\ ActiveInv' /\ AdjacencyAgrees'
  BY <1>1, GraphKept DEF IInv
<1>3. CtlInv'
  BY <1>1 DEF IInv, CtlInv
<1>4. PICK rest : rest = Keeping(active, {n \in Nodes : ~Concrete(n)})
  OBVIOUS
<1>5. PICK t : t = stack \o [i \in DOMAIN rest |->
                               [type |-> "RM", node |-> rest[i], edges |-> {}]]
  OBVIOUS
<1>6. stack' = t
  BY <1>4, <1>5 DEF EndReduction
<1>7. /\ rest \in Seq(Nodes) /\ IsInjective(rest)
      /\ Range(rest) = {n \in Range(active) : ~Concrete(n)}
  <2>1. active \in Seq(Nodes) /\ IsInjective(active) /\ Range(active) \subseteq Nodes
    BY DEF IInv, ActiveInv, Range
  <2>2. Range(rest) = Range(active) \cap {n \in Nodes : ~Concrete(n)}
    BY <1>4, <2>1, KeepingList
  <2>3. rest \in Seq(Nodes) /\ IsInjective(rest)
    BY <1>4, <2>1, KeepingList
  <2> QED BY <2>1, <2>2, <2>3
<1>8. PICK l, k : l = Len(stack) /\ k = Len(rest)
  OBVIOUS
<1>9. /\ stack \in Seq(Frame) /\ l \in Nat /\ DOMAIN stack = 1 .. l
      /\ k \in Nat /\ DOMAIN rest = 1 .. k
  BY <1>7, <1>8 DEF IInv, StackInv, Frames
<1>10. \A i \in 1 .. k :
         /\ [type |-> "RM", node |-> rest[i], edges |-> {}] \in Frame
         /\ rest[i] \in Range(active) /\ rest[i] \in Nodes /\ ~Concrete(rest[i])
  <2> SUFFICES ASSUME NEW i \in 1 .. k
               PROVE  /\ [type |-> "RM", node |-> rest[i], edges |-> {}] \in Frame
                      /\ rest[i] \in Range(active) /\ rest[i] \in Nodes /\ ~Concrete(rest[i])
    OBVIOUS
  <2>1. rest[i] \in Range(rest) /\ rest[i] \in Nodes
    BY <1>7, <1>9 DEF Range
  <2> QED BY <1>7, <2>1 DEF Frame
<1>11. /\ t \in Seq(Frame) /\ DOMAIN t = 1 .. (l + k)
       /\ \A i \in 1 .. l : t[i] = stack[i]
       /\ \A i \in 1 .. k : t[l + i] = [type |-> "RM", node |-> rest[i], edges |-> {}]
  <2>1. PICK F : F = [i \in 1 .. k |-> [type |-> "RM", node |-> rest[i], edges |-> {}]]
    OBVIOUS
  <2>2. F \in Seq(Frame) /\ Len(F) = k
    BY <1>9, <1>10, <2>1
  <2>3. t = stack \o F
    BY <1>5, <1>9, <2>1
  <2>4. t \in Seq(Frame) /\ DOMAIN t = 1 .. (l + k)
    <3>1. t \in Seq(Frame)
      BY <1>9, <2>2, <2>3
    <3>2. Len(stack \o F) = Len(stack) + Len(F)
      BY <1>9, <2>2
    <3>3. Len(t) = l + k
      BY <1>8, <2>2, <2>3, <3>2
    <3> QED BY <3>1, <3>3
  <2>5. \A i \in 1 .. l : t[i] = stack[i]
    BY <1>8, <1>9, <2>2, <2>3
  <2>6. ASSUME NEW i \in 1 .. k PROVE t[l + i] = F[i]
    BY <1>8, <1>9, <2>2, <2>3
  <2> QED BY <2>1, <2>4, <2>5, <2>6
<1>12. \A i \in 1 .. (l + k) : i \in 1 .. l \/ \E j \in 1 .. k : i = l + j
  <2> SUFFICES ASSUME NEW i \in 1 .. (l + k), i \notin 1 .. l PROVE \E j \in 1 .. k : i = l + j
    OBVIOUS
  <2>1. i - l \in 1 .. k /\ i = l + (i - l)
    BY <1>9
  <2> QED BY <2>1
\* Who interferes with a node that is left was taken out before.
<1>13. ASSUME NEW i \in 1 .. k, NEW m \in Interfering(rest[i])
       PROVE  m \in NodesOf(stack)
  <2>1. PICK n : n = rest[i]
    OBVIOUS
  <2>2. n \in Range(active) /\ n \in Nodes /\ ~Concrete(n)
    BY <1>10, <2>1
  <2>3. neigh[n] = <<>>
    BY <1>1, <2>2 DEF Spillable
  <2>4. m \in Nodes /\ m # n /\ Key(n, m) \in DOMAIN edges
    BY <2>1, <2>2, InterferingFacts DEF IInv, EdgesInv
  <2>5. m \notin Range(neigh[n])
    BY <2>3 DEF Range
  <2>6. m \notin Range(active)
    BY <2>2, <2>4, <2>5, AdjacencyParts DEF IInv, Adjacent
  <2> QED BY <1>1, <2>4, <2>6 DEF IInv, ActiveInv, StackInv
<1>14. ASSUME NEW i \in 1 .. (l + k)
       PROVE  FrameOK(t[i]) /\ Covers(t[i], {t[j].node : j \in 1 .. (i - 1)})
  <2>1. CASE i \in 1 .. l
    <3>1. \A j \in 1 .. (i - 1) : j \in 1 .. l
      BY <1>9, <2>1
    <3>2. {t[j].node : j \in 1 .. (i - 1)} = {stack[j].node : j \in 1 .. (i - 1)}
      BY <1>11, <3>1
    <3>3. FrameOK(stack[i]) /\ Covers(stack[i], {stack[j].node : j \in 1 .. (i - 1)})
      BY <1>9, <2>1 DEF IInv, StackInv, Frames
    <3> QED BY <1>11, <2>1, <3>2, <3>3
  <2>2. CASE \E j \in 1 .. k : i = l + j
    <3>1. PICK j \in 1 .. k : i = l + j
      BY <2>2
    <3>2. /\ t[i] = [type |-> "RM", node |-> rest[j], edges |-> {}] /\ t[i] \in Frame
          /\ ~Concrete(rest[j])
      BY <1>10, <1>11, <3>1
    <3>3. FrameOK(t[i])
      BY <3>2, FS_EmptySet DEF FrameOK
    <3>4. NodesOf(stack) \subseteq {t[q].node : q \in 1 .. (i - 1)}
      <4>1. \A q \in 1 .. l : q \in 1 .. (i - 1)
        BY <1>9, <3>1
      <4> QED BY <1>9, <1>11, <4>1 DEF NodesOf
    <3>5. \A m \in Interfering(rest[j]) : m \in NodesOf(stack)
      BY <1>13
    <3> QED BY <3>2, <3>3, <3>4, <3>5 DEF Covers
  <2> QED BY <1>12, <2>1, <2>2
<1>15. ASSUME NEW i \in 1 .. (l + k), NEW j \in 1 .. (l + k), t[i].node = t[j].node
       PROVE  i = j
  <2>1. \A q \in 1 .. l : t[q].node \notin Range(active)
    <3>1. \A q \in 1 .. l : t[q].node \in NodesOf(stack) /\ t[q].node \in Nodes /\ ~Concrete(t[q].node)
      BY <1>9, <1>11 DEF NodesOf, IInv, StackInv, Frames, FrameOK, Frame
    <3> QED BY <1>1, <3>1 DEF IInv, StackInv
  <2>2. ASSUME NEW q \in 1 .. k
        PROVE  t[l + q].node = rest[q] /\ t[l + q].node \in Range(active)
    <3>1. t[l + q] = [type |-> "RM", node |-> rest[q], edges |-> {}]
      BY <1>11
    <3>2. rest[q] \in Range(active)
      BY <1>10
    <3> QED BY <3>1, <3>2
  <2>3. CASE i \in 1 .. l /\ j \in 1 .. l
    BY <1>9, <1>11, <1>15, <2>3 DEF IInv, StackInv, Frames
  <2>4. CASE \E p, q \in 1 .. k : i = l + p /\ j = l + q
    <3>1. PICK p, q \in 1 .. k : i = l + p /\ j = l + q
      BY <2>4
    <3>2. rest[p] = rest[q]
      BY <1>15, <2>2, <3>1
    <3>3. p = q
      BY <1>7, <1>9, <3>2 DEF IsInjective
    <3> QED BY <3>1, <3>3
  <2> QED BY <1>12, <1>15, <2>1, <2>2, <2>3, <2>4
<1>16. Frames(t)
  <2>1. \A i \in DOMAIN t : FrameOK(t[i]) /\ Covers(t[i], {t[j].node : j \in 1 .. (i - 1)})
    BY <1>11, <1>14
  <2>2. \A i, j \in DOMAIN t : t[i].node = t[j].node => i = j
    BY <1>11, <1>15
  <2> QED BY <1>11, <2>1, <2>2, Zenon DEF Frames
<1>17. \A n \in Nodes : ~Concrete(n) => n \in NodesOf(t)
  <2> SUFFICES ASSUME NEW n \in Nodes, ~Concrete(n) PROVE n \in NodesOf(t)
    OBVIOUS
  <2>1. CASE n \in NodesOf(stack)
    <3>1. PICK i \in 1 .. l : n = stack[i].node
      BY <1>9, <2>1 DEF NodesOf
    <3>2. i \in 1 .. (l + k) /\ t[i].node = n
      BY <1>9, <1>11, <3>1
    <3> QED BY <1>11, <3>2 DEF NodesOf
  <2>2. CASE n \notin NodesOf(stack)
    <3>1. n \in Range(rest)
      BY <1>1, <1>7, <2>2 DEF IInv, StackInv
    <3>2. PICK i \in 1 .. k : n = rest[i]
      BY <1>9, <3>1 DEF Range
    <3>3. l + i \in 1 .. (l + k)
      BY <1>9
    <3>4. t[l + i] = [type |-> "RM", node |-> rest[i], edges |-> {}]
      BY <1>11
    <3>5. t[l + i].node = n
      BY <3>2, <3>4
    <3> QED BY <1>11, <3>3, <3>5 DEF NodesOf
  <2> QED BY <2>1, <2>2
<1>18. Frames(stack)' /\ NodesOf(stack)' = NodesOf(t)
  BY <1>1, <1>6, <1>16, FramesAtNext
<1>19. StackInv'
  BY <1>1, <1>18 DEF StackInv
<1>20. AssignInv'
  <2>1. assign' \in [Nodes -> Nat] /\ \A n \in Nodes : assign'[n] \in Domain[n]
    BY <1>1 DEF IInv, AssignInv
  <2>2. ASSUME NEW n \in Nodes \ NodesOf(t), NEW m \in Nodes \ NodesOf(t), m \in Interfering(n)
        PROVE  assign[m] # assign[n]
    <3>1. Concrete(n) /\ Concrete(m) /\ m # n
      BY <1>17, <2>2, InterferingFacts
    <3>2. Domain[n] = {assign[n]} /\ Domain[m] = {assign[m]}
      BY <1>1, <2>1, <3>1, DomainAssumption
    <3> QED BY <3>1, <3>2, DomainAssumption
  <2>3. \A n, m \in Nodes : m \in Interfering(n)' => m \in Interfering(n)
    BY <1>1 DEF Interfering
  <2> QED BY <1>1, <1>18, <2>1, <2>2, <2>3 DEF AssignInv
<1> QED BY <1>2, <1>3, <1>19, <1>20 DEF IInv

\* Choice takes a register of the domain, and no register whose cost is beyond the limit.
LEMMA ChoiceFacts ==
  ASSUME NEW u \in Nodes, ~Concrete(u), NEW sel, NEW r, r = Choice(sel, Domain[u])
  PROVE  r \in Domain[u] /\ (r # 0 => sel[r] < Limit)
<1>1. PICK best :
        best = {q \in Domain[u] : sel[q] < Limit /\ \A p \in Domain[u] : sel[q] <= sel[p]}
  OBVIOUS
<1>2. r = IF best \ {0} # {} THEN Min(best \ {0}) ELSE 0
  BY <1>1 DEF Choice
<1>3. CASE best \ {0} # {}
  <2>1. PICK b : b = best \ {0}
    OBVIOUS
  <2>2. b \subseteq Domain[u] /\ b # {} /\ IsFiniteSet(Domain[u]) /\ Domain[u] \subseteq Nat
    BY <1>1, <1>3, <2>1, DomainAssumption
  <2>3. IsFiniteSet(b)
    BY <2>2, FS_Subset
  <2>4. b \in SUBSET Int
    BY <2>2
  <2>5. Min(b) \in b
    BY <2>2, <2>3, <2>4, MinOf
  <2> QED BY <1>1, <1>2, <1>3, <2>1, <2>5
<1>4. CASE best \ {0} = {}
  BY <1>2, <1>4 DEF Concrete
<1> QED BY <1>3, <1>4

\* Colouring: a neighbour that interferes and has its register is named by the
\* record, so that register costs too much.
LEMMA ColourKeeps ==
  ASSUME IInv, Colour
  PROVE  IInv'
<1>1. /\ phase = "colour" /\ phase' = "colour" /\ stack # <<>> /\ stack' = Front(stack)
      /\ pos' = pos /\ copies' = copies /\ UNCHANGED <<given, graph>> /\ given' = given
  BY DEF Colour
<1>2. PICK u, e, sel, r :
        /\ e = Last(stack) /\ u = e.node /\ r = Choice(sel, Domain[u])
        /\ sel = [q \in Domain[u] |-> Add(cost[u][q], EdgesPaid(u, q, e.edges))]
  OBVIOUS
<1>3. assign' = [assign EXCEPT ![u] = r]
  BY <1>2 DEF Colour
<1>4. /\ Frames(Front(stack)) /\ NodesOf(Front(stack)) = NodesOf(stack) \ {u}
      /\ FrameOK(e) /\ Covers(e, NodesOf(Front(stack)))
      /\ u \in NodesOf(stack)
  <2>1. Frames(stack)
    BY DEF IInv, StackInv
  <2> QED BY <1>1, <1>2, <2>1, PopFrame
<1>5. /\ u \in Nodes /\ ~Concrete(u) /\ IsFiniteSet(e.edges)
      /\ \A x \in e.edges : x.other \in Nodes /\ x.other # u /\ x.costs \in Table(Key(u, x.other))
  BY <1>2, <1>4 DEF FrameOK, Frame
<1>6. EdgesInv' /\ CostsInv' /\ ActiveInv' /\ AdjacencyAgrees'
  BY <1>1, GraphKept DEF IInv
<1>7. CtlInv'
  BY <1>1 DEF IInv, CtlInv
<1>8. Frames(stack)' /\ NodesOf(stack)' = NodesOf(stack) \ {u}
  BY <1>1, <1>4, FramesAtNext
<1>9. StackInv'
  BY <1>1, <1>8 DEF StackInv
<1>10. r \in Domain[u] /\ r \in Nat /\ (r # 0 => sel[r] < Limit)
  BY <1>2, <1>5, ChoiceFacts, DomainAssumption
<1>11. assign \in [Nodes -> Nat] /\ \A n \in Nodes : assign[n] \in Domain[n]
  BY DEF IInv, AssignInv
<1>12. ASSUME NEW m \in Interfering(u), m \notin NodesOf(stack), r # 0
       PROVE  assign[m] # r
  <2> SUFFICES ASSUME assign[m] = r PROVE FALSE
    OBVIOUS
  <2>1. m \in Nodes /\ m # u
    BY <1>5, InterferingFacts
  <2>2. PICK x \in e.edges : x.other = m /\ Infinite(x.costs, Key(u, m))
    BY <1>2, <1>4, <1>12 DEF Covers
  <2>3. ASSUME NEW y \in e.edges PROVE CostOf(y.costs, u, r, y.other, assign[y.other]) \in Int
    BY <1>5, <1>10, <1>11, CostInt
  <2>4. CostOf(x.costs, u, r, x.other, assign[x.other]) = Inf
    <3>1. r >= 1 /\ r \in Domain[m] /\ x.costs \in Table(Key(u, m))
      BY <1>5, <1>10, <1>11, <1>12, <2>1, <2>2
    <3> QED BY <1>5, <1>10, <2>1, <2>2, <3>1, CostInt
  <2>5. EdgesPaid(u, r, e.edges) = Inf
    BY <1>5, <2>3, <2>4, InfiniteSum
  <2>6. sel[r] = Inf
    <3>1. cost[u][r] \in Int
      BY <1>5, <1>10 DEF IInv, CostsInv
    <3> QED BY <1>2, <1>10, <2>5, <3>1, AddInt
  <2> QED BY <1>10, <1>12, <2>6, CostAssumption
<1>13. AssignInv'
  <2>1. assign' \in [Nodes -> Nat] /\ \A n \in Nodes : assign'[n] \in Domain[n]
    BY <1>3, <1>5, <1>10, <1>11
  <2>2. ASSUME NEW n \in Nodes, n \notin NodesOf(stack) \ {u},
               NEW m \in Nodes, m \notin NodesOf(stack) \ {u},
               m \in Interfering(n), assign'[n] # 0
        PROVE  assign'[m] # assign'[n]
    <3>1. m # n /\ n \in Interfering(m)
      BY <2>2, InterferingFacts
    <3>2. CASE n = u
      <4>1. m \notin NodesOf(stack) /\ assign'[m] = assign[m] /\ assign'[n] = r
        BY <1>3, <1>5, <1>11, <2>2, <3>1, <3>2
      <4> QED BY <1>12, <2>2, <3>2, <4>1
    <3>3. CASE m = u
      <4>1. n \notin NodesOf(stack) /\ assign'[n] = assign[n] /\ assign'[m] = r
        BY <1>3, <1>5, <1>11, <2>2, <3>1, <3>3
      <4>2. CASE r # 0
        BY <1>12, <3>1, <3>3, <4>1, <4>2
      <4>3. CASE r = 0
        BY <2>2, <4>1, <4>3
      <4> QED BY <4>2, <4>3
    <3>4. CASE n # u /\ m # u
      <4>1. assign'[n] = assign[n] /\ assign'[m] = assign[m]
        BY <1>3, <1>11, <2>2, <3>4
      <4>2. n \notin NodesOf(stack) /\ m \notin NodesOf(stack)
        BY <2>2, <3>4
      <4> QED BY <1>1, <2>2, <4>1, <4>2 DEF IInv, AssignInv
    <3> QED BY <3>2, <3>3, <3>4
  <2>3. \A n, m \in Nodes : m \in Interfering(n)' => m \in Interfering(n)
    BY <1>1 DEF Interfering
  <2> QED BY <1>8, <2>1, <2>2, <2>3 DEF AssignInv
<1> QED BY <1>6, <1>7, <1>9, <1>13 DEF IInv

\* Coalescing starts when the stack is empty, so every node has its register.
LEMMA StartKeeps ==
  ASSUME IInv, StartCoalescing
  PROVE  IInv'
<1>1. /\ phase = "colour" /\ phase' = "coalesce" /\ stack = <<>> /\ stack' = stack
      /\ pos' = pos /\ assign' = assign /\ UNCHANGED <<given, graph>> /\ given' = given
  BY DEF StartCoalescing
<1>2. EdgesInv' /\ CostsInv' /\ ActiveInv' /\ AdjacencyAgrees'
  BY <1>1, GraphKept DEF IInv
<1>3. copies' \in Seq(Pairs)
  <2>1. PICK found : /\ found \subseteq Pairs
                     /\ \E order \in SetToSeqs(found) : copies' = order \o order
    BY DEF StartCoalescing
  <2>2. PICK order \in SetToSeqs(found) : copies' = order \o order
    BY <2>1
  <2>3. IsFiniteSet(found)
    <3>1. IsFiniteSet(Nodes \X Nodes)
      BY NodesAssumption, FS_Product
    <3>2. found \subseteq Nodes \X Nodes
      BY <2>1 DEF Pairs
    <3> QED BY <3>1, <3>2, FS_Subset
  <2>4. Cardinality(found) \in Nat
    BY <2>3, FS_CardinalityType
  <2>5. order \in [1 .. Cardinality(found) -> found]
    BY DEF SetToSeqs
  <2>6. order \in Seq(Pairs)
    BY <2>1, <2>4, <2>5
  <2> QED BY <2>2, <2>6
<1>4. CtlInv'
  BY <1>1, <1>3 DEF IInv, CtlInv
<1>5. Frames(stack)' /\ NodesOf(stack)' = NodesOf(stack)
  BY <1>1, FramesAtNext DEF IInv, StackInv
<1>6. StackInv'
  BY <1>1, <1>5 DEF StackInv
<1>7. \A n, m \in Nodes : m \in Interfering(n)' => m \in Interfering(n)
  BY <1>1 DEF Interfering
<1>8. AssignInv'
  BY <1>1, <1>5, <1>7 DEF IInv, AssignInv
<1> QED BY <1>2, <1>4, <1>6, <1>8 DEF IInv

\* A move goes to a register that no node that interferes has.
LEMMA MoveKeepsApart ==
  ASSUME IInv, phase = "coalesce", NEW d \in Nodes, NEW to, CanMove(d, to)
  PROVE  LET a == [assign EXCEPT ![d] = to]
         IN  /\ a \in [Nodes -> Nat] /\ \A n \in Nodes : a[n] \in Domain[n]
             /\ \A n, m \in Nodes : m \in Interfering(n) /\ a[n] # 0 => a[m] # a[n]
<1>1. /\ to # 0 /\ to \in Domain[d] /\ to \in Nat
      /\ \A m \in Interfering(d) : assign[m] # to
  BY DomainAssumption DEF CanMove
<1>2. /\ assign \in [Nodes -> Nat] /\ \A n \in Nodes : assign[n] \in Domain[n]
      /\ \A n, m \in Nodes : m \in Interfering(n) /\ assign[n] # 0 => assign[m] # assign[n]
  <2>1. NodesOf(stack) = {}
    BY DEF IInv, CtlInv, NodesOf
  <2> QED BY <2>1 DEF IInv, AssignInv
<1>3. PICK a : a = [assign EXCEPT ![d] = to]
  OBVIOUS
<1>4. a[d] = to /\ \A n \in Nodes \ {d} : a[n] = assign[n]
  BY <1>2, <1>3
<1>5. a \in [Nodes -> Nat] /\ \A n \in Nodes : a[n] \in Domain[n]
  BY <1>1, <1>2, <1>3
<1>6. ASSUME NEW n \in Nodes, NEW m \in Nodes, m \in Interfering(n), a[n] # 0
      PROVE  a[m] # a[n]
  <2>1. m # n /\ n \in Interfering(m)
    BY <1>6, InterferingFacts
  <2> QED BY <1>1, <1>2, <1>4, <1>6, <2>1
<1> QED BY <1>3, <1>5, <1>6

LEMMA CoalesceKeeps ==
  ASSUME IInv, Coalesce
  PROVE  IInv'
<1>1. /\ phase = "coalesce" /\ phase' = "coalesce" /\ stack' = stack /\ copies # <<>>
      /\ copies' = Tail(copies) /\ pos' = pos /\ UNCHANGED <<given, graph>> /\ given' = given
  BY DEF Coalesce
<1>2. EdgesInv' /\ CostsInv' /\ ActiveInv' /\ AdjacencyAgrees'
  BY <1>1, GraphKept DEF IInv
<1>3. CtlInv'
  BY <1>1 DEF IInv, CtlInv
<1>4. Frames(stack)' /\ NodesOf(stack)' = NodesOf(stack)
  BY <1>1, FramesAtNext DEF IInv, StackInv
<1>5. StackInv'
  BY <1>1, <1>4 DEF StackInv
<1>6. PICK d, t : d = Head(copies)[1] /\ t = Head(copies)[2]
  OBVIOUS
<1>7. d \in Nodes /\ t \in Nodes
  <2>1. Head(copies) \in Pairs
    BY <1>1 DEF IInv, CtlInv
  <2> QED BY <1>6, <2>1 DEF Pairs
<1>8. assign' = IF CanMove(d, assign[t]) THEN [assign EXCEPT ![d] = assign[t]]
                ELSE IF CanMove(t, assign[d]) THEN [assign EXCEPT ![t] = assign[d]]
                ELSE assign
  BY <1>6 DEF Coalesce
<1>9. /\ assign' \in [Nodes -> Nat] /\ \A n \in Nodes : assign'[n] \in Domain[n]
      /\ \A n, m \in Nodes : m \in Interfering(n) /\ assign'[n] # 0 => assign'[m] # assign'[n]
  <2>1. CASE CanMove(d, assign[t])
    <3>1. assign' = [assign EXCEPT ![d] = assign[t]]
      BY <1>8, <2>1
    <3> QED BY <1>1, <1>7, <2>1, <3>1, MoveKeepsApart
  <2>2. CASE ~CanMove(d, assign[t]) /\ CanMove(t, assign[d])
    <3>1. assign' = [assign EXCEPT ![t] = assign[d]]
      BY <1>8, <2>2
    <3> QED BY <1>1, <1>7, <2>2, <3>1, MoveKeepsApart
  <2>3. CASE ~CanMove(d, assign[t]) /\ ~CanMove(t, assign[d])
    <3>1. assign' = assign
      BY <1>8, <2>3
    <3>2. NodesOf(stack) = {}
      BY <1>1 DEF IInv, CtlInv, NodesOf
    <3> QED BY <1>1, <3>1, <3>2 DEF IInv, AssignInv
  <2> QED BY <2>1, <2>2, <2>3
<1>10. \A n, m \in Nodes : m \in Interfering(n)' => m \in Interfering(n)
  BY <1>1 DEF Interfering
<1>11. AssignInv'
  BY <1>9, <1>10 DEF AssignInv
<1> QED BY <1>2, <1>3, <1>5, <1>11 DEF IInv

LEMMA FinishKeeps ==
  ASSUME IInv, Finish \/ UNCHANGED vars
  PROVE  IInv'
<1>1. /\ UNCHANGED <<given, graph>> /\ given' = given /\ stack' = stack /\ pos' = pos
      /\ copies' = copies /\ assign' = assign
      /\ (phase = "coalesce" /\ phase' = "done") \/ phase' = phase
  BY DEF Finish, vars
<1>2. EdgesInv' /\ CostsInv' /\ ActiveInv' /\ AdjacencyAgrees'
  BY <1>1, GraphKept DEF IInv
<1>3. CtlInv'
  BY <1>1 DEF IInv, CtlInv
<1>4. Frames(stack)' /\ NodesOf(stack)' = NodesOf(stack)
  BY <1>1, FramesAtNext DEF IInv, StackInv
<1>5. StackInv'
  <2>1. active' = active
    BY <1>1 DEF graph
  <2> QED BY <1>1, <1>4, <2>1 DEF IInv, StackInv
<1>6. \A n, m \in Nodes : m \in Interfering(n)' => m \in Interfering(n)
  BY <1>1 DEF Interfering
<1>7. AssignInv'
  BY <1>1, <1>4, <1>6 DEF IInv, AssignInv
<1> QED BY <1>2, <1>3, <1>5, <1>7 DEF IInv

\* The graph that is set up: an edge for every pair that has one.
LEMMA InitHolds == Init => IInv
<1> SUFFICES ASSUME Init PROVE IInv
  OBVIOUS
<1> DEFINE Present(kind) == {p \in Pairs : kind[p] # "none"}
           Lists(present) == [n \in Nodes |->
                                Keeping(InOrder, {m \in Nodes : Key(n, m) \in present})]
           Graph(kind, c) ==
             [edges |-> [p \in Present(kind) |-> Matrix(p, kind[p])], cost |-> c, kind |-> kind]
<1>0. PICK kind \in EdgeKinds, c \in NodeCosts :
        given = Graph(kind, c) /\ cost = c /\ neigh = Lists(Present(kind))
  BY Zenon DEF Init
<1>1. PICK present :
        /\ present = {p \in Pairs : kind[p] # "none"}
        /\ given = [edges |-> [p \in present |-> Matrix(p, kind[p])], cost |-> c,
                    kind |-> kind]
        /\ cost = c
        /\ neigh = [n \in Nodes |->
                      Keeping(InOrder, {m \in Nodes : Key(n, m) \in present})]
  BY <1>0
<1>2. /\ edges = given.edges /\ active = InOrder
      /\ activePos = [n \in Nodes |-> CHOOSE k \in DOMAIN active : active[k] = n]
      /\ pos = 1 /\ stack = <<>> /\ phase = "reduce" /\ copies = <<>>
      /\ assign = [n \in Nodes |-> IF Concrete(n) THEN CHOOSE r \in Domain[n] : TRUE ELSE 0]
  BY DEF Init
<1>3. given.kind = kind /\ edges = [p \in present |-> Matrix(p, kind[p])] /\ DOMAIN edges = present
  BY <1>1, <1>2
<1>4. EdgesInv
  <2>1. present \subseteq Pairs
    BY <1>1
  <2>2. ASSUME NEW p \in present PROVE edges[p] \in Table(p)
    BY <1>3, <2>1, <2>2, MatrixTable
  <2>3. ASSUME NEW p \in Pairs, given.kind[p] = "interfere"
        PROVE  p \in present /\ Infinite(edges[p], p)
    BY <1>1, <1>3, <2>3, MatrixTable
  <2> QED BY <1>3, <2>1, <2>2, <2>3 DEF EdgesInv
<1>5. CostsInv
  BY <1>1, CostAssumption DEF CostsInv
<1>6. /\ InOrder \in Seq(Nodes) /\ IsInjective(InOrder) /\ DOMAIN InOrder = Nodes
      /\ Range(InOrder) = Nodes /\ \A n \in Nodes : InOrder[n] = n
  <2>1. PICK N \in Nat : Nodes = 1 .. N
    BY NodesAssumption, NodesAreNumbers
  <2> QED BY <2>1 DEF InOrder, IsInjective, Range
<1>7. Positions(active, activePos) /\ activePos \in [Nodes -> Nat]
  <2>1. ASSUME NEW n \in Nodes
        PROVE  activePos[n] \in DOMAIN active /\ active[activePos[n]] = n
    <3>1. \E k \in DOMAIN active : active[k] = n
      BY <1>2, <1>6
    <3>2. activePos[n] = CHOOSE k \in DOMAIN active : active[k] = n
      BY <1>2
    <3> QED BY <3>1, <3>2, Zenon
  <2>2. activePos \in [Nodes -> Nat]
    BY <1>2, <1>6, <2>1, NodesAreNumbers
  <2> QED BY <1>2, <1>6, <2>1, <2>2 DEF Positions
<1>8. ASSUME NEW n \in Nodes
      PROVE  /\ neigh[n] \in Seq(Nodes) /\ IsInjective(neigh[n])
             /\ Range(neigh[n]) = {m \in Nodes : Key(n, m) \in present}
  <2>1. PICK K : K = {m \in Nodes : Key(n, m) \in present}
    OBVIOUS
  <2>2. neigh[n] = Keeping(InOrder, K)
    BY <1>1, <2>1
  <2>3. K \subseteq Nodes
    BY <2>1
  <2> QED BY <1>6, <2>1, <2>2, <2>3, KeepingList
<1>9. ActiveInv
  <2>1. neigh \in [Nodes -> Seq(Nodes)]
    BY <1>1, <1>8
  <2> QED BY <1>2, <1>6, <1>7, <2>1 DEF ActiveInv
<1>10. AdjacencyAgrees
  <2>1. ASSUME NEW n \in Nodes, NEW m \in Nodes, Key(n, m) \in present PROVE m # n
    <3>1. Key(n, m) \in Pairs /\ n \in Nat
      BY <1>1, <2>1, NodesAreNumbers
    <3> SUFFICES ASSUME m = n PROVE FALSE
      OBVIOUS
    <3>2. Key(n, m) = <<n, n>>
      BY DEF Key
    <3> QED BY <3>1, <3>2 DEF Pairs
  <2>2. Adjacent(DOMAIN edges, neigh, Range(active))
    BY <1>2, <1>3, <1>6, <1>8, <2>1 DEF Adjacent
  <2> QED BY <1>7, <2>2, AdjacencyParts
<1>11. CtlInv
  BY <1>2 DEF CtlInv
<1>12. StackInv
  <2>1. NodesOf(stack) = {}
    BY <1>2 DEF NodesOf
  <2>2. Frames(stack)
    BY <1>2 DEF Frames
  <2> QED BY <1>2, <1>6, <2>1, <2>2 DEF StackInv
<1>13. AssignInv
  <2>1. ASSUME NEW n \in Nodes PROVE assign[n] \in Domain[n] /\ assign[n] \in Nat
    <3>1. CASE Concrete(n)
      <4>1. assign[n] = CHOOSE r \in Domain[n] : TRUE
        BY <1>2, <3>1
      <4>2. \E r \in Domain[n] : TRUE
        BY <3>1, DomainAssumption
      <4>3. assign[n] \in Domain[n]
        BY <4>1, <4>2, Zenon
      <4> QED BY <4>3, DomainAssumption
    <3>2. CASE ~Concrete(n)
      <4>1. assign[n] = 0
        BY <1>2, <3>2
      <4> QED BY <3>2, <4>1 DEF Concrete
    <3> QED BY <3>1, <3>2
  <2> QED BY <1>2, <2>1 DEF AssignInv
<1> QED BY <1>4, <1>5, <1>9, <1>10, <1>11, <1>12, <1>13 DEF IInv

LEMMA StepKeeps == IInv /\ [Next]_vars => IInv'
<1> SUFFICES ASSUME IInv, [Next]_vars PROVE IInv'
  OBVIOUS
<1>1. ASSUME NEW n \in Nodes, R1Reduction(n) PROVE IInv'
  BY <1>1, R1Keeps
<1>2. ASSUME NEW n \in Nodes, R2Reduction(n) PROVE IInv'
  BY <1>2, R2Keeps
<1>3. CASE SkipNode \/ Rescan
  BY <1>3, ScanKeeps
<1>4. ASSUME NEW n \in Nodes, RMReduction(n) PROVE IInv'
  BY <1>4, RMKeeps
<1>5. CASE EndReduction
  BY <1>5, EndKeeps
<1>6. CASE Colour
  BY <1>6, ColourKeeps
<1>7. CASE StartCoalescing
  BY <1>7, StartKeeps
<1>8. CASE Coalesce
  BY <1>8, CoalesceKeeps
<1>9. CASE Finish
  BY <1>9, FinishKeeps
<1>10. CASE Done \/ UNCHANGED vars
  BY <1>10, FinishKeeps DEF Done
<1> QED BY <1>1, <1>2, <1>3, <1>4, <1>5, <1>6, <1>7, <1>8, <1>9, <1>10 DEF Next

\* CostGraph's lists, its edge_lookup and active_pos agree after every reduction: the
\* neighbours of a node of the graph are the nodes of the graph it has an edge with.
THEOREM GraphConsistent == Spec => []AdjacencyAgrees
<1>1. IInv => AdjacencyAgrees
  BY DEF IInv
<1> QED BY <1>1, InitHolds, StepKeeps, PTL DEF Spec

\* When actually_allocate has coloured every node, and whatever coalesce_copies moves
\* then, two values that interfere are not in one register: neither with a precoloured
\* node, nor across an edge that a reduction folded or dropped.
THEOREM InterferingApart == Spec => []NoConflict
<1>1. ASSUME IInv PROVE NoConflict
  <2> SUFFICES ASSUME phase \in {"coalesce", "done"}, NEW n \in Nodes, assign[n] # 0,
                      NEW m \in Interfering(n)
               PROVE  assign[m] # assign[n]
    BY DEF NoConflict
  <2>1. NodesOf(stack) = {} /\ phase # "reduce"
    BY <1>1 DEF IInv, CtlInv, NodesOf
  <2>2. m \in Nodes
    BY DEF Interfering
  <2> QED BY <1>1, <2>1, <2>2 DEF IInv, AssignInv
<1> QED BY <1>1, InitHolds, StepKeeps, PTL DEF Spec

----------------------------------------------------------------------------
(* Sums.  A cost table's sum is kept for every set of its entries, so that the *)
(* order of the additions does not matter.                                 *)

SumsOf(g, f) ==
  /\ g \in [SUBSET DOMAIN f -> Int] /\ g[{}] = 0
  /\ \A s \in SUBSET DOMAIN f : \A x \in s : g[s] = f[x] + g[s \ {x}]

SumOver(f, s) == (CHOOSE g : SumsOf(g, f))[s]

\* A finite table has sums.
LEMMA SumsExist ==
  ASSUME NEW S, IsFiniteSet(S), NEW f \in [S -> Int]
  PROVE  \E g : SumsOf(g, f)
<1>1. PICK ch : ch = [s \in SUBSET S |-> CHOOSE x \in s : TRUE]
  OBVIOUS
<1>2. PICK h : h = [p \in S \X Int |-> f[p[1]] + p[2]]
  OBVIOUS
<1>3. \A s \in SUBSET S : s # {} => ch[s] \in s
  <2> SUFFICES ASSUME NEW s \in SUBSET S, s # {} PROVE ch[s] \in s
    OBVIOUS
  <2> QED BY <1>1, Zenon
<1>4. h \in [S \X Int -> Int] /\ \A x \in S, v \in Int : h[<<x, v>>] = f[x] + v
  BY <1>2
<1>5. PICK g \in [SUBSET S -> Int] : Solves(g, S, 0, ch, h)
  <2>1. 0 \in Int
    OBVIOUS
  <2> QED BY <1>3, <1>4, <2>1, SolutionExists
<1>6. ASSUME NEW s \in SUBSET S, s # {}
      PROVE  ch[s] \in s /\ g[s] = f[ch[s]] + g[s \ {ch[s]}]
  <2>1. ch[s] \in s /\ ch[s] \in S
    BY <1>3, <1>6
  <2>2. g[s] = h[<<ch[s], g[s \ {ch[s]}]>>]
    BY <1>5, <1>6 DEF Solves
  <2>3. PICK v : v = g[s \ {ch[s]}]
    OBVIOUS
  <2>4. v \in Int
    BY <2>3
  <2> QED BY <1>4, <2>1, <2>2, <2>3, <2>4
<1> DEFINE Bad == {s \in SUBSET S : ~ \A x \in s : g[s] = f[x] + g[s \ {x}]}
<1>7. ASSUME Bad # {} PROVE FALSE
  <2>1. PICK s \in Bad : \A y \in Bad : y \subseteq s => y = s
    <3>1. Bad \in SUBSET SUBSET S
      OBVIOUS
    <3> HIDE DEF Bad
    <3> QED BY <3>1, <1>7, MinimalSet
  <2>2. PICK x \in s : g[s] # f[x] + g[s \ {x}]
    BY <2>1
  <2>3. PICK y : y = ch[s]
    OBVIOUS
  <2>4. s \in SUBSET S /\ y \in s /\ g[s] = f[y] + g[s \ {y}]
    BY <2>1, <2>2, <2>3, <1>6
  <2>5. x # y
    BY <2>2, <2>4
  <2>6. PICK sx, sy, r : sx = s \ {x} /\ sy = s \ {y} /\ r = s \ {x, y}
    OBVIOUS
  <2>7. /\ sx \in SUBSET S /\ sx # s /\ sx \subseteq s /\ y \in sx
        /\ sy \in SUBSET S /\ sy # s /\ sy \subseteq s /\ x \in sy
        /\ r \in SUBSET S /\ sx \ {y} = r /\ sy \ {x} = r
    BY <2>2, <2>4, <2>5, <2>6
  <2>8. sx \notin Bad /\ sy \notin Bad
    BY <2>1, <2>7
  <2>9. g[sx] = f[y] + g[r]
    BY <2>7, <2>8
  <2>10. g[sy] = f[x] + g[r]
    BY <2>7, <2>8
  <2>11. f[x] \in Int /\ f[y] \in Int /\ g[r] \in Int
    BY <2>2, <2>4, <2>7
  <2>12. g[s] = f[y] + (f[x] + g[r]) /\ g[s] # f[x] + (f[y] + g[r])
    BY <2>2, <2>4, <2>6, <2>9, <2>10
  <2> QED BY <2>11, <2>12
<1>8. g[{}] = 0
  BY <1>5 DEF Solves
<1>9. DOMAIN f = S
  OBVIOUS
<1>10. \A s \in SUBSET S : \A x \in s : g[s] = f[x] + g[s \ {x}]
  BY <1>7
<1> QED BY <1>5, <1>8, <1>9, <1>10 DEF SumsOf

\* The sum over nothing is zero.
LEMMA SumEmpty ==
  ASSUME NEW S, IsFiniteSet(S), NEW f \in [S -> Int]
  PROVE  SumOver(f, {}) = 0
<1>1. PICK g : g = CHOOSE h : SumsOf(h, f)
  OBVIOUS
<1>2. SumsOf(g, f)
  BY <1>1, SumsExist, Zenon
<1> QED BY <1>1, <1>2 DEF SumsOf, SumOver

\* The sum is an integer.
LEMMA SumInt ==
  ASSUME NEW S, IsFiniteSet(S), NEW f \in [S -> Int], NEW s \in SUBSET S
  PROVE  SumOver(f, s) \in Int
<1>1. PICK g : g = CHOOSE h : SumsOf(h, f)
  OBVIOUS
<1>2. SumsOf(g, f)
  BY <1>1, SumsExist, Zenon
<1>3. SumOver(f, s) = g[s]
  BY <1>1 DEF SumOver
<1>4. DOMAIN f = S
  OBVIOUS
<1> QED BY <1>2, <1>3, <1>4 DEF SumsOf

\* Any of the entries may be added last.
LEMMA SumStep ==
  ASSUME NEW S, IsFiniteSet(S), NEW f \in [S -> Int], NEW s \in SUBSET S, NEW x \in s
  PROVE  SumOver(f, s) = f[x] + SumOver(f, s \ {x})
<1>1. PICK g : g = CHOOSE h : SumsOf(h, f)
  OBVIOUS
<1>2. SumsOf(g, f)
  BY <1>1, SumsExist, Zenon
<1>3. \A t : SumOver(f, t) = g[t]
  BY <1>1 DEF SumOver
<1>4. DOMAIN f = S
  OBVIOUS
<1> QED BY <1>2, <1>3, <1>4 DEF SumsOf

\* Sums of the same entries are the same.
LEMMA SumAgree ==
  ASSUME NEW S, IsFiniteSet(S), NEW f \in [S -> Int],
         NEW R, IsFiniteSet(R), NEW g \in [R -> Int],
         NEW s \in SUBSET (S \cap R), \A x \in s : f[x] = g[x]
  PROVE  SumOver(f, s) = SumOver(g, s)
<1> DEFINE Bad == {t \in SUBSET s : SumOver(f, t) # SumOver(g, t)}
<1>1. ASSUME Bad # {} PROVE FALSE
  <2>1. PICK t \in Bad : \A y \in Bad : y \subseteq t => y = t
    <3>1. Bad \in SUBSET SUBSET S
      OBVIOUS
    <3> HIDE DEF Bad
    <3> QED BY <3>1, <1>1, MinimalSet
  <2>2. t \in SUBSET S /\ t \in SUBSET R /\ t \in SUBSET s
    OBVIOUS
  <2>3. t # {}
    BY <2>1, SumEmpty
  <2>4. PICK x \in t : TRUE
    BY <2>3
  <2>5. PICK r : r = t \ {x}
    OBVIOUS
  <2>6. r \in SUBSET s /\ r # t /\ r \subseteq t /\ r \notin Bad
    BY <2>1, <2>2, <2>4, <2>5
  <2>7. SumOver(f, t) = f[x] + SumOver(f, r)
    BY <2>2, <2>4, <2>5, SumStep
  <2>8. SumOver(g, t) = g[x] + SumOver(g, r)
    BY <2>2, <2>4, <2>5, SumStep
  <2>9. f[x] = g[x] /\ SumOver(f, r) = SumOver(g, r)
    BY <2>2, <2>4, <2>6
  <2> QED BY <2>1, <2>7, <2>8, <2>9
<1> QED BY <1>1

\* A larger table has a larger sum.
LEMMA SumMonotone ==
  ASSUME NEW S, IsFiniteSet(S), NEW f \in [S -> Int], NEW g \in [S -> Int],
         NEW s \in SUBSET S, \A x \in s : f[x] <= g[x]
  PROVE  SumOver(f, s) <= SumOver(g, s)
<1> DEFINE Bad == {t \in SUBSET s : ~(SumOver(f, t) <= SumOver(g, t))}
<1>1. ASSUME Bad # {} PROVE FALSE
  <2>1. PICK t \in Bad : \A y \in Bad : y \subseteq t => y = t
    <3>1. Bad \in SUBSET SUBSET S
      OBVIOUS
    <3> HIDE DEF Bad
    <3> QED BY <3>1, <1>1, MinimalSet
  <2>2. t \in SUBSET S /\ t \in SUBSET s
    OBVIOUS
  <2>3. t # {}
    <3>1. SumOver(f, {}) = 0 /\ SumOver(g, {}) = 0
      BY SumEmpty
    <3>2. ~(SumOver(f, {}) <= SumOver(g, {})) => FALSE
      BY <3>1
    <3> QED BY <2>1, <3>2, Zenon
  <2>4. PICK x \in t : TRUE
    BY <2>3
  <2>5. PICK r : r = t \ {x}
    OBVIOUS
  <2>6. r \in SUBSET s /\ r \in SUBSET S /\ r # t /\ r \subseteq t /\ r \notin Bad
    BY <2>1, <2>2, <2>4, <2>5
  <2>7. SumOver(f, t) = f[x] + SumOver(f, r) /\ SumOver(f, r) \in Int
    BY <2>2, <2>4, <2>5, <2>6, SumStep, SumInt
  <2>8. SumOver(g, t) = g[x] + SumOver(g, r) /\ SumOver(g, r) \in Int
    BY <2>2, <2>4, <2>5, <2>6, SumStep, SumInt
  <2>9. f[x] <= g[x] /\ SumOver(f, r) <= SumOver(g, r)
    BY <2>2, <2>4, <2>6
  <2>10. f[x] \in Int /\ g[x] \in Int
    BY <2>2, <2>4
  <2> QED BY <2>1, <2>7, <2>8, <2>9, <2>10
<1> QED BY <1>1

\* The sum over two sets that share nothing.
LEMMA SumDisjoint ==
  ASSUME NEW S, IsFiniteSet(S), NEW f \in [S -> Int],
         NEW s \in SUBSET S, NEW t \in SUBSET S, s \cap t = {}
  PROVE  SumOver(f, s \cup t) = SumOver(f, s) + SumOver(f, t)
<1> DEFINE Bad == {u \in SUBSET s : SumOver(f, u \cup t) # SumOver(f, u) + SumOver(f, t)}
<1>1. ASSUME Bad # {} PROVE FALSE
  <2>1. PICK u \in Bad : \A y \in Bad : y \subseteq u => y = u
    <3>1. Bad \in SUBSET SUBSET S
      OBVIOUS
    <3> HIDE DEF Bad
    <3> QED BY <3>1, <1>1, MinimalSet
  <2>2. u \in SUBSET S /\ u \in SUBSET s
    OBVIOUS
  <2>3. SumOver(f, t) \in Int /\ SumOver(f, {}) = 0
    BY SumInt, SumEmpty
  <2>4. u # {}
    <3>1. {} \cup t = t
      OBVIOUS
    <3>2. SumOver(f, {}) + SumOver(f, t) = SumOver(f, t)
      BY <2>3
    <3> QED BY <2>1, <3>1, <3>2, Zenon
  <2>5. PICK x \in u : TRUE
    BY <2>4
  <2>6. PICK r, ut, rt : r = u \ {x} /\ ut = u \cup t /\ rt = r \cup t
    OBVIOUS
  <2>7. /\ r \in SUBSET s /\ r \in SUBSET S /\ r # u /\ r \subseteq u /\ r \notin Bad
        /\ ut \in SUBSET S /\ rt = ut \ {x} /\ x \in ut
    BY <2>1, <2>2, <2>5, <2>6
  <2>8. SumOver(f, u) = f[x] + SumOver(f, r) /\ SumOver(f, r) \in Int
    BY <2>2, <2>5, <2>6, <2>7, SumStep, SumInt
  <2>9. SumOver(f, ut) = f[x] + SumOver(f, rt)
    BY <2>7, SumStep
  <2>10. SumOver(f, rt) = SumOver(f, r) + SumOver(f, t)
    BY <2>6, <2>7
  <2>11. f[x] \in Int
    BY <2>2, <2>5
  <2> QED BY <2>1, <2>3, <2>6, <2>8, <2>9, <2>10, <2>11
<1> QED BY <1>1

\* Entries that are zero add nothing.
LEMMA SumZero ==
  ASSUME NEW S, IsFiniteSet(S), NEW f \in [S -> Int],
         NEW s \in SUBSET S, NEW t \in SUBSET s, \A x \in s \ t : f[x] = 0
  PROVE  SumOver(f, s) = SumOver(f, t)
<1> DEFINE d == s \ t
           Bad == {u \in SUBSET d : SumOver(f, u) # 0}
<1>1. ASSUME Bad # {} PROVE FALSE
  <2>1. PICK u \in Bad : \A y \in Bad : y \subseteq u => y = u
    <3>1. Bad \in SUBSET SUBSET S
      OBVIOUS
    <3> HIDE DEF Bad
    <3> QED BY <3>1, <1>1, MinimalSet
  <2>2. u \in SUBSET S /\ u \in SUBSET d
    OBVIOUS
  <2>3. u # {}
    BY <2>1, SumEmpty
  <2>4. PICK x \in u : TRUE
    BY <2>3
  <2>5. PICK r : r = u \ {x}
    OBVIOUS
  <2>6. r \in SUBSET d /\ r # u /\ r \subseteq u /\ r \notin Bad
    BY <2>1, <2>2, <2>4, <2>5
  <2>7. SumOver(f, u) = f[x] + SumOver(f, r)
    BY <2>2, <2>4, <2>5, SumStep
  <2>8. f[x] = 0 /\ SumOver(f, r) = 0
    BY <2>2, <2>4, <2>6
  <2> QED BY <2>1, <2>7, <2>8
<1>2. SumOver(f, d) = 0
  BY <1>1
<1>3. d \in SUBSET S /\ t \in SUBSET S /\ d \cap t = {} /\ d \cup t = s
  OBVIOUS
<1> HIDE DEF d
<1>4. SumOver(f, d \cup t) = SumOver(f, d) + SumOver(f, t)
  BY <1>3, SumDisjoint
<1>5. SumOver(f, t) \in Int
  BY <1>3, SumInt
<1>6. SumOver(f, s) = SumOver(f, d) + SumOver(f, t)
  BY <1>3, <1>4, Zenon
<1> QED BY <1>2, <1>5, <1>6

\* A sum of natural numbers grows with the set.
LEMMA SumNat ==
  ASSUME NEW S, IsFiniteSet(S), NEW f \in [S -> Nat],
         NEW s \in SUBSET S, NEW t \in SUBSET s
  PROVE  SumOver(f, t) \in Nat /\ SumOver(f, t) <= SumOver(f, s)
<1>1. f \in [S -> Int]
  OBVIOUS
<1>2. ASSUME NEW u \in SUBSET S PROVE SumOver(f, u) \in Int /\ 0 <= SumOver(f, u)
  <2>1. PICK z : z = [x \in S |-> 0]
    OBVIOUS
  <2>2. z \in [S -> Int]
    BY <2>1
  <2>3. SumOver(z, u) = SumOver(z, {})
    <3>1. {} \in SUBSET u /\ \A x \in u \ {} : z[x] = 0
      BY <2>1
    <3> QED BY <2>2, <3>1, SumZero
  <2>4. SumOver(z, u) <= SumOver(f, u)
    <3>1. \A x \in u : z[x] <= f[x]
      BY <2>1
    <3> QED BY <1>1, <2>2, <3>1, SumMonotone
  <2>5. SumOver(z, {}) = 0 /\ SumOver(f, u) \in Int
    BY <1>1, <2>2, SumEmpty, SumInt
  <2> QED BY <2>3, <2>4, <2>5
<1>3. PICK d : d = s \ t
  OBVIOUS
<1>4. d \in SUBSET S /\ t \in SUBSET S /\ d \cap t = {} /\ d \cup t = s
  BY <1>3
<1>5. SumOver(f, d \cup t) = SumOver(f, d) + SumOver(f, t)
  BY <1>1, <1>4, SumDisjoint
<1>6. SumOver(f, d) \in Int /\ 0 <= SumOver(f, d) /\ SumOver(f, t) \in Int /\ 0 <= SumOver(f, t)
  BY <1>2, <1>4
<1>7. SumOver(f, s) = SumOver(f, d) + SumOver(f, t)
  BY <1>4, <1>5
<1> QED BY <1>6, <1>7

----------------------------------------------------------------------------
(* Saturated sums.  Add forgets what it is given once it is infinite, so a fold *)
(* of it is the plain sum only while what is finite has room.              *)

First(s) == CHOOSE x \in s : TRUE

AddSolves(g, S, c) ==
  \A s \in SUBSET S : g[s] = IF s = {} THEN 0 ELSE Add(c[First(s)], g[s \ {First(s)}])

AddSum(c, S) == (CHOOSE g : AddSolves(g, S, c))[S]

\* The element that is added first.
LEMMA FirstIn ==
  ASSUME NEW s, s # {}
  PROVE  First(s) \in s
BY Zenon DEF First

\* A finite table has saturated sums.
LEMMA AddSumsExist ==
  ASSUME NEW S, IsFiniteSet(S), NEW c \in [S -> Int]
  PROVE  \E g \in [SUBSET S -> Int] : AddSolves(g, S, c)
<1>1. PICK ch : ch = [s \in SUBSET S |-> First(s)]
  OBVIOUS
<1>2. PICK f : f = [p \in S \X Int |-> Add(c[p[1]], p[2])]
  OBVIOUS
<1>3. \A s \in SUBSET S : s # {} => ch[s] \in s /\ ch[s] = First(s)
  BY <1>1, FirstIn
<1>4. /\ f \in [S \X Int -> Int]
      /\ \A x \in S, v \in Int : f[<<x, v>>] = Add(c[x], v)
  <2>1. \A x \in S, v \in Int : Add(c[x], v) \in Int
    BY AddInt
  <2> QED BY <1>2, <2>1
<1>5. PICK g \in [SUBSET S -> Int] : Solves(g, S, 0, ch, f)
  <2>1. 0 \in Int
    OBVIOUS
  <2> QED BY <1>3, <1>4, <2>1, SolutionExists
<1>6. ASSUME NEW s \in SUBSET S, s # {}
      PROVE  g[s] = Add(c[First(s)], g[s \ {First(s)}])
  <2>1. PICK x : x = First(s)
    OBVIOUS
  <2>2. x = ch[s] /\ x \in S
    BY <1>3, <1>6, <2>1
  <2>3. PICK v : v = g[s \ {x}]
    OBVIOUS
  <2>4. v \in Int /\ g[s] = f[<<x, v>>]
    BY <1>5, <1>6, <2>2, <2>3 DEF Solves
  <2> QED BY <1>4, <2>1, <2>2, <2>3, <2>4
<1>7. g[{}] = 0
  BY <1>5 DEF Solves
<1> QED BY <1>6, <1>7 DEF AddSolves

\* Two solutions of the recursion agree on the whole set.
LEMMA AddSolvedOnce ==
  ASSUME NEW S, IsFiniteSet(S), NEW c, NEW g, NEW h, AddSolves(g, S, c), AddSolves(h, S, c)
  PROVE  g[S] = h[S]
<1> DEFINE Bad == {s \in SUBSET S : g[s] # h[s]}
<1>1. ASSUME Bad # {} PROVE FALSE
  <2>1. PICK s \in Bad : \A y \in Bad : y \subseteq s => y = s
    <3>1. Bad \in SUBSET SUBSET S
      OBVIOUS
    <3> HIDE DEF Bad
    <3> QED BY <3>1, <1>1, MinimalSet
  <2>2. s \in SUBSET S /\ g[s] # h[s]
    OBVIOUS
  <2>3. s # {}
    BY <2>2 DEF AddSolves
  <2>4. PICK x, r : x = First(s) /\ r = s \ {x}
    OBVIOUS
  <2>5. x \in s /\ r # s /\ r \subseteq s /\ r \in SUBSET S
    BY <2>2, <2>3, <2>4, FirstIn
  <2>6. g[r] = h[r]
    BY <2>1, <2>5
  <2>7. g[s] = Add(c[x], g[r]) /\ h[s] = Add(c[x], h[r])
    BY <2>2, <2>3, <2>4 DEF AddSolves
  <2> QED BY <2>2, <2>6, <2>7
<1> QED BY <1>1

\* The saturated sum is the value of any solution.
LEMMA AddSumIs ==
  ASSUME NEW S, IsFiniteSet(S), NEW c, NEW h, AddSolves(h, S, c)
  PROVE  AddSum(c, S) = h[S]
<1>1. PICK g : g = CHOOSE k : AddSolves(k, S, c)
  OBVIOUS
<1>2. AddSolves(g, S, c)
  BY <1>1, Zenon
<1>3. g[S] = h[S]
  BY <1>2, AddSolvedOnce
<1> QED BY <1>1, <1>3 DEF AddSum

\* With room for all that is finite the fold is infinite if an entry is, and the
\* plain sum if none is.
LEMMA AddSumValue ==
  ASSUME NEW S, IsFiniteSet(S), NEW c \in [S -> Int], NEW w \in [S -> Nat],
         SumOver(w, S) < Inf, \A x \in S : c[x] < Inf => c[x] <= w[x]
  PROVE  /\ (\A x \in S : c[x] < Inf) => AddSum(c, S) = SumOver(c, S)
         /\ (\E x \in S : c[x] >= Inf) => AddSum(c, S) = Inf
<1>1. PICK g \in [SUBSET S -> Int] : AddSolves(g, S, c)
  BY AddSumsExist
<1>2. w \in [S -> Int] /\ Inf \in Int
  BY CostAssumption
<1> DEFINE Good(s) == /\ (\A x \in s : c[x] < Inf) => g[s] = SumOver(c, s) /\ g[s] < Inf
                      /\ (\E x \in s : c[x] >= Inf) => g[s] = Inf
           Bad == {s \in SUBSET S : ~Good(s)}
<1>3. ASSUME NEW s \in SUBSET S, \A x \in s : c[x] < Inf
      PROVE  SumOver(c, s) \in Int /\ SumOver(c, s) < Inf
  <2>1. SumOver(c, s) <= SumOver(w, s)
    BY <1>2, <1>3, SumMonotone
  <2>2. SumOver(w, s) \in Nat /\ SumOver(w, s) <= SumOver(w, S)
    BY SumNat
  <2>3. SumOver(c, s) \in Int /\ SumOver(w, S) \in Int
    BY <1>2, SumInt
  <2> QED BY <1>2, <2>1, <2>2, <2>3
<1>4. ASSUME Bad # {} PROVE FALSE
  <2>1. PICK s \in Bad : \A y \in Bad : y \subseteq s => y = s
    <3>1. Bad \in SUBSET SUBSET S
      OBVIOUS
    <3> HIDE DEF Bad
    <3> QED BY <3>1, <1>4, MinimalSet
  <2>2. s \in SUBSET S /\ ~Good(s)
    OBVIOUS
  <2>3. s # {}
    <3>1. g[{}] = 0 /\ SumOver(c, {}) = 0
      BY <1>1, SumEmpty DEF AddSolves
    <3>2. 0 < Inf
      <4>1. {} \in SUBSET S /\ \A x \in {} : c[x] < Inf
        OBVIOUS
      <4>2. SumOver(c, {}) < Inf
        BY <1>3, <4>1
      <4> QED BY <3>1, <4>2
    <3>3. Good({})
      BY <3>1, <3>2
    <3> HIDE DEF Good
    <3> QED BY <2>2, <3>3, Zenon
  <2>4. PICK x, r : x = First(s) /\ r = s \ {x}
    OBVIOUS
  <2>5. x \in s /\ r # s /\ r \subseteq s /\ r \in SUBSET S /\ \A y \in s : y = x \/ y \in r
    BY <2>2, <2>3, <2>4, FirstIn
  <2>6. Good(r)
    BY <2>1, <2>5
  <2>7. g[s] = Add(c[x], g[r])
    BY <1>1, <2>2, <2>3, <2>4 DEF AddSolves
  <2>8. c[x] \in Int /\ g[r] \in Int
    BY <2>2, <2>5
  <2>9. CASE \A y \in s : c[y] < Inf
    <3>1. g[r] = SumOver(c, r) /\ g[r] < Inf /\ c[x] < Inf
      BY <2>5, <2>6, <2>9
    <3>2. g[s] = c[x] + SumOver(c, r)
      BY <1>2, <2>7, <2>8, <3>1 DEF Add
    <3>3. SumOver(c, s) = c[x] + SumOver(c, r)
      BY <2>2, <2>4, <2>5, SumStep
    <3>4. SumOver(c, s) < Inf
      BY <1>3, <2>2, <2>9
    <3>5. \A y \in s : ~(c[y] >= Inf)
      BY <1>2, <2>2, <2>9
    <3> QED BY <2>2, <3>2, <3>3, <3>4, <3>5
  <2>10. CASE \E y \in s : c[y] >= Inf
    <3>1. PICK y \in s : c[y] >= Inf
      BY <2>10
    <3>2. c[x] >= Inf \/ g[r] = Inf
      BY <2>5, <2>6, <3>1
    <3>3. g[s] = Inf
      BY <1>2, <2>7, <2>8, <3>2 DEF Add
    <3>4. ~(c[y] < Inf)
      BY <1>2, <2>2, <3>1
    <3> QED BY <2>2, <3>1, <3>3, <3>4
  <2>11. (\A y \in s : c[y] < Inf) \/ (\E y \in s : c[y] >= Inf)
    BY <1>2, <2>2
  <2> QED BY <2>9, <2>10, <2>11
<1>5. Good(S)
  BY <1>4
<1>6. AddSum(c, S) = g[S]
  BY <1>1, AddSumIs
<1> QED BY <1>5, <1>6

\* The costs of no, one and two edges.
LEMMA AddSumNone ==
  ASSUME NEW c
  PROVE  AddSum(c, {}) = 0
<1>1. PICK h : h = [s \in SUBSET {} |-> 0]
  OBVIOUS
<1>2. AddSolves(h, {}, c) /\ h[{}] = 0
  BY <1>1 DEF AddSolves
<1>3. IsFiniteSet({})
  BY FS_EmptySet
<1> QED BY <1>2, <1>3, AddSumIs

\* The saturated sum over one entry, and over two in either order.
LEMMA AddSumOne ==
  ASSUME NEW x, NEW c \in [{x} -> Int]
  PROVE  AddSum(c, {x}) = Add(c[x], 0)
<1>1. PICK S : S = {x}
  OBVIOUS
<1>2. IsFiniteSet(S)
  BY <1>1, FS_Singleton
<1>3. PICK g \in [SUBSET S -> Int] : AddSolves(g, S, c)
  BY <1>1, <1>2, AddSumsExist
<1>4. First(S) = x /\ S \ {x} = {} /\ S # {} /\ S \in SUBSET S /\ {} \in SUBSET S
  BY <1>1, FirstIn
<1>5. g[{}] = 0
  BY <1>3, <1>4 DEF AddSolves
<1>6. g[S] = Add(c[First(S)], g[S \ {First(S)}])
  BY <1>3, <1>4 DEF AddSolves
<1>7. g[S] = Add(c[x], 0)
  BY <1>4, <1>5, <1>6, Zenon
<1>8. AddSum(c, S) = g[S]
  BY <1>2, <1>3, AddSumIs
<1> QED BY <1>1, <1>7, <1>8

LEMMA AddSumTwo ==
  ASSUME NEW x, NEW y, x # y, NEW c \in [{x, y} -> Int]
  PROVE  \/ AddSum(c, {x, y}) = Add(c[x], Add(c[y], 0))
         \/ AddSum(c, {x, y}) = Add(c[y], Add(c[x], 0))
<1>1. PICK S, sx, sy : S = {x, y} /\ sx = {x} /\ sy = {y}
  OBVIOUS
<1>2. IsFiniteSet(S)
  <2>1. IsFiniteSet(sx) /\ S = sx \cup {y}
    BY <1>1, FS_Singleton
  <2> QED BY <2>1, FS_AddElement
<1>3. PICK g \in [SUBSET S -> Int] : AddSolves(g, S, c)
  BY <1>1, <1>2, AddSumsExist
<1>4. S \in SUBSET S /\ sx \in SUBSET S /\ sy \in SUBSET S /\ {} \in SUBSET S
  BY <1>1
<1>5. S # {} /\ sx # {} /\ sy # {}
  BY <1>1
<1>6. First(sx) = x /\ sx \ {x} = {} /\ First(sy) = y /\ sy \ {y} = {}
  BY <1>1, <1>5, FirstIn
<1>7. g[{}] = 0
  BY <1>3, <1>4 DEF AddSolves
<1>8. g[sx] = Add(c[First(sx)], g[sx \ {First(sx)}]) /\ g[sy] = Add(c[First(sy)], g[sy \ {First(sy)}])
  BY <1>3, <1>4, <1>5 DEF AddSolves
<1>9. g[sx] = Add(c[x], 0) /\ g[sy] = Add(c[y], 0)
  BY <1>6, <1>7, <1>8, Zenon
<1>10. g[S] = Add(c[First(S)], g[S \ {First(S)}])
  BY <1>3, <1>4, <1>5 DEF AddSolves
<1>11. S \ {x} = sy /\ S \ {y} = sx
  BY <1>1
<1>12. First(S) = x \/ First(S) = y
  BY <1>1, <1>5, FirstIn
<1>13. g[S] = Add(c[x], g[sy]) \/ g[S] = Add(c[y], g[sx])
  BY <1>10, <1>11, <1>12, Zenon
<1>14. AddSum(c, S) = g[S]
  BY <1>2, <1>3, AddSumIs
<1> QED BY <1>1, <1>9, <1>13, <1>14, Zenon

\* The folds of the solver are saturated sums of a table.
LEMMA PaidIsSum ==
  ASSUME NEW S, IsFiniteSet(S), NEW u, NEW r, NEW c \in [S -> Int],
         \A x \in S : c[x] = CostOf(x.costs, u, r, x.other, assign[x.other])
  PROVE  EdgesPaid(u, r, S) = AddSum(c, S)
<1> DEFINE d(x) == CostOf(x.costs, u, r, x.other, assign[x.other])
           P(g) == g = [s \in SUBSET S |->
                          IF s = {} THEN 0
                          ELSE Add(d(CHOOSE x \in s : TRUE), g[s \ {CHOOSE x \in s : TRUE}])]
<1>1. EdgesPaid(u, r, S) = (CHOOSE g : P(g))[S]
  BY SMT DEF EdgesPaid, FoldSet, MapThenFoldSet
<1>2. \A s \in SUBSET S : s # {} => c[First(s)] = d(CHOOSE x \in s : TRUE)
  <2> SUFFICES ASSUME NEW s \in SUBSET S, s # {} PROVE c[First(s)] = d(CHOOSE x \in s : TRUE)
    OBVIOUS
  <2>1. PICK y : y = First(s)
    OBVIOUS
  <2>2. y \in S /\ y = CHOOSE x \in s : TRUE
    BY <2>1, FirstIn DEF First
  <2>3. c[y] = d(y)
    BY <2>2
  <2> QED BY <2>1, <2>2, <2>3
<1> HIDE DEF d
<1>3. ASSUME NEW g, AddSolves(g, S, c), g = [s \in SUBSET S |-> g[s]] PROVE P(g)
  <2>1. \A s \in SUBSET S :
          g[s] = IF s = {} THEN 0
                 ELSE Add(d(CHOOSE x \in s : TRUE), g[s \ {CHOOSE x \in s : TRUE}])
    BY <1>2, <1>3, Zenon DEF AddSolves, First
  <2> QED BY <1>3, <2>1, Zenon
<1>4. PICK g \in [SUBSET S -> Int] : AddSolves(g, S, c)
  BY AddSumsExist
<1>5. P(g)
  BY <1>3, <1>4
<1>6. PICK h : h = CHOOSE k : P(k)
  OBVIOUS
<1> HIDE DEF P
<1>7. P(h)
  BY <1>5, <1>6, Zenon
<1>8. AddSolves(h, S, c)
  <2>1. \A s \in SUBSET S :
          h[s] = IF s = {} THEN 0
                 ELSE Add(d(CHOOSE x \in s : TRUE), h[s \ {CHOOSE x \in s : TRUE}])
    BY <1>7, Zenon DEF P
  <2> QED BY <1>2, <2>1, Zenon DEF AddSolves, First
<1>9. AddSum(c, S) = h[S]
  BY <1>8, AddSumIs
<1> QED BY <1>1, <1>6, <1>9, Zenon DEF P

\* The costs of the nodes, which TotalCost folds.
LEMMA NodesPaidIsSum ==
  ASSUME NEW a, NEW c \in [Nodes -> Int], \A n \in Nodes : c[n] = given.cost[n][a[n]]
  PROVE  FoldSet(LAMBDA n, acc : Add(given.cost[n][a[n]], acc), 0, Nodes) = AddSum(c, Nodes)
<1> DEFINE S == Nodes
           d(x) == given.cost[x][a[x]]
           P(g) == g = [s \in SUBSET S |->
                          IF s = {} THEN 0
                          ELSE Add(d(CHOOSE x \in s : TRUE), g[s \ {CHOOSE x \in s : TRUE}])]
<1>1. FoldSet(LAMBDA n, acc : Add(given.cost[n][a[n]], acc), 0, Nodes) = (CHOOSE g : P(g))[S]
  BY SMT DEF FoldSet, MapThenFoldSet
<1>2. \A s \in SUBSET S : s # {} => c[First(s)] = d(CHOOSE x \in s : TRUE)
  <2> SUFFICES ASSUME NEW s \in SUBSET S, s # {} PROVE c[First(s)] = d(CHOOSE x \in s : TRUE)
    OBVIOUS
  <2>1. PICK y : y = First(s)
    OBVIOUS
  <2>2. y \in S /\ y = CHOOSE x \in s : TRUE
    BY <2>1, FirstIn DEF First
  <2>3. c[y] = d(y)
    BY <2>2
  <2> QED BY <2>1, <2>2, <2>3
<1>0. IsFiniteSet(S) /\ c \in [S -> Int]
  BY NodesAssumption
<1> HIDE DEF d, S
<1>3. ASSUME NEW g, AddSolves(g, S, c), g = [s \in SUBSET S |-> g[s]] PROVE P(g)
  <2>1. \A s \in SUBSET S :
          g[s] = IF s = {} THEN 0
                 ELSE Add(d(CHOOSE x \in s : TRUE), g[s \ {CHOOSE x \in s : TRUE}])
    BY <1>2, <1>3, Zenon DEF AddSolves, First
  <2> QED BY <1>3, <2>1, Zenon
<1>4. PICK g \in [SUBSET S -> Int] : AddSolves(g, S, c)
  BY <1>0, AddSumsExist
<1>5. P(g)
  BY <1>3, <1>4
<1>6. PICK h : h = CHOOSE k : P(k)
  OBVIOUS
<1> HIDE DEF P
<1>7. P(h)
  BY <1>5, <1>6, Zenon
<1>8. AddSolves(h, S, c)
  <2>1. \A s \in SUBSET S :
          h[s] = IF s = {} THEN 0
                 ELSE Add(d(CHOOSE x \in s : TRUE), h[s \ {CHOOSE x \in s : TRUE}])
    BY <1>7, Zenon DEF P
  <2> QED BY <1>2, <2>1, Zenon DEF AddSolves, First
<1>9. AddSum(c, S) = h[S]
  BY <1>0, <1>8, AddSumIs
<1> QED BY <1>1, <1>6, <1>9, Zenon DEF S, P

\* The costs of the edges, which TotalCost folds.
LEMMA EdgesCostIsSum ==
  ASSUME NEW a, NEW c \in [DOMAIN given.edges -> Int], IsFiniteSet(DOMAIN given.edges),
         \A p \in DOMAIN given.edges : c[p] = given.edges[p][<<a[p[1]], a[p[2]]>>]
  PROVE  FoldSet(LAMBDA p, acc : Add(given.edges[p][<<a[p[1]], a[p[2]]>>], acc),
                 0, DOMAIN given.edges) = AddSum(c, DOMAIN given.edges)
<1> DEFINE S == DOMAIN given.edges
           d(x) == given.edges[x][<<a[x[1]], a[x[2]]>>]
           P(g) == g = [s \in SUBSET S |->
                          IF s = {} THEN 0
                          ELSE Add(d(CHOOSE x \in s : TRUE), g[s \ {CHOOSE x \in s : TRUE}])]
<1>1. FoldSet(LAMBDA p, acc : Add(given.edges[p][<<a[p[1]], a[p[2]]>>], acc),
              0, DOMAIN given.edges) = (CHOOSE g : P(g))[S]
  BY SMT DEF FoldSet, MapThenFoldSet
<1>2. \A s \in SUBSET S : s # {} => c[First(s)] = d(CHOOSE x \in s : TRUE)
  <2> SUFFICES ASSUME NEW s \in SUBSET S, s # {} PROVE c[First(s)] = d(CHOOSE x \in s : TRUE)
    OBVIOUS
  <2>1. PICK y : y = First(s)
    OBVIOUS
  <2>2. y \in S /\ y = CHOOSE x \in s : TRUE
    BY <2>1, FirstIn DEF First
  <2>3. c[y] = d(y)
    BY <2>2
  <2> QED BY <2>1, <2>2, <2>3
<1>0. IsFiniteSet(S) /\ c \in [S -> Int]
  OBVIOUS
<1> HIDE DEF d, S
<1>3. ASSUME NEW g, AddSolves(g, S, c), g = [s \in SUBSET S |-> g[s]] PROVE P(g)
  <2>1. \A s \in SUBSET S :
          g[s] = IF s = {} THEN 0
                 ELSE Add(d(CHOOSE x \in s : TRUE), g[s \ {CHOOSE x \in s : TRUE}])
    BY <1>2, <1>3, Zenon DEF AddSolves, First
  <2> QED BY <1>3, <2>1, Zenon
<1>4. PICK g \in [SUBSET S -> Int] : AddSolves(g, S, c)
  BY <1>0, AddSumsExist
<1>5. P(g)
  BY <1>3, <1>4
<1>6. PICK h : h = CHOOSE k : P(k)
  OBVIOUS
<1> HIDE DEF P
<1>7. P(h)
  BY <1>5, <1>6, Zenon
<1>8. AddSolves(h, S, c)
  <2>1. \A s \in SUBSET S :
          h[s] = IF s = {} THEN 0
                 ELSE Add(d(CHOOSE x \in s : TRUE), h[s \ {CHOOSE x \in s : TRUE}])
    BY <1>7, Zenon DEF P
  <2> QED BY <1>2, <2>1, Zenon DEF AddSolves, First
<1>9. AddSum(c, S) = h[S]
  BY <1>0, <1>8, AddSumIs
<1> QED BY <1>1, <1>6, <1>9, Zenon DEF S, P

----------------------------------------------------------------------------
(* What an assignment costs.  The entry <<n, n>> is the cost of node n, the entry *)
(* of a pair is the cost of its edge, and zero where there is no edge.     *)

All == Nodes \X Nodes
Square(A) == A \X A

CostsOf(co, ed, a) ==
  [p \in All |-> IF p[1] = p[2] THEN co[p[1]][a[p[1]]]
                 ELSE IF p \in DOMAIN ed THEN ed[p][<<a[p[1]], a[p[2]]>>] ELSE 0]

Costing(co, ed) == [a \in Assignments |-> CostsOf(co, ed, a)]
Costings == [Assignments -> [All -> Int]]

Typed(co, ed) ==
  /\ DOMAIN co = Nodes /\ \A n \in Nodes : co[n] \in [Domain[n] -> Int]
  /\ DOMAIN ed \subseteq Pairs /\ \A p \in DOMAIN ed : ed[p] \in Table(p)

Feasible(f, s) == \A p \in s : f[p] < Inf

\* If g has a finite sum over t then f has one over s, and no greater one.
NoDearer(f, s, g, t) ==
  Feasible(g, t) => Feasible(f, s) /\ SumOver(f, s) <= SumOver(g, t)

\* The entries are finitely many.
LEMMA AllFinite == IsFiniteSet(All) /\ Inf \in Int /\ Limit \in Int /\ Limit <= Inf
  BY FS_Product, NodesAssumption, CostAssumption DEF All

\* An assignment stays one when a node gets another of its registers.
LEMMA AssignmentFacts ==
  ASSUME NEW a \in Assignments, NEW n \in Nodes
  PROVE  a[n] \in Domain[n] /\ \A r \in Domain[n] : [a EXCEPT ![n] = r] \in Assignments
  BY DEF Assignments

\* The costs of a typed graph are integers.
LEMMA CostingTyped ==
  ASSUME NEW co, NEW ed, Typed(co, ed)
  PROVE  Costing(co, ed) \in Costings
<1> SUFFICES ASSUME NEW a \in Assignments PROVE CostsOf(co, ed, a) \in [All -> Int]
  BY DEF Costing, Costings
<1> SUFFICES ASSUME NEW p \in All
             PROVE  (IF p[1] = p[2] THEN co[p[1]][a[p[1]]]
                     ELSE IF p \in DOMAIN ed THEN ed[p][<<a[p[1]], a[p[2]]>>] ELSE 0) \in Int
  BY DEF CostsOf
<1>1. p[1] \in Nodes /\ p[2] \in Nodes
  BY DEF All
<1>2. a[p[1]] \in Domain[p[1]] /\ a[p[2]] \in Domain[p[2]]
  BY <1>1, AssignmentFacts
<1>3. p[1] = p[2] => co[p[1]][a[p[1]]] \in Int
  BY <1>1, <1>2 DEF Typed
<1>4. p \in DOMAIN ed => ed[p][<<a[p[1]], a[p[2]]>>] \in Int
  BY <1>2 DEF Typed, Table
<1> QED BY <1>3, <1>4

\* NoDearer is transitive.
LEMMA NoDearerChain ==
  ASSUME NEW f \in [All -> Int], NEW g \in [All -> Int], NEW h \in [All -> Int],
         NEW s \in SUBSET All, NEW t \in SUBSET All, NEW v \in SUBSET All,
         NoDearer(f, s, g, t), NoDearer(g, t, h, v)
  PROVE  NoDearer(f, s, h, v)
<1>1. SumOver(f, s) \in Int /\ SumOver(g, t) \in Int /\ SumOver(h, v) \in Int
  BY AllFinite, SumInt
<1> QED BY <1>1 DEF NoDearer

\* What is taken out with a node: the entries D of the node and its edges, at what
\* they cost with its register chosen.
StarCost(f, D) == IF Feasible(f, D) THEN SumOver(f, D) ELSE Inf
With(a, u, q) == [a EXCEPT ![u] = q]
Cheapest(F, D, a, u) == Min({StarCost(F[With(a, u, q)], D) : q \in Domain[u]})
StarCosts(F, D, a, u) == [q \in Domain[u] |-> StarCost(F[With(a, u, q)], D)]

\* What the entries in D cost is an integer, infinite if one of them is.
LEMMA StarInt ==
  ASSUME NEW f \in [All -> Int], NEW D \in SUBSET All
  PROVE  /\ StarCost(f, D) \in Int
         /\ Feasible(f, D) => StarCost(f, D) = SumOver(f, D)
         /\ StarCost(f, D) < Inf => Feasible(f, D)
  BY AllFinite, SumInt DEF StarCost

\* The cheapest register is one of the domain and no other is cheaper.
LEMMA CheapestFacts ==
  ASSUME NEW F \in Costings, NEW D \in SUBSET All, NEW a \in Assignments, NEW u \in Nodes
  PROVE  /\ Cheapest(F, D, a, u) \in Int
         /\ \E q \in Domain[u] : Cheapest(F, D, a, u) = StarCost(F[With(a, u, q)], D)
         /\ \A q \in Domain[u] : Cheapest(F, D, a, u) <= StarCost(F[With(a, u, q)], D)
<1>1. PICK S : S = {StarCost(F[With(a, u, q)], D) : q \in Domain[u]}
  OBVIOUS
<1>2. \A q \in Domain[u] : StarCost(F[With(a, u, q)], D) \in Int
  <2> SUFFICES ASSUME NEW q \in Domain[u] PROVE StarCost(F[With(a, u, q)], D) \in Int
    OBVIOUS
  <2>1. F[With(a, u, q)] \in [All -> Int]
    BY AssignmentFacts DEF With, Costings
  <2> QED BY <2>1, StarInt
<1>3. S \in SUBSET Int
  BY <1>1, <1>2
<1>4. Domain[u] # {} /\ IsFiniteSet(Domain[u])
  BY DomainAssumption DEF Concrete
<1>5. S # {}
  BY <1>1, <1>4
<1>6. IsFiniteSet(S)
  <2>1. PICK f : f = [q \in Domain[u] |-> StarCost(F[With(a, u, q)], D)]
    OBVIOUS
  <2>2. f \in Surjection(Domain[u], S)
    BY <1>1, <2>1 DEF Surjection
  <2> QED BY <1>4, <2>2, FS_Surjection
<1>7. Min(S) \in S /\ Min(S) \in Int /\ \A y \in S : Min(S) <= y
  BY <1>3, <1>5, <1>6, MinOf
<1>8. Cheapest(F, D, a, u) = Min(S)
  BY <1>1 DEF Cheapest
<1> QED BY <1>1, <1>7, <1>8

\* The best register is chosen if one is below the limit.
LEMMA ChoiceLeast ==
  ASSUME NEW u \in Nodes, ~Concrete(u), NEW sel \in [Domain[u] -> Int],
         NEW q \in Domain[u], sel[q] < Limit
  PROVE  /\ Choice(sel, Domain[u]) \in Domain[u]
         /\ \A r \in Domain[u] : sel[Choice(sel, Domain[u])] <= sel[r]
<1>1. PICK best : best = {r \in Domain[u] : sel[r] < Limit /\ \A p \in Domain[u] : sel[r] <= sel[p]}
  OBVIOUS
<1>2. Domain[u] \subseteq Nat /\ IsFiniteSet(Domain[u]) /\ 0 \in Domain[u]
  BY DomainAssumption DEF Concrete
<1>3. best # {}
  <2>1. PICK S : S = {sel[r] : r \in Domain[u]}
    OBVIOUS
  <2>2. S \in SUBSET Int /\ S # {}
    BY <2>1
  <2>3. IsFiniteSet(S)
    <3>1. sel \in Surjection(Domain[u], S)
      BY <2>1 DEF Surjection
    <3> QED BY <1>2, <3>1, FS_Surjection
  <2>4. Min(S) \in S /\ \A y \in S : Min(S) <= y
    BY <2>2, <2>3, MinOf
  <2>5. PICK r \in Domain[u] : sel[r] = Min(S)
    BY <2>1, <2>4
  <2>6. \A p \in Domain[u] : sel[r] <= sel[p]
    BY <2>1, <2>4, <2>5
  <2>7. sel[r] < Limit
    BY <2>6, AllFinite
  <2> QED BY <1>1, <2>6, <2>7
<1>4. Choice(sel, Domain[u]) \in best
  <2>1. Choice(sel, Domain[u]) = IF best \ {0} # {} THEN Min(best \ {0}) ELSE 0
    BY <1>1, Zenon DEF Choice
  <2>2. CASE best \ {0} # {}
    <3>1. PICK S : S = best \ {0}
      OBVIOUS
    <3>2. S \in SUBSET Int /\ S # {} /\ IsFiniteSet(S)
      BY <1>1, <1>2, <2>2, <3>1, FS_Subset
    <3>3. Min(S) \in S
      BY <3>2, MinOf
    <3> QED BY <2>1, <2>2, <3>1, <3>3
  <2>3. CASE best \ {0} = {}
    BY <1>3, <2>1, <2>3
  <2> QED BY <2>2, <2>3
<1> QED BY <1>1, <1>4

----------------------------------------------------------------------------
(* One reduction.  P are the entries of the graph before it and Q those after it, *)
(* D those that are taken out with node u, and t the entry their cheapest sum is *)
(* added to.  R1 and R2 differ in D and t only.                            *)

Shape(P, Q, D, t) ==
  P \in SUBSET All /\ Q \in SUBSET P /\ D \in SUBSET P /\ D \cap Q = {} /\ t \in Q

TakenOut(F, G, P, Q, D, u, t) ==
  \A a \in Assignments :
    /\ \A p \in Q \ {t} : G[a][p] = F[a][p]
    /\ G[a][t] = Add(F[a][t], Cheapest(F, D, a, u))
    /\ \A p \in P \ (D \cup Q) : F[a][p] = 0

\* What is finite has room: no sum of it comes near the limit.
Fits(F, P, w) ==
  /\ w \in [All -> Nat] /\ SumOver(w, P) < Limit
  /\ \A a \in Assignments : \A p \in P : F[a][p] < Inf => F[a][p] <= w[p]

\* The sum over what is taken out, the entry it is folded into, and the rest.
LEMMA SplitSum ==
  ASSUME NEW P, NEW Q, NEW D, NEW t, Shape(P, Q, D, t), NEW f \in [All -> Int]
  PROVE  SumOver(f, D \cup Q) = SumOver(f, D) + (f[t] + SumOver(f, Q \ {t}))
<1>1. Q \in SUBSET All /\ D \in SUBSET All /\ t \in Q
  BY DEF Shape
<1>2. SumOver(f, Q) = f[t] + SumOver(f, Q \ {t})
  BY <1>1, AllFinite, SumStep
<1>3. SumOver(f, D \cup Q) = SumOver(f, D) + SumOver(f, Q)
  BY <1>1, AllFinite, SumDisjoint DEF Shape
<1> QED BY <1>2, <1>3

\* The same for all entries, where the others are zero.
LEMMA SplitAll ==
  ASSUME NEW P, NEW Q, NEW D, NEW t, Shape(P, Q, D, t), NEW f \in [All -> Int],
         \A p \in P \ (D \cup Q) : f[p] = 0
  PROVE  SumOver(f, P) = SumOver(f, D) + (f[t] + SumOver(f, Q \ {t}))
<1>1. PICK s, r : s = D \cup Q /\ r = Q \ {t}
  OBVIOUS
<1>2. s \in SUBSET P /\ P \in SUBSET All /\ \A p \in P \ s : f[p] = 0
  BY <1>1 DEF Shape
<1>3. SumOver(f, P) = SumOver(f, s)
  BY <1>2, AllFinite, SumZero
<1>4. SumOver(f, s) = SumOver(f, D) + (f[t] + SumOver(f, r))
  <2>1. f \in [All -> Int] /\ P \in SUBSET All /\ t \in All
    BY DEF Shape
  <2> QED BY <1>1, <2>1, SplitSum
<1> QED BY <1>1, <1>3, <1>4

\* The same for the weights, which are not negative.
LEMMA SplitWeight ==
  ASSUME NEW P, NEW Q, NEW D, NEW t, Shape(P, Q, D, t), NEW w \in [All -> Nat]
  PROVE  /\ SumOver(w, D) \in Nat /\ SumOver(w, Q \ {t}) \in Nat /\ w[t] \in Nat
         /\ SumOver(w, P) \in Nat
         /\ SumOver(w, D) + (w[t] + SumOver(w, Q \ {t})) <= SumOver(w, P)
<1>1. w \in [All -> Int] /\ P \in SUBSET All /\ t \in All
  BY DEF Shape
<1>2. PICK s, r : s = D \cup Q /\ r = Q \ {t}
  OBVIOUS
<1>3. s \in SUBSET P /\ D \in SUBSET P /\ r \in SUBSET P /\ P \in SUBSET P
  BY <1>2 DEF Shape
<1>4. SumOver(w, s) \in Nat /\ SumOver(w, s) <= SumOver(w, P)
  BY <1>1, <1>3, AllFinite, SumNat
<1>5. SumOver(w, D) \in Nat /\ SumOver(w, r) \in Nat /\ SumOver(w, P) \in Nat
  BY <1>1, <1>3, AllFinite, SumNat
<1>6. SumOver(w, s) = SumOver(w, D) + (w[t] + SumOver(w, r))
  BY <1>1, <1>2, SplitSum
<1>7. w[t] \in Nat
  BY <1>1
<1> QED BY <1>2, <1>4, <1>5, <1>6, <1>7

\* The weight of what is taken out bounds its cheapest sum.
LEMMA StarBounded ==
  ASSUME NEW F \in Costings, NEW P, NEW Q, NEW D, NEW t, Shape(P, Q, D, t),
         NEW w, Fits(F, P, w), NEW a \in Assignments, Feasible(F[a], D)
  PROVE  SumOver(F[a], D) \in Int /\ SumOver(F[a], D) <= SumOver(w, D)
<1>1. F[a] \in [All -> Int] /\ w \in [All -> Nat] /\ w \in [All -> Int] /\ D \in SUBSET All
  BY DEF Costings, Fits, Shape
<1>2. \A p \in D : F[a][p] <= w[p]
  BY DEF Fits, Shape, Feasible
<1>3. SumOver(F[a], D) <= SumOver(w, D)
  BY <1>1, <1>2, AllFinite, SumMonotone
<1> QED BY <1>1, <1>3, AllFinite, SumInt

\* A finite cheapest cost weighs no more than what is taken out.
LEMMA CheapestBounded ==
  ASSUME NEW F \in Costings, NEW P, NEW Q, NEW D, NEW t, Shape(P, Q, D, t),
         NEW w, Fits(F, P, w), NEW a \in Assignments, NEW u \in Nodes,
         Cheapest(F, D, a, u) < Inf
  PROVE  Cheapest(F, D, a, u) \in Int /\ Cheapest(F, D, a, u) <= SumOver(w, D)
<1>1. D \in SUBSET All
  BY DEF Shape
<1>2. PICK q \in Domain[u] : Cheapest(F, D, a, u) = StarCost(F[With(a, u, q)], D)
  BY <1>1, CheapestFacts
<1>3. PICK b \in Assignments : b = With(a, u, q)
  BY AssignmentFacts DEF With
<1>4. F[b] \in [All -> Int]
  BY DEF Costings
<1>5. Feasible(F[b], D) /\ Cheapest(F, D, a, u) = SumOver(F[b], D)
  BY <1>1, <1>2, <1>3, <1>4, StarInt
<1> QED BY <1>5, StarBounded

\* The entry that is added to takes over the weight of what is taken out.
LEMMA ReductionFits ==
  ASSUME NEW F \in Costings, NEW G \in Costings, NEW P, NEW Q, NEW D, NEW t,
         Shape(P, Q, D, t), NEW u \in Nodes, TakenOut(F, G, P, Q, D, u, t),
         NEW w, Fits(F, P, w)
  PROVE  \E v : Fits(G, Q, v)
<1>1. w \in [All -> Nat] /\ D \in SUBSET All /\ t \in All /\ Q \in SUBSET All /\ t \in P
  BY DEF Fits, Shape
<1>2. PICK W : W = SumOver(w, D)
  OBVIOUS
<1>3. /\ W \in Nat /\ w[t] \in Nat /\ SumOver(w, Q \ {t}) \in Nat /\ SumOver(w, P) \in Nat
      /\ W + (w[t] + SumOver(w, Q \ {t})) <= SumOver(w, P)
  BY <1>1, <1>2, SplitWeight
<1>4. PICK v : v = [w EXCEPT ![t] = w[t] + W]
  OBVIOUS
<1>5. v \in [All -> Nat] /\ v \in [All -> Int] /\ v[t] = w[t] + W /\ \A p \in All \ {t} : v[p] = w[p]
  BY <1>1, <1>3, <1>4
<1>6. SumOver(v, Q) = v[t] + SumOver(v, Q \ {t})
  BY <1>1, <1>5, AllFinite, SumStep DEF Shape
<1>7. SumOver(v, Q \ {t}) = SumOver(w, Q \ {t})
  <2>1. PICK r : r = Q \ {t}
    OBVIOUS
  <2>2. r \in SUBSET (All \cap All) /\ \A p \in r : v[p] = w[p]
    BY <1>1, <1>5, <2>1
  <2>3. w \in [All -> Int]
    BY <1>1
  <2>4. SumOver(v, r) = SumOver(w, r)
    BY <1>5, <2>2, <2>3, AllFinite, SumAgree
  <2> QED BY <2>1, <2>4
<1>8. SumOver(v, Q) < Limit
  <2>1. SumOver(w, P) < Limit
    BY DEF Fits
  <2> QED BY <1>3, <1>5, <1>6, <1>7, <2>1, AllFinite
<1>9. ASSUME NEW a \in Assignments, NEW p \in Q, G[a][p] < Inf
      PROVE  G[a][p] <= v[p]
  <2>1. CASE p # t
    <3>1. G[a][p] = F[a][p] /\ v[p] = w[p] /\ p \in P
      BY <1>1, <1>5, <2>1 DEF TakenOut, Shape
    <3> QED BY <1>9, <3>1 DEF Fits
  <2>2. CASE p = t
    <3>1. PICK m : m = Cheapest(F, D, a, u)
      OBVIOUS
    <3>2. m \in Int /\ F[a][t] \in Int
      BY <1>1, <3>1, CheapestFacts DEF Costings
    <3>3. G[a][t] = Add(F[a][t], m)
      BY <3>1 DEF TakenOut
    <3>4. F[a][t] < Inf /\ m < Inf /\ G[a][t] = F[a][t] + m
      BY <1>9, <2>2, <3>2, <3>3, AllFinite DEF Add
    <3>5. m <= W
      BY <1>2, <3>1, <3>4, CheapestBounded
    <3>6. F[a][t] <= w[t]
      BY <1>1, <3>4 DEF Fits
    <3> QED BY <1>3, <1>5, <2>2, <3>2, <3>4, <3>5, <3>6
  <2> QED BY <2>1, <2>2
<1> QED BY <1>5, <1>8, <1>9 DEF Fits

\* An assignment costs no more after the reduction than before it.
LEMMA ReductionLower ==
  ASSUME NEW F \in Costings, NEW G \in Costings, NEW P, NEW Q, NEW D, NEW t,
         Shape(P, Q, D, t), NEW u \in Nodes, TakenOut(F, G, P, Q, D, u, t),
         NEW w, Fits(F, P, w), NEW a \in Assignments
  PROVE  NoDearer(G[a], Q, F[a], P)
<1> SUFFICES ASSUME Feasible(F[a], P)
             PROVE  Feasible(G[a], Q) /\ SumOver(G[a], Q) <= SumOver(F[a], P)
  BY DEF NoDearer
<1>1. /\ F[a] \in [All -> Int] /\ G[a] \in [All -> Int] /\ D \in SUBSET All /\ t \in All /\ t \in P
      /\ Q \in SUBSET All /\ P \in SUBSET All
  BY DEF Costings, Shape
<1>2. Feasible(F[a], D) /\ F[a][t] < Inf /\ F[a][t] \in Int
  BY <1>1 DEF Feasible, Shape
<1>3. PICK m : m = Cheapest(F, D, a, u)
  OBVIOUS
<1>4. m \in Int /\ m <= SumOver(F[a], D)
  <2>1. a[u] \in Domain[u] /\ With(a, u, a[u]) = a
    BY AssignmentFacts DEF With, Assignments
  <2>2. m <= StarCost(F[With(a, u, a[u])], D) /\ m \in Int
    BY <1>1, <1>3, <2>1, CheapestFacts
  <2>3. StarCost(F[a], D) = SumOver(F[a], D)
    BY <1>1, <1>2, StarInt
  <2> QED BY <2>1, <2>2, <2>3
<1>5. SumOver(F[a], D) \in Int /\ SumOver(F[a], D) <= SumOver(w, D)
  BY <1>2, StarBounded
<1>6. SumOver(w, D) \in Nat /\ SumOver(w, D) <= SumOver(w, P) /\ SumOver(w, P) < Limit /\ SumOver(w, P) \in Int
  <2>1. w \in [All -> Nat] /\ w \in [All -> Int] /\ D \in SUBSET P
    BY DEF Fits, Shape
  <2> QED BY <1>1, <2>1, AllFinite, SumNat, SumInt DEF Fits
<1>7. m < Inf
  BY <1>4, <1>5, <1>6, AllFinite
<1>8. G[a][t] = F[a][t] + m
  <2>1. G[a][t] = Add(F[a][t], m)
    BY <1>3 DEF TakenOut
  <2> QED BY <1>2, <1>4, <1>7, <2>1, AllFinite DEF Add
<1>9. SumOver(G[a], Q \ {t}) = SumOver(F[a], Q \ {t}) /\ SumOver(F[a], Q \ {t}) \in Int
  <2>1. PICK r : r = Q \ {t}
    OBVIOUS
  <2>2. r \in SUBSET (All \cap All) /\ r \in SUBSET All /\ \A p \in r : G[a][p] = F[a][p]
    BY <1>1, <2>1 DEF TakenOut
  <2>3. SumOver(G[a], r) = SumOver(F[a], r) /\ SumOver(F[a], r) \in Int
    BY <1>1, <2>2, AllFinite, SumAgree, SumInt
  <2> QED BY <2>1, <2>3
<1>10. SumOver(G[a], Q) = G[a][t] + SumOver(F[a], Q \ {t})
  <2>1. SumOver(G[a], Q) = G[a][t] + SumOver(G[a], Q \ {t})
    BY <1>1, AllFinite, SumStep DEF Shape
  <2> QED BY <1>9, <2>1
<1>11. SumOver(F[a], P) = SumOver(F[a], D) + (F[a][t] + SumOver(F[a], Q \ {t}))
  <2>1. \A p \in P \ (D \cup Q) : F[a][p] = 0
    BY DEF TakenOut
  <2>2. PICK f \in [All -> Int] : f = F[a]
    BY <1>1
  <2>3. \A p \in P \ (D \cup Q) : f[p] = 0
    BY <2>1, <2>2
  <2>4. PICK r : r = Q \ {t}
    OBVIOUS
  <2>5. SumOver(f, P) = SumOver(f, D) + (f[t] + SumOver(f, r))
    BY <1>1, <2>3, <2>4, SplitAll
  <2> QED BY <2>2, <2>4, <2>5
<1>12. SumOver(G[a], Q) <= SumOver(F[a], P)
  BY <1>2, <1>4, <1>5, <1>8, <1>9, <1>10, <1>11
<1>13. Feasible(G[a], Q)
  <2> SUFFICES ASSUME NEW p \in Q PROVE G[a][p] < Inf
    BY DEF Feasible
  <2>1. CASE p # t
    <3>1. G[a][p] = F[a][p] /\ p \in P
      BY <2>1 DEF TakenOut, Shape
    <3> QED BY <3>1 DEF Feasible
  <2>2. CASE p = t
    <3>1. w[t] \in Nat /\ SumOver(w, Q \ {t}) \in Nat /\ SumOver(w, D) + (w[t] + SumOver(w, Q \ {t})) <= SumOver(w, P)
      BY SplitWeight DEF Fits
    <3>2. F[a][t] <= w[t]
      BY <1>1, <1>2 DEF Fits
    <3> QED BY <1>2, <1>4, <1>5, <1>6, <1>8, <2>2, <3>1, <3>2, AllFinite
  <2> QED BY <2>1, <2>2
<1> QED BY <1>12, <1>13

\* It costs no less if the register of u is the one that is chosen later.
LEMMA ReductionExact ==
  ASSUME NEW F \in Costings, NEW G \in Costings, NEW P, NEW Q, NEW D, NEW t,
         Shape(P, Q, D, t), NEW u \in Nodes, ~Concrete(u), TakenOut(F, G, P, Q, D, u, t),
         NEW w, Fits(F, P, w), NEW a \in Assignments,
         a[u] = Choice(StarCosts(F, D, a, u), Domain[u])
  PROVE  NoDearer(F[a], P, G[a], Q)
<1> SUFFICES ASSUME Feasible(G[a], Q)
             PROVE  Feasible(F[a], P) /\ SumOver(F[a], P) <= SumOver(G[a], Q)
  BY DEF NoDearer
<1>1. /\ F[a] \in [All -> Int] /\ G[a] \in [All -> Int] /\ D \in SUBSET All /\ t \in All /\ t \in P
      /\ Q \in SUBSET All /\ P \in SUBSET All
  BY DEF Costings, Shape
<1>2. PICK m : m = Cheapest(F, D, a, u)
  OBVIOUS
<1>3. m \in Int /\ F[a][t] \in Int
  BY <1>1, <1>2, CheapestFacts
<1>4. F[a][t] < Inf /\ m < Inf /\ G[a][t] = F[a][t] + m
  <2>1. G[a][t] = Add(F[a][t], m)
    BY <1>2 DEF TakenOut
  <2>2. G[a][t] < Inf
    BY DEF Feasible, Shape
  <2> QED BY <1>3, <2>1, <2>2, AllFinite DEF Add
<1>5. m <= SumOver(w, D) /\ SumOver(w, D) \in Nat /\ SumOver(w, D) < Limit
  <2>1. m <= SumOver(w, D)
    BY <1>2, <1>4, CheapestBounded
  <2>2. w \in [All -> Nat] /\ w \in [All -> Int] /\ D \in SUBSET P
    BY DEF Fits, Shape
  <2>3. SumOver(w, D) \in Nat /\ SumOver(w, D) <= SumOver(w, P) /\ SumOver(w, P) < Limit /\ SumOver(w, P) \in Int
    BY <1>1, <2>2, AllFinite, SumNat, SumInt DEF Fits
  <2> QED BY <2>1, <2>3, AllFinite
<1>6. PICK sel : sel = StarCosts(F, D, a, u)
  OBVIOUS
<1>7. /\ sel \in [Domain[u] -> Int]
      /\ \A q \in Domain[u] : sel[q] = StarCost(F[With(a, u, q)], D)
  <2>1. \A q \in Domain[u] : StarCost(F[With(a, u, q)], D) \in Int
    <3> SUFFICES ASSUME NEW q \in Domain[u] PROVE StarCost(F[With(a, u, q)], D) \in Int
      OBVIOUS
    <3>1. F[With(a, u, q)] \in [All -> Int]
      BY AssignmentFacts DEF With, Costings
    <3> QED BY <1>1, <3>1, StarInt
  <2> QED BY <1>6, <2>1 DEF StarCosts
<1>8. PICK q \in Domain[u] : m = sel[q]
  BY <1>1, <1>2, <1>7, CheapestFacts
<1>9. sel[q] < Limit
  BY <1>3, <1>5, <1>8, AllFinite
<1>10. a[u] \in Domain[u] /\ sel[a[u]] <= m
  <2>1. a[u] = Choice(sel, Domain[u])
    BY <1>6
  <2> QED BY <1>7, <1>8, <1>9, <2>1, ChoiceLeast
<1>11. StarCost(F[a], D) <= m
  <2>1. With(a, u, a[u]) = a
    BY <1>10 DEF With, Assignments
  <2>2. sel[a[u]] = StarCost(F[With(a, u, a[u])], D)
    BY <1>7, <1>10
  <2> QED BY <1>10, <2>1, <2>2
<1>12. Feasible(F[a], D) /\ SumOver(F[a], D) <= m /\ SumOver(F[a], D) \in Int
  <2>1. StarCost(F[a], D) \in Int
    BY <1>1, StarInt
  <2>2. StarCost(F[a], D) < Inf
    BY <1>3, <1>4, <1>11, <2>1, AllFinite
  <2>3. Feasible(F[a], D) /\ StarCost(F[a], D) = SumOver(F[a], D)
    BY <1>1, <2>2, StarInt
  <2> QED BY <1>11, <2>1, <2>3
<1>13. SumOver(G[a], Q \ {t}) = SumOver(F[a], Q \ {t}) /\ SumOver(F[a], Q \ {t}) \in Int
  <2>1. PICK r : r = Q \ {t}
    OBVIOUS
  <2>2. r \in SUBSET (All \cap All) /\ r \in SUBSET All /\ \A p \in r : G[a][p] = F[a][p]
    BY <1>1, <2>1 DEF TakenOut
  <2>3. SumOver(G[a], r) = SumOver(F[a], r) /\ SumOver(F[a], r) \in Int
    BY <1>1, <2>2, AllFinite, SumAgree, SumInt
  <2> QED BY <2>1, <2>3
<1>14. SumOver(G[a], Q) = G[a][t] + SumOver(F[a], Q \ {t})
  <2>1. SumOver(G[a], Q) = G[a][t] + SumOver(G[a], Q \ {t})
    BY <1>1, AllFinite, SumStep DEF Shape
  <2> QED BY <1>13, <2>1
<1>15. SumOver(F[a], P) = SumOver(F[a], D) + (F[a][t] + SumOver(F[a], Q \ {t}))
  <2>1. \A p \in P \ (D \cup Q) : F[a][p] = 0
    BY DEF TakenOut
  <2>2. PICK f \in [All -> Int] : f = F[a]
    BY <1>1
  <2>3. \A p \in P \ (D \cup Q) : f[p] = 0
    BY <2>1, <2>2
  <2>4. PICK r : r = Q \ {t}
    OBVIOUS
  <2>5. SumOver(f, P) = SumOver(f, D) + (f[t] + SumOver(f, r))
    BY <1>1, <2>3, <2>4, SplitAll
  <2> QED BY <2>2, <2>4, <2>5
<1>16. SumOver(F[a], P) <= SumOver(G[a], Q)
  BY <1>3, <1>4, <1>12, <1>13, <1>14, <1>15
<1>17. Feasible(F[a], P)
  <2> SUFFICES ASSUME NEW p \in P PROVE F[a][p] < Inf
    BY DEF Feasible
  <2>1. CASE p \in D
    BY <1>12, <2>1 DEF Feasible
  <2>2. CASE p = t
    BY <1>4, <2>2
  <2>3. CASE p \in Q \ {t}
    <3>1. G[a][p] = F[a][p] /\ G[a][p] < Inf
      BY <2>3 DEF TakenOut, Feasible
    <3> QED BY <3>1
  <2>4. CASE p \in P \ (D \cup Q)
    <3>1. F[a][p] = 0
      BY <2>4 DEF TakenOut
    <3>2. 0 < Inf
      BY <1>5, AllFinite
    <3> QED BY <3>1, <3>2
  <2> QED BY <2>1, <2>2, <2>3, <2>4
<1> QED BY <1>16, <1>17

----------------------------------------------------------------------------
(* The entries of the graph.  What is taken out with a node is its own cost and *)
(* those of its edges.                                                     *)

\* A node's cost is on the diagonal.
LEMMA NodeTerm ==
  ASSUME NEW co, NEW ed, NEW a, NEW n \in Nodes
  PROVE  <<n, n>> \in All /\ CostsOf(co, ed, a)[<<n, n>>] = co[n][a[n]]
<1>1. PICK p : p = <<n, n>>
  OBVIOUS
<1>2. p \in All /\ p[1] = n /\ p[2] = n
  BY <1>1 DEF All
<1>3. CostsOf(co, ed, a)[p] = co[p[1]][a[p[1]]]
  BY <1>2 DEF CostsOf
<1> QED BY <1>1, <1>2, <1>3

\* An edge is an entry off the diagonal.
LEMMA PairInAll ==
  ASSUME NEW p \in Pairs
  PROVE  p \in All /\ p[1] \in Nodes /\ p[2] \in Nodes /\ p[1] # p[2]
<1>1. p[1] \in Nodes /\ p[2] \in Nodes /\ p[1] < p[2] /\ p \in All
  BY DEF Pairs, All
<1>2. p[1] \in Nat
  BY <1>1, NodesAreNumbers
<1> QED BY <1>1, <1>2

\* An edge's cost is the entry of its key, from either of its ends.
LEMMA EdgeTerm ==
  ASSUME NEW co, NEW ed, NEW a, NEW n \in Nodes, NEW m \in Nodes, n # m,
         Key(n, m) \in DOMAIN ed
  PROVE  CostsOf(co, ed, a)[Key(n, m)] = CostOf(ed[Key(n, m)], n, a[n], m, a[m])
<1>1. PICK p : p = Key(n, m)
  OBVIOUS
<1>2. p \in Pairs
  BY <1>1, KeyNames
<1>3. p \in All /\ p[1] # p[2]
  BY <1>2, PairInAll
<1>4. CostsOf(co, ed, a)[p] = ed[p][<<a[p[1]], a[p[2]]>>]
  BY <1>1, <1>3 DEF CostsOf
<1>5. CASE n < m
  <2>1. p[1] = n /\ p[2] = m
    BY <1>1, <1>5, KeyNames
  <2> QED BY <1>1, <1>4, <1>5, <2>1 DEF CostOf
<1>6. CASE ~(n < m)
  <2>1. p[1] = m /\ p[2] = n
    BY <1>1, <1>6, KeyNames
  <2> QED BY <1>1, <1>4, <1>6, <2>1 DEF CostOf
<1> QED BY <1>5, <1>6

\* Where there is no edge nothing is paid.
LEMMA NoTerm ==
  ASSUME NEW co, NEW ed, NEW a, NEW p \in All, p[1] # p[2], p \notin DOMAIN ed
  PROVE  CostsOf(co, ed, a)[p] = 0
  BY DEF CostsOf

\* The neighbours in A of node n are those in B.
Around(ed, A, n, B) ==
  /\ n \in A /\ A \subseteq Nodes /\ B \subseteq A \ {n}
  /\ \A m \in A \ {n} : m \in B <=> Key(n, m) \in DOMAIN ed

Star(n, B) == {<<n, n>>} \cup {Key(n, m) : m \in B}

\* A node and its edges are what taking the node out takes out of the square.
LEMMA StarTaken ==
  ASSUME NEW ed, DOMAIN ed \subseteq Pairs, NEW A, NEW n, NEW B, Around(ed, A, n, B)
  PROVE  /\ Square(A) \in SUBSET All /\ Square(A \ {n}) \in SUBSET Square(A)
         /\ Star(n, B) \in SUBSET Square(A) /\ Star(n, B) \cap Square(A \ {n}) = {}
         /\ \A p \in Square(A) \ (Star(n, B) \cup Square(A \ {n})) :
              p \in All /\ p[1] # p[2] /\ p \notin DOMAIN ed
<1>1. n \in Nodes /\ n \in A /\ A \subseteq Nodes /\ B \subseteq A \ {n}
  BY DEF Around
<1>2. Square(A) \in SUBSET All /\ Square(A \ {n}) \in SUBSET Square(A)
  BY <1>1 DEF Square, All
<1>3. ASSUME NEW m \in B
      PROVE  Key(n, m) \in Square(A) /\ Key(n, m) \notin Square(A \ {n})
  <2>1. Key(n, m) = <<n, m>> \/ Key(n, m) = <<m, n>>
    BY DEF Key
  <2> QED BY <1>1, <2>1 DEF Square
<1>4. <<n, n>> \in Square(A) /\ <<n, n>> \notin Square(A \ {n})
  BY <1>1 DEF Square
<1>5. ASSUME NEW p \in Square(A), p \notin Star(n, B), p \notin Square(A \ {n})
      PROVE  p \in All /\ p[1] # p[2] /\ p \notin DOMAIN ed
  <2>1. PICK x \in A, y \in A : p = <<x, y>>
    BY DEF Square
  <2>2. x = n \/ y = n
    BY <1>5, <2>1 DEF Square
  <2>3. x # y
    BY <1>5, <2>1, <2>2 DEF Star
  <2>4. PICK m : (x = n /\ m = y) \/ (y = n /\ m = x)
    BY <2>2
  <2>5. m \in A \ {n} /\ m \in Nodes
    BY <1>1, <2>3, <2>4
  <2>6. p \notin DOMAIN ed
    <3> SUFFICES ASSUME p \in DOMAIN ed PROVE FALSE
      OBVIOUS
    <3>1. x < y /\ x \in Nat /\ y \in Nat
      BY <1>1, <2>1, NodesAreNumbers DEF Pairs
    <3>2. Key(n, m) = p
      BY <2>1, <2>4, <3>1 DEF Key
    <3>3. m \in B
      BY <2>5, <3>2 DEF Around
    <3> QED BY <1>5, <3>2, <3>3 DEF Star
  <2> QED BY <1>2, <2>1, <2>3, <2>6
<1> QED BY <1>2, <1>3, <1>4, <1>5 DEF Star

\* Two costs added up in the orders the solver adds them.
LEMMA AddTwo ==
  ASSUME NEW x \in Int, NEW y \in Int, 0 < Inf
  PROVE  /\ Add(y, x) = IF x < Inf /\ y < Inf THEN x + y ELSE Inf
         /\ Add(x, Add(y, 0)) = Add(y, x)
         /\ Add(x, 0) = IF x < Inf THEN x ELSE Inf
  BY CostAssumption DEF Add

\* Sums of two and of three entries.
LEMMA SumOfTwo ==
  ASSUME NEW f \in [All -> Int], NEW x \in All, NEW y \in All, x # y
  PROVE  SumOver(f, {x, y}) = f[x] + f[y]
<1>1. PICK s, r : s = {x, y} /\ r = {y}
  OBVIOUS
<1>2. s \in SUBSET All /\ r \in SUBSET All /\ x \in s /\ y \in r /\ s \ {x} = r /\ r \ {y} = {}
  BY <1>1
<1>3. SumOver(f, s) = f[x] + SumOver(f, s \ {x})
  BY <1>2, AllFinite, SumStep
<1>4. SumOver(f, r) = f[y] + SumOver(f, r \ {y})
  BY <1>2, AllFinite, SumStep
<1>5. SumOver(f, {}) = 0
  BY AllFinite, SumEmpty
<1>6. SumOver(f, r) = f[y] + 0
  BY <1>2, <1>4, <1>5, Zenon
<1>7. SumOver(f, s) = f[x] + (f[y] + 0)
  BY <1>2, <1>3, <1>6, Zenon
<1> QED BY <1>1, <1>7

LEMMA SumOfThree ==
  ASSUME NEW f \in [All -> Int], NEW x \in All, NEW y \in All, NEW z \in All,
         x # y, x # z, y # z
  PROVE  SumOver(f, {x, y, z}) = f[x] + f[y] + f[z]
<1>1. PICK s, r : s = {x, y, z} /\ r = {y, z}
  OBVIOUS
<1>2. s \in SUBSET All /\ x \in s /\ s \ {x} = r
  BY <1>1
<1>3. SumOver(f, s) = f[x] + SumOver(f, s \ {x})
  BY <1>2, AllFinite, SumStep
<1>4. SumOver(f, r) = f[y] + f[z]
  BY <1>1, SumOfTwo
<1>5. SumOver(f, s) = f[x] + (f[y] + f[z])
  BY <1>2, <1>3, <1>4, Zenon
<1> QED BY <1>1, <1>5

\* The cost of a node with one edge, and with two, as the code adds it up.
LEMMA StarTwo ==
  ASSUME NEW f \in [All -> Int], NEW x \in All, NEW y \in All, x # y, 0 < Inf
  PROVE  StarCost(f, {x, y}) = Add(f[y], f[x])
<1>1. StarCost(f, {x, y}) = IF f[x] < Inf /\ f[y] < Inf THEN f[x] + f[y] ELSE Inf
  BY SumOfTwo DEF StarCost, Feasible
<1> QED BY <1>1, AddTwo

LEMMA StarThree ==
  ASSUME NEW f \in [All -> Int], NEW x \in All, NEW y \in All, NEW z \in All,
         x # y, x # z, y # z, 0 < Inf,
         NEW w \in [All -> Nat], SumOver(w, {x, y, z}) < Inf,
         \A p \in {x, y, z} : f[p] < Inf => f[p] <= w[p]
  PROVE  /\ StarCost(f, {x, y, z}) = Add(Add(f[y], f[x]), f[z])
         /\ Add(f[x], Add(f[y], Add(f[z], 0))) = Add(Add(f[y], f[x]), f[z])
         /\ Add(f[x], Add(f[z], Add(f[y], 0))) = Add(Add(f[y], f[x]), f[z])
<1>1. StarCost(f, {x, y, z}) =
        IF f[x] < Inf /\ f[y] < Inf /\ f[z] < Inf THEN f[x] + f[y] + f[z] ELSE Inf
  BY SumOfThree DEF StarCost, Feasible
<1>2. w \in [All -> Int]
  OBVIOUS
<1>3. w[x] + w[y] + w[z] < Inf
  BY <1>2, SumOfThree
<1>4. PICK i, j, k : i = f[x] /\ j = f[y] /\ k = f[z]
  OBVIOUS
<1>5. PICK u, v, q : u = w[x] /\ v = w[y] /\ q = w[z]
  OBVIOUS
<1>6. /\ i \in Int /\ j \in Int /\ k \in Int /\ u \in Nat /\ v \in Nat /\ q \in Nat
      /\ u + v + q < Inf
      /\ (i < Inf => i <= u) /\ (j < Inf => j <= v) /\ (k < Inf => k <= q)
  BY <1>3, <1>4, <1>5
<1>7. /\ Add(Add(j, i), k) = IF i < Inf /\ j < Inf /\ k < Inf THEN i + j + k ELSE Inf
      /\ Add(i, Add(j, Add(k, 0))) = Add(Add(j, i), k)
      /\ Add(i, Add(k, Add(j, 0))) = Add(Add(j, i), k)
  BY <1>6, CostAssumption DEF Add
<1> QED BY <1>1, <1>4, <1>7

----------------------------------------------------------------------------
(* What actually_allocate picks for a record, given the other registers.   *)

PaidOn(a, u, r, record) ==
  AddSum([e \in record |-> CostOf(e.costs, u, r, e.other, a[e.other])], record)
Sel(co, e, a) ==
  [r \in Domain[e.node] |-> Add(co[e.node][r], PaidOn(a, e.node, r, e.edges))]
Picked(co, e, a) == a[e.node] = Choice(Sel(co, e, a), Domain[e.node])
EdgesTo(ed, n, B) == {[other |-> m, costs |-> ed[Key(n, m)]] : m \in B}
Single(B, b) == B = {b}
Two(B, l, m) == l # m /\ B = {l, m}
Records(e, ed, n, B) == e.node = n /\ e.edges = EdgesTo(ed, n, B)

\* Another register for one node.
LEMMA WithFacts ==
  ASSUME NEW a \in Assignments, NEW n \in Nodes, NEW q \in Domain[n]
  PROVE  /\ With(a, n, q) \in Assignments /\ With(a, n, q)[n] = q
         /\ \A m \in Nodes \ {n} : With(a, n, q)[m] = a[m]
  BY AssignmentFacts DEF With, Assignments

\* Costs of typed edges are integers.
LEMMA TypedEdge ==
  ASSUME NEW co, NEW ed, Typed(co, ed), NEW n \in Nodes, NEW m \in Nodes, n # m,
         Key(n, m) \in DOMAIN ed, NEW q \in Domain[n], NEW r \in Domain[m]
  PROVE  CostOf(ed[Key(n, m)], n, q, m, r) \in Int /\ co[n][q] \in Int
<1>1. ed[Key(n, m)] \in Table(Key(n, m))
  BY DEF Typed
<1>2. CostOf(ed[Key(n, m)], n, q, m, r) \in Int
  BY <1>1, CostInt
<1> QED BY <1>2 DEF Typed

\* A node of degree one: what it and its edge cost, and what its record says.
LEMMA StarR1 ==
  ASSUME NEW co, NEW ed, Typed(co, ed), NEW A, NEW n, NEW b, Around(ed, A, n, {b}), 0 < Inf,
         NEW a \in Assignments, NEW q \in Domain[n]
  PROVE  StarCost(Costing(co, ed)[With(a, n, q)], Star(n, {b})) =
           Add(CostOf(ed[Key(n, b)], n, q, b, a[b]), co[n][q])
<1>1. n \in Nodes /\ b \in Nodes /\ b # n /\ Key(n, b) \in DOMAIN ed
  BY DEF Around
<1>2. PICK h \in Assignments : h = With(a, n, q) /\ h[n] = q /\ h[b] = a[b]
  BY <1>1, WithFacts
<1>3. PICK f : f = CostsOf(co, ed, h)
  OBVIOUS
<1>4. Costing(co, ed)[h] = f /\ f \in [All -> Int]
  BY <1>3, CostingTyped DEF Costing, Costings
<1>5. PICK x, y : x = <<n, n>> /\ y = Key(n, b)
  OBVIOUS
<1>6. x \in All /\ f[x] = co[n][q]
  BY <1>1, <1>2, <1>3, <1>5, NodeTerm
<1>7. y \in All /\ y[1] # y[2]
  BY <1>1, <1>5, KeyNames, PairInAll
<1>8. f[y] = CostOf(ed[y], n, q, b, a[b])
  <2>1. CostsOf(co, ed, h)[Key(n, b)] = CostOf(ed[Key(n, b)], n, h[n], b, h[b])
    BY <1>1, EdgeTerm
  <2> QED BY <1>2, <1>3, <1>5, <2>1
<1>9. Star(n, {b}) = {x, y} /\ x # y
  BY <1>5, <1>7 DEF Star
<1>10. StarCost(f, {x, y}) = Add(f[y], f[x])
  BY <1>4, <1>6, <1>7, <1>9, StarTwo
<1> QED BY <1>2, <1>4, <1>5, <1>6, <1>8, <1>9, <1>10

\* So the selection vector of an R1 record is what the node's star costs.
LEMMA SelR1 ==
  ASSUME NEW co, NEW ed, Typed(co, ed), NEW A, NEW n, NEW b,
         NEW B, Single(B, b), Around(ed, A, n, B), 0 < Inf,
         NEW a \in Assignments, NEW e, Records(e, ed, n, B)
  PROVE  Sel(co, e, a) = StarCosts(Costing(co, ed), Star(n, B), a, n)
<1> SUFFICES ASSUME NEW q \in Domain[n]
             PROVE  Add(co[n][q], PaidOn(a, n, q, e.edges)) =
                      StarCost(Costing(co, ed)[With(a, n, q)], Star(n, B))
  BY DEF Sel, StarCosts, Records
<1>0. B = {b}
  BY DEF Single
<1>1. n \in Nodes /\ b \in Nodes /\ b # n /\ Key(n, b) \in DOMAIN ed
  BY <1>0 DEF Around
<1>2. PICK x : x = [other |-> b, costs |-> ed[Key(n, b)]]
  OBVIOUS
<1>3. e.edges = {x}
  BY <1>0, <1>2 DEF EdgesTo, Records
<1>4. PICK c : c = [y \in {x} |-> CostOf(y.costs, n, q, y.other, a[y.other])]
  OBVIOUS
<1>5. c[x] = CostOf(ed[Key(n, b)], n, q, b, a[b])
  BY <1>2, <1>4
<1>6. a[b] \in Domain[b]
  BY <1>1, AssignmentFacts
<1>7. c[x] \in Int /\ co[n][q] \in Int
  BY <1>1, <1>5, <1>6, TypedEdge
<1>8. c \in [{x} -> Int]
  BY <1>4, <1>7
<1>9. PaidOn(a, n, q, e.edges) = AddSum(c, {x})
  BY <1>3, <1>4 DEF PaidOn
<1>10. AddSum(c, {x}) = Add(c[x], 0)
  BY <1>8, AddSumOne
<1>11. Add(co[n][q], Add(c[x], 0)) = Add(c[x], co[n][q])
  BY <1>7, AddTwo
<1>12. StarCost(Costing(co, ed)[With(a, n, q)], Star(n, B)) = Add(c[x], co[n][q])
  <2>1. Around(ed, A, n, {b})
    BY <1>0
  <2>2. StarCost(Costing(co, ed)[With(a, n, q)], Star(n, {b})) = Add(c[x], co[n][q])
    BY <1>5, <2>1, StarR1
  <2> QED BY <1>0, <2>2
<1> QED BY <1>9, <1>10, <1>11, <1>12

\* R1 takes out the node and its edge, and its cheapest cost is added to the
\* neighbour's.
R1Best(co, ed, n, b) ==
  [r \in Domain[b] |->
     Min({Add(CostOf(ed[Key(n, b)], n, q, b, r), co[n][q]) : q \in Domain[n]})]
R1Paid(co, ed, n, b) ==
  [co EXCEPT ![b] = [r \in Domain[b] |-> Add(co[b][r], R1Best(co, ed, n, b)[r])]]

\* An R1 reduction takes the node and its edge out, into the cost of the neighbour.
LEMMA R1Taken ==
  ASSUME NEW co, NEW ed, Typed(co, ed), NEW A, NEW n, NEW b, Around(ed, A, n, {b}), 0 < Inf,
         NEW co2, Typed(co2, ed),
         co2 = R1Paid(co, ed, n, b)
  PROVE  /\ Shape(Square(A), Square(A \ {n}), Star(n, {b}), <<b, b>>)
         /\ TakenOut(Costing(co, ed), Costing(co2, ed), Square(A), Square(A \ {n}),
                     Star(n, {b}), n, <<b, b>>)
<1>1. n \in Nodes /\ b \in Nodes /\ b # n /\ A \subseteq Nodes /\ b \in A
  BY DEF Around
<1>2. PICK P, Q, D, t : P = Square(A) /\ Q = Square(A \ {n}) /\ D = Star(n, {b}) /\ t = <<b, b>>
  OBVIOUS
<1>3. /\ P \in SUBSET All /\ Q \in SUBSET P /\ D \in SUBSET P /\ D \cap Q = {}
      /\ \A p \in P \ (D \cup Q) : p \in All /\ p[1] # p[2] /\ p \notin DOMAIN ed
  BY <1>2, StarTaken DEF Typed
<1>4. t \in Q
  BY <1>1, <1>2 DEF Square
<1>5. PICK F, G : F = Costing(co, ed) /\ G = Costing(co2, ed)
  OBVIOUS
<1>6. /\ DOMAIN co = Nodes /\ \A m \in Nodes \ {b} : co2[m] = co[m]
      /\ co2[b] = [r \in Domain[b] |-> Add(co[b][r], R1Best(co, ed, n, b)[r])]
  BY <1>1 DEF Typed, R1Paid
<1>7. ASSUME NEW a \in Assignments
      PROVE  /\ \A p \in Q \ {t} : G[a][p] = F[a][p]
             /\ G[a][t] = Add(F[a][t], Cheapest(F, D, a, n))
             /\ \A p \in P \ (D \cup Q) : F[a][p] = 0
  <2>1. F[a] = CostsOf(co, ed, a) /\ G[a] = CostsOf(co2, ed, a)
    BY <1>5 DEF Costing
  <2>2. ASSUME NEW p \in Q \ {t} PROVE G[a][p] = F[a][p]
    <3>1. p \in All /\ p[1] \in Nodes
      BY <1>3 DEF All
    <3>2. p[1] = p[2] => co2[p[1]] = co[p[1]]
      <4> SUFFICES ASSUME p[1] = p[2] PROVE p[1] # b
        BY <1>6, <3>1
      <4> QED BY <1>2, <2>2, <3>1 DEF All
    <3> QED BY <2>1, <3>1, <3>2 DEF CostsOf
  <2>3. \A p \in P \ (D \cup Q) : F[a][p] = 0
    BY <1>3, <2>1, NoTerm
  <2>4. a[b] \in Domain[b]
    BY <1>1, AssignmentFacts
  <2>5. F[a][t] = co[b][a[b]] /\ G[a][t] = co2[b][a[b]]
    <3>1. CostsOf(co, ed, a)[<<b, b>>] = co[b][a[b]] /\ CostsOf(co2, ed, a)[<<b, b>>] = co2[b][a[b]]
      BY <1>1, NodeTerm
    <3> QED BY <1>2, <2>1, <3>1
  <2>6. G[a][t] = Add(F[a][t], R1Best(co, ed, n, b)[a[b]])
    BY <1>6, <2>4, <2>5
  <2>7. R1Best(co, ed, n, b)[a[b]] =
          Min({Add(CostOf(ed[Key(n, b)], n, q, b, a[b]), co[n][q]) : q \in Domain[n]})
    BY <2>4 DEF R1Best
  <2>8. \A q \in Domain[n] : StarCost(F[With(a, n, q)], D) =
                               Add(CostOf(ed[Key(n, b)], n, q, b, a[b]), co[n][q])
    BY <1>2, <1>5, StarR1
  <2>9. {StarCost(F[With(a, n, q)], D) : q \in Domain[n]} =
          {Add(CostOf(ed[Key(n, b)], n, q, b, a[b]), co[n][q]) : q \in Domain[n]}
    BY <2>8
  <2>10. Cheapest(F, D, a, n) = R1Best(co, ed, n, b)[a[b]]
    BY <2>7, <2>9, Zenon DEF Cheapest
  <2> QED BY <2>2, <2>3, <2>6, <2>10
<1>8. Shape(P, Q, D, t)
  BY <1>3, <1>4 DEF Shape
<1>9. TakenOut(F, G, P, Q, D, n, t)
  BY <1>7 DEF TakenOut
<1> QED BY <1>2, <1>5, <1>8, <1>9

\* A node of degree two.
LEMMA StarR2 ==
  ASSUME NEW co, NEW ed, Typed(co, ed), NEW A, NEW n, NEW l, NEW m, l # m,
         Around(ed, A, n, {l, m}), NEW w, Fits(Costing(co, ed), Square(A), w), 0 < Inf,
         NEW a \in Assignments, NEW q \in Domain[n],
         NEW i, i = CostOf(ed[Key(n, l)], n, q, l, a[l]),
         NEW j, j = CostOf(ed[Key(n, m)], n, q, m, a[m])
  PROVE  /\ StarCost(Costing(co, ed)[With(a, n, q)], Star(n, {l, m})) =
              Add(Add(i, co[n][q]), j)
         /\ Add(co[n][q], Add(i, Add(j, 0))) = Add(Add(i, co[n][q]), j)
         /\ Add(co[n][q], Add(j, Add(i, 0))) = Add(Add(i, co[n][q]), j)
<1>1. /\ n \in Nodes /\ l \in Nodes /\ l # n /\ Key(n, l) \in DOMAIN ed
      /\ m \in Nodes /\ m # n /\ Key(n, m) \in DOMAIN ed
  BY DEF Around
<1>2. PICK h \in Assignments : h = With(a, n, q) /\ h[n] = q /\ h[l] = a[l] /\ h[m] = a[m]
  BY <1>1, WithFacts
<1>3. PICK f : f = CostsOf(co, ed, h)
  OBVIOUS
<1>4. Costing(co, ed)[h] = f /\ f \in [All -> Int]
  BY <1>3, CostingTyped DEF Costing, Costings
<1>5. PICK x, y, z : x = <<n, n>> /\ y = Key(n, l) /\ z = Key(n, m)
  OBVIOUS
<1>6. x \in All /\ f[x] = co[n][q]
  BY <1>1, <1>2, <1>3, <1>5, NodeTerm
<1>7. y \in All /\ y[1] # y[2] /\ z \in All /\ z[1] # z[2]
  BY <1>1, <1>5, KeyNames, PairInAll
<1>8. f[y] = i
  <2>1. CostsOf(co, ed, h)[Key(n, l)] = CostOf(ed[Key(n, l)], n, h[n], l, h[l])
    BY <1>1, EdgeTerm
  <2> QED BY <1>2, <1>3, <1>5, <2>1
<1>9. f[z] = j
  <2>1. CostsOf(co, ed, h)[Key(n, m)] = CostOf(ed[Key(n, m)], n, h[n], m, h[m])
    BY <1>1, EdgeTerm
  <2> QED BY <1>2, <1>3, <1>5, <2>1
<1>10. Star(n, {l, m}) = {x, y, z} /\ x # y /\ x # z /\ y # z
  <2>1. y # z
    BY <1>1, <1>5, KeyNames
  <2> QED BY <1>5, <1>7, <2>1 DEF Star
<1>11. PICK D : D = {x, y, z}
  OBVIOUS
<1>12. D \in SUBSET Square(A) /\ Square(A) \in SUBSET All
  BY <1>10, <1>11, StarTaken DEF Typed
<1>13. w \in [All -> Nat] /\ SumOver(w, D) < Inf
  <2>1. w \in [All -> Nat] /\ SumOver(w, Square(A)) < Limit
    BY DEF Fits
  <2>2. PICK P : P = Square(A)
    OBVIOUS
  <2>3. SumOver(w, D) \in Nat /\ SumOver(w, D) <= SumOver(w, P)
    BY <1>12, <2>1, <2>2, AllFinite, SumNat
  <2>4. SumOver(w, P) \in Int
    <3>1. w \in [All -> Int]
      BY <2>1
    <3> QED BY <1>12, <2>2, <3>1, AllFinite, SumInt
  <2> QED BY <2>1, <2>2, <2>3, <2>4, AllFinite
<1>14. \A p \in D : f[p] < Inf => f[p] <= w[p]
  BY <1>2, <1>4, <1>12 DEF Fits
<1>15. /\ StarCost(f, {x, y, z}) = Add(Add(f[y], f[x]), f[z])
       /\ Add(f[x], Add(f[y], Add(f[z], 0))) = Add(Add(f[y], f[x]), f[z])
       /\ Add(f[x], Add(f[z], Add(f[y], 0))) = Add(Add(f[y], f[x]), f[z])
  BY <1>4, <1>6, <1>7, <1>10, <1>11, <1>13, <1>14, StarThree
<1> QED BY <1>2, <1>4, <1>6, <1>8, <1>9, <1>10, <1>15

\* The same for an R2 record, whichever of its edges is paid first.
LEMMA SelR2 ==
  ASSUME NEW co, NEW ed, Typed(co, ed), NEW A, NEW n, NEW l, NEW m,
         NEW B, Two(B, l, m), Around(ed, A, n, B), NEW w, Fits(Costing(co, ed), Square(A), w), 0 < Inf,
         NEW a \in Assignments, NEW e, Records(e, ed, n, B)
  PROVE  Sel(co, e, a) = StarCosts(Costing(co, ed), Star(n, B), a, n)
<1> SUFFICES ASSUME NEW q \in Domain[n]
             PROVE  Add(co[n][q], PaidOn(a, n, q, e.edges)) =
                      StarCost(Costing(co, ed)[With(a, n, q)], Star(n, B))
  BY DEF Sel, StarCosts, Records
<1>0. B = {l, m} /\ l # m
  BY DEF Two
<1>1. /\ n \in Nodes /\ l \in Nodes /\ l # n /\ Key(n, l) \in DOMAIN ed
      /\ m \in Nodes /\ m # n /\ Key(n, m) \in DOMAIN ed
  BY <1>0 DEF Around
<1>2. PICK x, y : x = [other |-> l, costs |-> ed[Key(n, l)]] /\ y = [other |-> m, costs |-> ed[Key(n, m)]]
  OBVIOUS
<1>3. e.edges = {x, y} /\ x # y
  BY <1>0, <1>2 DEF EdgesTo, Records
<1>4. PICK c : c = [z \in {x, y} |-> CostOf(z.costs, n, q, z.other, a[z.other])]
  OBVIOUS
<1>5. PICK i, j : i = CostOf(ed[Key(n, l)], n, q, l, a[l]) /\ j = CostOf(ed[Key(n, m)], n, q, m, a[m])
  OBVIOUS
<1>6. c[x] = i /\ c[y] = j
  BY <1>2, <1>4, <1>5
<1>7. a[l] \in Domain[l] /\ a[m] \in Domain[m]
  BY <1>1, AssignmentFacts
<1>8. i \in Int /\ j \in Int
  BY <1>1, <1>5, <1>7, TypedEdge
<1>9. c \in [{x, y} -> Int]
  BY <1>4, <1>6, <1>8
<1>10. PaidOn(a, n, q, e.edges) = AddSum(c, {x, y})
  BY <1>3, <1>4 DEF PaidOn
<1>11. \/ AddSum(c, {x, y}) = Add(i, Add(j, 0))
       \/ AddSum(c, {x, y}) = Add(j, Add(i, 0))
  BY <1>3, <1>6, <1>9, AddSumTwo
<1>12. /\ StarCost(Costing(co, ed)[With(a, n, q)], Star(n, B)) = Add(Add(i, co[n][q]), j)
       /\ Add(co[n][q], Add(i, Add(j, 0))) = Add(Add(i, co[n][q]), j)
       /\ Add(co[n][q], Add(j, Add(i, 0))) = Add(Add(i, co[n][q]), j)
  <2>1. Around(ed, A, n, {l, m})
    BY <1>0
  <2>2. /\ StarCost(Costing(co, ed)[With(a, n, q)], Star(n, {l, m})) = Add(Add(i, co[n][q]), j)
        /\ Add(co[n][q], Add(i, Add(j, 0))) = Add(Add(i, co[n][q]), j)
        /\ Add(co[n][q], Add(j, Add(i, 0))) = Add(Add(i, co[n][q]), j)
    BY <1>0, <1>5, <2>1, StarR2
  <2> QED BY <1>0, <2>2
<1> QED BY <1>10, <1>11, <1>12

\* R2 takes out the node and its two edges, and its cheapest cost is added to the
\* edge between the neighbours.
R2Best(co, ed, n, l, m, rl, rm) ==
  Min({Add(Add(CostOf(ed[Key(l, n)], l, rl, n, q), co[n][q]),
           CostOf(ed[Key(n, m)], n, q, m, rm)) : q \in Domain[n]})
R2Edge(co, ed, n, l, m) ==
  [r \in Domain[Key(l, m)[1]] \X Domain[Key(l, m)[2]] |->
     Add(IF Key(l, m) \in DOMAIN ed THEN ed[Key(l, m)][r] ELSE 0,
         IF Key(l, m)[1] = l THEN R2Best(co, ed, n, l, m, r[1], r[2])
         ELSE R2Best(co, ed, n, l, m, r[2], r[1]))]
R2Linked(co, ed, n, l, m) ==
  [p \in DOMAIN ed \cup {Key(l, m)} |->
     IF p = Key(l, m) THEN R2Edge(co, ed, n, l, m) ELSE ed[p]]

\* An R2 reduction takes the node and its edges out, into the edge of the neighbours.
LEMMA R2Taken ==
  ASSUME NEW co, NEW ed, Typed(co, ed), NEW A, NEW n, NEW l, NEW m, l # m,
         Around(ed, A, n, {l, m}), NEW w, Fits(Costing(co, ed), Square(A), w), 0 < Inf,
         NEW ed2, Typed(co, ed2), ed2 = R2Linked(co, ed, n, l, m)
  PROVE  /\ Shape(Square(A), Square(A \ {n}), Star(n, {l, m}), Key(l, m))
         /\ TakenOut(Costing(co, ed), Costing(co, ed2), Square(A), Square(A \ {n}),
                     Star(n, {l, m}), n, Key(l, m))
<1>1. /\ n \in Nodes /\ A \subseteq Nodes
      /\ l \in Nodes /\ l # n /\ l \in A /\ Key(n, l) \in DOMAIN ed
      /\ m \in Nodes /\ m # n /\ m \in A /\ Key(n, m) \in DOMAIN ed
  BY DEF Around
<1>2. PICK P, Q, D, t : P = Square(A) /\ Q = Square(A \ {n}) /\ D = Star(n, {l, m}) /\ t = Key(l, m)
  OBVIOUS
<1>3. /\ P \in SUBSET All /\ Q \in SUBSET P /\ D \in SUBSET P /\ D \cap Q = {}
      /\ \A p \in P \ (D \cup Q) : p \in All /\ p[1] # p[2] /\ p \notin DOMAIN ed
  BY <1>2, StarTaken DEF Typed
<1>4. t \in Q /\ t \in Pairs /\ t[1] # t[2] /\ t \in All
  <2>1. t = <<l, m>> \/ t = <<m, l>>
    BY <1>2 DEF Key
  <2>2. t \in Pairs
    BY <1>1, <1>2, KeyNames
  <2> QED BY <1>1, <1>2, <2>1, <2>2, PairInAll DEF Square
<1>5. PICK F, G : F = Costing(co, ed) /\ G = Costing(co, ed2)
  OBVIOUS
<1>6. /\ DOMAIN ed2 = DOMAIN ed \cup {t} /\ \A p \in DOMAIN ed \ {t} : ed2[p] = ed[p]
      /\ ed2[t] = R2Edge(co, ed, n, l, m)
  BY <1>2 DEF R2Linked
<1>7. ASSUME NEW a \in Assignments
      PROVE  /\ \A p \in Q \ {t} : G[a][p] = F[a][p]
             /\ G[a][t] = Add(F[a][t], Cheapest(F, D, a, n))
             /\ \A p \in P \ (D \cup Q) : F[a][p] = 0
  <2>1. F[a] = CostsOf(co, ed, a) /\ G[a] = CostsOf(co, ed2, a)
    BY <1>5 DEF Costing
  <2>2. ASSUME NEW p \in Q \ {t} PROVE G[a][p] = F[a][p]
    <3>1. p \in All /\ (p \in DOMAIN ed <=> p \in DOMAIN ed2)
      BY <1>3, <1>6
    <3>2. p \in DOMAIN ed => ed[p] = ed2[p]
      BY <1>6, <2>2
    <3>3. CASE p \in DOMAIN ed
      BY <2>1, <3>1, <3>2, <3>3 DEF CostsOf
    <3>4. CASE p \notin DOMAIN ed
      BY <2>1, <3>1, <3>4 DEF CostsOf
    <3> QED BY <3>3, <3>4
  <2>3. \A p \in P \ (D \cup Q) : F[a][p] = 0
    BY <1>3, <2>1, NoTerm
  <2>4. a[l] \in Domain[l] /\ a[m] \in Domain[m]
    BY <1>1, AssignmentFacts
  <2>5. PICK r : r = <<a[t[1]], a[t[2]]>>
    OBVIOUS
  <2>6. /\ r \in Domain[t[1]] \X Domain[t[2]]
        /\ t[1] = l => r[1] = a[l] /\ r[2] = a[m]
        /\ t[1] # l => r[1] = a[m] /\ r[2] = a[l]
    <3>1. t = <<l, m>> \/ (t = <<m, l>> /\ m # l)
      BY <1>2 DEF Key
    <3> QED BY <2>4, <2>5, <3>1
  <2>7. F[a][t] = IF t \in DOMAIN ed THEN ed[t][r] ELSE 0
    BY <1>4, <2>1, <2>5 DEF CostsOf
  <2>8. G[a][t] = ed2[t][r]
    BY <1>4, <1>6, <2>1, <2>5 DEF CostsOf
  <2>9. R2Edge(co, ed, n, l, m)[r] = Add(F[a][t], R2Best(co, ed, n, l, m, a[l], a[m]))
    <3>1. R2Edge(co, ed, n, l, m)[r] =
            Add(IF t \in DOMAIN ed THEN ed[t][r] ELSE 0,
                IF t[1] = l THEN R2Best(co, ed, n, l, m, r[1], r[2])
                ELSE R2Best(co, ed, n, l, m, r[2], r[1]))
      BY <1>2, <2>6 DEF R2Edge
    <3>2. (IF t[1] = l THEN R2Best(co, ed, n, l, m, r[1], r[2])
           ELSE R2Best(co, ed, n, l, m, r[2], r[1])) = R2Best(co, ed, n, l, m, a[l], a[m])
      BY <2>6
    <3> QED BY <2>7, <3>1, <3>2
  <2>10. ASSUME NEW q \in Domain[n]
         PROVE  StarCost(F[With(a, n, q)], D) =
                  Add(Add(CostOf(ed[Key(l, n)], l, a[l], n, q), co[n][q]),
                      CostOf(ed[Key(n, m)], n, q, m, a[m]))
    <3>1. PICK i, j : i = CostOf(ed[Key(n, l)], n, q, l, a[l]) /\ j = CostOf(ed[Key(n, m)], n, q, m, a[m])
      OBVIOUS
    <3>2. StarCost(Costing(co, ed)[With(a, n, q)], Star(n, {l, m})) = Add(Add(i, co[n][q]), j)
      BY <3>1, StarR2
    <3>3. i = CostOf(ed[Key(l, n)], l, a[l], n, q)
      <4>1. Key(l, n) = Key(n, l) /\ ed[Key(n, l)] \in Table(Key(n, l))
        BY <1>1, KeyNames DEF Typed
      <4>2. CostOf(ed[Key(n, l)], n, q, l, a[l]) = CostOf(ed[Key(n, l)], l, a[l], n, q)
        BY <1>1, <2>4, <4>1, CostInt
      <4> QED BY <3>1, <4>1, <4>2
    <3> QED BY <1>2, <1>5, <3>1, <3>2, <3>3
  <2>11. {StarCost(F[With(a, n, q)], D) : q \in Domain[n]} =
           {Add(Add(CostOf(ed[Key(l, n)], l, a[l], n, q), co[n][q]),
                CostOf(ed[Key(n, m)], n, q, m, a[m])) : q \in Domain[n]}
    BY <2>10
  <2>12. Cheapest(F, D, a, n) = R2Best(co, ed, n, l, m, a[l], a[m])
    BY <2>11, Zenon DEF Cheapest, R2Best
  <2>13. G[a][t] = Add(F[a][t], Cheapest(F, D, a, n))
    BY <1>6, <2>8, <2>9, <2>12
  <2> QED BY <2>2, <2>3, <2>13
<1>8. Shape(P, Q, D, t)
  BY <1>3, <1>4 DEF Shape
<1>9. TakenOut(F, G, P, Q, D, n, t)
  BY <1>7 DEF TakenOut
<1> QED BY <1>2, <1>5, <1>8, <1>9

----------------------------------------------------------------------------
(* The graph so far.  The assignments that are greedy for the stack take for every *)
(* node on it the register that actually_allocate would.                   *)

Greedy(co, s, a) == \A i \in DOMAIN s : Picked(co, s[i], a)
\* A record's edges lead to nodes that were taken out later or are still in the graph.
Above(s) ==
  \A i \in DOMAIN s : \A x \in s[i].edges : \A j \in 1 .. i : x.other # s[j].node

Left == Nodes \ NodesOf(stack)
Now == Costing(cost, edges)
Original == Costing(given.cost, given.edges)

\* The reductions lost nothing: what is left costs no more than the original, and an
\* assignment that is greedy for the stack costs as much.
Reduced(O, F, A, s, co) ==
  /\ \E w : Fits(F, Square(A), w)
  /\ \A a \in Assignments :
       /\ NoDearer(F[a], Square(A), O[a], All)
       /\ Greedy(co, s, a) => NoDearer(O[a], All, F[a], Square(A))

Optimal(O, a) == \A b \in Assignments : NoDearer(O[a], All, O[b], All)

\* Any assignment that is greedy for the stack and keeps the registers that are
\* chosen is a cheapest one.
Settled(O, A, s, co, chosen) ==
  \A a \in Assignments :
    (\A n \in A : a[n] = chosen[n]) /\ Greedy(co, s, a) => Optimal(O, a)

ExactInv ==
  /\ Typed(given.cost, given.edges) /\ \E w : Fits(Original, All, w)
  /\ exact => Above(stack)
  /\ exact /\ phase = "reduce" => Reduced(Original, Now, Left, stack, cost)
  /\ exact /\ phase = "colour" => Settled(Original, Left, stack, cost, assign)

\* Facts about the weights.
LEMMA FitsRoom ==
  ASSUME NEW F, NEW P \in SUBSET All, NEW w, Fits(F, P, w)
  PROVE  0 < Limit /\ 0 < Inf /\ w \in [All -> Nat] /\ SumOver(w, P) \in Nat
<1>1. w \in [All -> Nat] /\ SumOver(w, P) < Limit
  BY DEF Fits
<1>2. P \in SUBSET P
  OBVIOUS
<1>3. SumOver(w, P) \in Nat
  BY <1>1, <1>2, AllFinite, SumNat
<1> QED BY <1>1, <1>3, AllFinite

\* An exact reduction loses nothing, and coloured greedily gains nothing.
LEMMA ReductionKeeps ==
  ASSUME NEW O \in Costings, NEW F \in Costings, NEW G \in Costings,
         NEW A \in SUBSET Nodes, NEW n \in A, ~Concrete(n), NEW D, NEW t,
         Shape(Square(A), Square(A \ {n}), D, t),
         TakenOut(F, G, Square(A), Square(A \ {n}), D, n, t),
         NEW co, NEW s, Reduced(O, F, A, s, co), NEW co2, NEW s2,
         \A a \in Assignments :
           Greedy(co2, s2, a) =>
             Greedy(co, s, a) /\ a[n] = Choice(StarCosts(F, D, a, n), Domain[n])
  PROVE  Reduced(O, G, A \ {n}, s2, co2)
<1>1. PICK P, Q : P = Square(A) /\ Q = Square(A \ {n})
  OBVIOUS
<1>2. PICK w : Fits(F, P, w)
  BY <1>1 DEF Reduced
<1>3. Shape(P, Q, D, t) /\ TakenOut(F, G, P, Q, D, n, t) /\ n \in Nodes
  BY <1>1
<1>4. \E v : Fits(G, Q, v)
  BY <1>2, <1>3, ReductionFits
<1>5. All \in SUBSET All /\ P \in SUBSET All /\ Q \in SUBSET All
  BY <1>3 DEF Shape
<1>6. ASSUME NEW a \in Assignments
      PROVE  /\ NoDearer(G[a], Q, O[a], All)
             /\ Greedy(co2, s2, a) => NoDearer(O[a], All, G[a], Q)
  <2>1. F[a] \in [All -> Int] /\ G[a] \in [All -> Int] /\ O[a] \in [All -> Int]
    BY DEF Costings
  <2>2. NoDearer(G[a], Q, F[a], P)
    BY <1>2, <1>3, ReductionLower
  <2>3. NoDearer(F[a], P, O[a], All)
    BY <1>1 DEF Reduced
  <2>4. PICK f, g, o \in [All -> Int] : f = F[a] /\ g = G[a] /\ o = O[a]
    BY <2>1
  <2>5. NoDearer(g, Q, o, All)
    BY <1>5, <2>2, <2>3, <2>4, NoDearerChain
  <2>6. ASSUME Greedy(co2, s2, a) PROVE NoDearer(o, All, g, Q)
    <3>1. Greedy(co, s, a) /\ a[n] = Choice(StarCosts(F, D, a, n), Domain[n])
      BY <2>6
    <3>2. NoDearer(F[a], P, G[a], Q)
      BY <1>2, <1>3, <3>1, ReductionExact
    <3>3. NoDearer(O[a], All, F[a], P)
      BY <1>1, <3>1 DEF Reduced
    <3> QED BY <1>5, <2>4, <3>2, <3>3, NoDearerChain
  <2> QED BY <2>4, <2>5, <2>6
<1> QED BY <1>1, <1>4, <1>6 DEF Reduced

\* A record's selection depends on the cost of its node only.
LEMMA PickedSame ==
  ASSUME NEW co, NEW co2, NEW e, NEW a, co[e.node] = co2[e.node]
  PROVE  Picked(co, e, a) <=> Picked(co2, e, a)
<1>1. Sel(co, e, a) = Sel(co2, e, a)
  BY DEF Sel
<1> QED BY <1>1 DEF Picked

\* What is greedy for a longer stack is greedy for the shorter one.
LEMMA GreedyPush ==
  ASSUME NEW s \in Seq(Frame), NEW e \in Frame, NEW co, NEW co2, NEW a,
         \A m \in NodesOf(s) : co[m] = co2[m], Greedy(co2, Append(s, e), a)
  PROVE  Greedy(co, s, a) /\ Picked(co2, e, a)
<1>1. PICK t, l : t = Append(s, e) /\ l = Len(s)
  OBVIOUS
<1>2. /\ l \in Nat /\ DOMAIN s = 1 .. l /\ DOMAIN t = 1 .. (l + 1)
      /\ \A i \in 1 .. l : t[i] = s[i]
      /\ t[l + 1] = e
  BY <1>1
<1>3. \A i \in 1 .. (l + 1) : Picked(co2, t[i], a)
  BY <1>1, <1>2 DEF Greedy
<1>4. Picked(co2, e, a)
  <2>1. l + 1 \in 1 .. (l + 1)
    BY <1>2
  <2> QED BY <1>2, <1>3, <2>1
<1>5. ASSUME NEW i \in 1 .. l PROVE Picked(co, s[i], a)
  <2>1. i \in 1 .. (l + 1)
    BY <1>2
  <2>2. Picked(co2, s[i], a)
    BY <1>2, <1>3, <2>1
  <2>3. co[s[i].node] = co2[s[i].node]
    BY <1>2 DEF NodesOf
  <2> QED BY <2>2, <2>3, PickedSame
<1> QED BY <1>2, <1>4, <1>5 DEF Greedy

\* A pushed record's edges lead to nodes that are not on the stack yet.
LEMMA AbovePush ==
  ASSUME NEW s \in Seq(Frame), NEW e \in Frame, Above(s),
         \A x \in e.edges : x.other \notin NodesOf(s) /\ x.other # e.node
  PROVE  Above(Append(s, e))
<1>1. PICK t, l : t = Append(s, e) /\ l = Len(s)
  OBVIOUS
<1>2. /\ l \in Nat /\ DOMAIN s = 1 .. l /\ DOMAIN t = 1 .. (l + 1)
      /\ \A i \in 1 .. l : t[i] = s[i]
      /\ t[l + 1] = e
  BY <1>1
<1>3. ASSUME NEW i \in 1 .. (l + 1), NEW x \in t[i].edges, NEW j \in 1 .. i
      PROVE  x.other # t[j].node
  <2>1. CASE i = l + 1
    <3>1. j = l + 1 \/ j \in 1 .. l
      BY <1>2, <2>1
    <3>2. j \in 1 .. l => t[j].node \in NodesOf(s)
      BY <1>2 DEF NodesOf
    <3> QED BY <1>2, <1>3, <2>1, <3>1, <3>2
  <2>2. CASE i # l + 1
    <3>1. i \in 1 .. l /\ j \in 1 .. l
      BY <1>2, <2>2
    <3> QED BY <1>2, <1>3, <3>1 DEF Above
  <2> QED BY <2>1, <2>2
<1> QED BY <1>1, <1>2, <1>3 DEF Above

----------------------------------------------------------------------------
(* The steps lose nothing.                                                 *)

\* The nodes that are not on the stack are typed, and active while it reduces.
LEMMA LeftFacts ==
  ASSUME IInv
  PROVE  /\ Typed(cost, edges) /\ Left \in SUBSET Nodes
         /\ stack \in Seq(Frame) /\ NodesOf(stack) \subseteq Nodes
         /\ \A m \in NodesOf(stack) : ~Concrete(m)
         /\ phase = "reduce" => Left = Range(active)
<1>1. Typed(cost, edges)
  BY DEF IInv, EdgesInv, CostsInv, Typed
<1>2. stack \in Seq(Frame) /\ \A i \in DOMAIN stack : FrameOK(stack[i])
  BY DEF IInv, StackInv, Frames
<1>3. \A m \in NodesOf(stack) : m \in Nodes /\ ~Concrete(m)
  BY <1>2 DEF NodesOf, FrameOK, Frame
<1>4. Range(active) \subseteq Nodes
  BY DEF IInv, ActiveInv, Range
<1>5. ASSUME phase = "reduce", NEW m \in Nodes PROVE m \in Left <=> m \in Range(active)
  <2>1. CASE Concrete(m)
    BY <1>3, <2>1 DEF IInv, ActiveInv, Left
  <2>2. CASE ~Concrete(m)
    BY <1>5, <2>2 DEF IInv, StackInv, Left
  <2> QED BY <2>1, <2>2
<1>6. Left \in SUBSET Nodes
  BY DEF Left
<1> QED BY <1>1, <1>2, <1>3, <1>4, <1>5, <1>6

\* The record of a node has its edges to the nodes that are left.
LEMMA AroundRecord ==
  ASSUME IInv, phase = "reduce", NEW n \in Left, ~Concrete(n), NEW type
  PROVE  /\ n \in Nodes /\ n \in Range(active)
         /\ Around(edges, Left, n, Range(neigh[n]))
         /\ Records(Record(n, type), edges, n, Range(neigh[n]))
         /\ \A x \in Record(n, type).edges : x.other \notin NodesOf(stack) /\ x.other # n
<1>1. Left = Range(active) /\ n \in Nodes
  BY LeftFacts
<1>2. \A m \in Range(neigh[n]) : m \in Left \ {n}
  BY <1>1, NeighbourFacts DEF IInv
<1>3. \A m \in Left \ {n} : m \in Range(neigh[n]) <=> Key(n, m) \in DOMAIN edges
  BY <1>1, LeftFacts, AdjacencyParts DEF IInv, Adjacent
<1>4. Around(edges, Left, n, Range(neigh[n]))
  <2>1. Left \subseteq Nodes
    BY LeftFacts
  <2>2. Range(neigh[n]) \subseteq Left \ {n}
    BY <1>2
  <2> QED BY <1>3, <2>1, <2>2 DEF Around
<1>5. /\ Record(n, type).node = n
      /\ Record(n, type).edges = EdgesTo(edges, n, Range(neigh[n]))
  BY DEF Record, EdgesTo
<1>6. ASSUME NEW x \in Record(n, type).edges
      PROVE  x.other \notin NodesOf(stack) /\ x.other # n
  <2>1. PICK m \in Range(neigh[n]) : x.other = m
    BY <1>5 DEF EdgesTo
  <2> QED BY <1>2, <2>1 DEF Left
<1> QED BY <1>1, <1>4, <1>5, <1>6 DEF Records

\* A push takes the node out of what is left.
LEMMA PushLeft ==
  ASSUME IInv, phase = "reduce", NEW n \in Left, ~Concrete(n), NEW type \in {"R1", "R2", "RM"},
         stack' = Append(stack, Record(n, type))
  PROVE  /\ Left' = Left \ {n} /\ Record(n, type) \in Frame
         /\ Above(stack) => Above(stack')
<1>1. PICK e : e = Record(n, type)
  OBVIOUS
<1>2. n \in Range(active)
  BY LeftFacts
<1>3. FrameOK(e) /\ Covers(e, NodesOf(stack)) /\ e.node = n
  BY <1>1, <1>2, RecordCovers
<1>4. n \notin NodesOf(stack) /\ Frames(stack)
  BY DEF Left, IInv, StackInv
<1>5. NodesOf(Append(stack, e)) = NodesOf(stack) \cup {n}
  BY <1>3, <1>4, PushFrame
<1>6. Left' = Left \ {n}
  BY <1>1, <1>5 DEF Left, NodesOf
<1>7. e \in Frame
  BY <1>3 DEF FrameOK
<1>8. ASSUME Above(stack) PROVE Above(Append(stack, e))
  <2>1. \A x \in e.edges : x.other \notin NodesOf(stack) /\ x.other # e.node
    BY <1>1, <1>3, AroundRecord
  <2> QED BY <1>7, <1>8, <2>1, LeftFacts, AbovePush
<1> QED BY <1>1, <1>6, <1>7, <1>8

\* R1 and R2: an exact reduction, whatever it takes out.
LEMMA ExactStep ==
  ASSUME IInv, ExactInv, phase = "reduce", phase' = "reduce", given' = given, exact' = exact,
         NEW n \in Left, ~Concrete(n), NEW type \in {"R1", "R2", "RM"},
         stack' = Append(stack, Record(n, type)),
         Typed(cost', edges'), \A m \in NodesOf(stack) \cup {n} : cost[m] = cost'[m],
         NEW D, NEW t, Shape(Square(Left), Square(Left \ {n}), D, t),
         \A w : Fits(Now, Square(Left), w) =>
           /\ TakenOut(Now, Costing(cost', edges'), Square(Left), Square(Left \ {n}), D, n, t)
           /\ \A a \in Assignments :
                Sel(cost, Record(n, type), a) = StarCosts(Now, D, a, n)
  PROVE  ExactInv'
<1>1. PICK O, F, G, A, s, co, co2, e, s2 :
        /\ O = Original /\ F = Now /\ G = Costing(cost', edges') /\ A = Left /\ s = stack
        /\ co = cost /\ co2 = cost' /\ e = Record(n, type) /\ s2 = Append(s, e)
  OBVIOUS
<1>2. Left' = A \ {n} /\ e \in Frame /\ (Above(stack) => Above(stack')) /\ stack' = s2
  BY <1>1, PushLeft
<1>3. Original' = O /\ Now' = G
  BY <1>1 DEF Original, Now
<1>4. O \in Costings /\ F \in Costings /\ G \in Costings /\ A \in SUBSET Nodes /\ s \in Seq(Frame)
  BY <1>1, CostingTyped, LeftFacts DEF ExactInv, Original, Now
<1>5. ASSUME exact PROVE Reduced(O, G, A \ {n}, s2, co2)
  <2>1. Reduced(O, F, A, s, co)
    BY <1>1, <1>5 DEF ExactInv
  <2>2. PICK w : Fits(F, Square(A), w)
    BY <2>1 DEF Reduced
  <2>3. /\ TakenOut(F, G, Square(A), Square(A \ {n}), D, n, t)
        /\ \A a \in Assignments : Sel(co, e, a) = StarCosts(F, D, a, n)
    BY <1>1, <2>2
  <2>4. e.node = n /\ co[n] = co2[n] /\ \A m \in NodesOf(s) : co[m] = co2[m]
    BY <1>1 DEF Record
  <2>5. ASSUME NEW a \in Assignments, Greedy(co2, s2, a)
        PROVE  Greedy(co, s, a) /\ a[n] = Choice(StarCosts(F, D, a, n), Domain[n])
    <3>1. Greedy(co, s, a) /\ Picked(co2, e, a)
      <4>1. Greedy(co2, Append(s, e), a)
        BY <1>1, <2>5
      <4> QED BY <1>2, <1>4, <2>4, <4>1, GreedyPush
    <3>2. Picked(co, e, a)
      BY <2>4, <3>1, PickedSame
    <3>3. Sel(co, e, a) = StarCosts(F, D, a, n)
      BY <2>3
    <3> QED BY <2>4, <3>1, <3>2, <3>3 DEF Picked
  <2>6. Shape(Square(A), Square(A \ {n}), D, t) /\ n \in A
    BY <1>1
  <2> QED BY <1>4, <2>1, <2>3, <2>5, <2>6, ReductionKeeps
<1>6. ExactInv' = (/\ Typed(given'.cost, given'.edges) /\ \E w : Fits(Original', All, w)
                   /\ exact' => Above(stack')
                   /\ exact' /\ phase' = "reduce" => Reduced(Original', Now', Left', stack', cost')
                   /\ exact' /\ phase' = "colour" => Settled(Original', Left', stack', cost', assign'))
  BY DEF ExactInv
<1>7. Typed(given'.cost, given'.edges) /\ \E w : Fits(Original', All, w)
  BY <1>1, <1>3 DEF ExactInv
<1>8. exact' => Above(stack')
  BY <1>2 DEF ExactInv
<1>9. exact' => Reduced(Original', Now', Left', stack', cost')
  BY <1>1, <1>2, <1>3, <1>5
<1> QED BY <1>6, <1>7, <1>8, <1>9

\* R1 is such a reduction,
LEMMA ExactR1 ==
  ASSUME IInv, ExactInv, IInv', NEW n \in Nodes, R1Reduction(n)
  PROVE  ExactInv'
<1>1. /\ phase = "reduce" /\ phase' = "reduce" /\ pos \in DOMAIN active /\ n = active[pos]
      /\ ~Concrete(n) /\ Len(neigh[n]) = 1 /\ given' = given /\ edges' = edges
      /\ exact' = exact /\ stack' = Append(stack, Record(n, "R1"))
  BY DEF R1Reduction, Scanning, IInv, CtlInv, ActiveInv
<1>2. n \in Left
  BY <1>1, LeftFacts DEF Range
<1>3. PICK b : b = neigh[n][1]
  OBVIOUS
<1>4. Range(neigh[n]) = {b}
  <2>1. neigh[n] \in Seq(Nodes)
    BY DEF IInv, ActiveInv
  <2> QED BY <1>1, <1>3, <2>1 DEF Range
<1>5. PICK co, ed, co2, A, e :
        co = cost /\ ed = edges /\ co2 = cost' /\ A = Left /\ e = Record(n, "R1")
  OBVIOUS
<1>6. co2 = R1Paid(co, ed, n, b)
  <2>1. PICK best : best = [r \in Domain[b] |->
           Min({Add(EdgeCost(n, q, b, r), cost[n][q]) : q \in Domain[n]})]
    OBVIOUS
  <2>2. cost' = [cost EXCEPT ![b] = [r \in Domain[b] |-> Add(cost[b][r], best[r])]]
    BY <1>3, <2>1 DEF R1Reduction
  <2>3. best = R1Best(co, ed, n, b)
    BY <1>5, <2>1 DEF R1Best, EdgeCost
  <2> QED BY <1>5, <2>2, <2>3 DEF R1Paid
<1>7. Around(ed, A, n, {b}) /\ Records(e, ed, n, {b})
  BY <1>1, <1>2, <1>4, <1>5, AroundRecord
<1>8. Typed(co, ed) /\ Typed(co2, ed)
  <2>1. Typed(cost', edges')
    BY DEF IInv, EdgesInv, CostsInv, Typed
  <2> QED BY <1>1, <1>5, <2>1, LeftFacts
<1>9. 0 < Inf
  <2>1. All \in SUBSET All
    OBVIOUS
  <2> QED BY <2>1, FitsRoom DEF ExactInv
<1>10. PICK D, t : D = Star(n, {b}) /\ t = <<b, b>>
  OBVIOUS
<1>11. /\ Shape(Square(A), Square(A \ {n}), D, t)
       /\ TakenOut(Costing(co, ed), Costing(co2, ed), Square(A), Square(A \ {n}), D, n, t)
  BY <1>6, <1>7, <1>8, <1>9, <1>10, R1Taken
<1>12. \A a \in Assignments : Sel(co, e, a) = StarCosts(Costing(co, ed), D, a, n)
  <2> SUFFICES ASSUME NEW a \in Assignments
               PROVE  Sel(co, e, a) = StarCosts(Costing(co, ed), D, a, n)
    OBVIOUS
  <2>1. PICK B : B = {b}
    OBVIOUS
  <2>2. Single(B, b) /\ Around(ed, A, n, B) /\ Records(e, ed, n, B)
    BY <1>7, <2>1 DEF Single
  <2>3. Sel(co, e, a) = StarCosts(Costing(co, ed), Star(n, B), a, n)
    BY <1>8, <1>9, <2>2, SelR1
  <2> QED BY <1>10, <2>1, <2>3
<1>13. \A m \in NodesOf(stack) \cup {n} : cost[m] = cost'[m]
  <2>1. b \in A /\ b # n
    BY <1>7 DEF Around
  <2>2. b \notin NodesOf(stack)
    BY <1>5, <2>1 DEF Left
  <2>3. \A m \in Nodes \ {b} : co2[m] = co[m]
    BY <1>6, <1>8 DEF R1Paid, Typed
  <2> QED BY <1>5, <2>1, <2>2, <2>3, LeftFacts
<1>14. Now = Costing(co, ed) /\ Costing(cost', edges') = Costing(co2, ed)
  BY <1>1, <1>5 DEF Now
<1> QED BY <1>1, <1>2, <1>5, <1>8, <1>11, <1>12, <1>13, <1>14, ExactStep

\* and R2 is one.
LEMMA ExactR2 ==
  ASSUME IInv, ExactInv, IInv', NEW n \in Nodes, R2Reduction(n)
  PROVE  ExactInv'
<1>1. /\ phase = "reduce" /\ phase' = "reduce" /\ pos \in DOMAIN active /\ n = active[pos]
      /\ ~Concrete(n) /\ Len(neigh[n]) = 2 /\ given' = given /\ cost' = cost
      /\ exact' = exact /\ stack' = Append(stack, Record(n, "R2"))
  BY DEF R2Reduction, Scanning, IInv, CtlInv, ActiveInv
<1>2. n \in Left
  BY <1>1, LeftFacts DEF Range
<1>3. PICK l, m : l = neigh[n][1] /\ m = neigh[n][2]
  OBVIOUS
<1>4. Range(neigh[n]) = {l, m} /\ l # m
  <2>1. neigh[n] \in Seq(Nodes)
    BY DEF IInv, ActiveInv
  <2>2. DOMAIN neigh[n] = 1 .. 2 /\ 1 \in 1 .. 2 /\ 2 \in 1 .. 2 /\ \A i \in 1 .. 2 : i = 1 \/ i = 2
    BY <1>1, <2>1
  <2>3. IsInjective(neigh[n])
    BY <1>1, <1>2, LeftFacts DEF IInv, AdjacencyAgrees
  <2>4. l # m
    BY <1>3, <2>2, <2>3 DEF IsInjective
  <2>5. Range(neigh[n]) = {l, m}
    BY <1>3, <2>2 DEF Range
  <2> QED BY <2>4, <2>5
<1>5. PICK co, ed, ed2, A, e :
        co = cost /\ ed = edges /\ ed2 = edges' /\ A = Left /\ e = Record(n, "R2")
  OBVIOUS
<1>6. ed2 = R2Linked(co, ed, n, l, m)
  <2>1. edges' = [p \in DOMAIN edges \cup {Key(l, m)} |->
                    IF p = Key(l, m) THEN R2Through(n, l, m) ELSE edges[p]]
    BY <1>3 DEF R2Reduction
  <2>2. R2Through(n, l, m) = R2Edge(co, ed, n, l, m)
    BY <1>5 DEF R2Through, R2Edge, R2Best, EdgeCost
  <2> QED BY <1>5, <2>1, <2>2 DEF R2Linked
<1>7. Around(ed, A, n, {l, m}) /\ Records(e, ed, n, {l, m})
  BY <1>1, <1>2, <1>4, <1>5, AroundRecord
<1>8. Typed(co, ed) /\ Typed(co, ed2)
  <2>1. Typed(cost', edges')
    BY DEF IInv, EdgesInv, CostsInv, Typed
  <2> QED BY <1>1, <1>5, <2>1, LeftFacts
<1>9. 0 < Inf
  <2>1. All \in SUBSET All
    OBVIOUS
  <2> QED BY <2>1, FitsRoom DEF ExactInv
<1>10. PICK D, t : D = Star(n, {l, m}) /\ t = Key(l, m)
  OBVIOUS
<1>11. PICK F, G : F = Costing(co, ed) /\ G = Costing(co, ed2)
  OBVIOUS
<1>12. ASSUME NEW w, Fits(F, Square(A), w)
       PROVE  /\ Shape(Square(A), Square(A \ {n}), D, t)
              /\ TakenOut(F, G, Square(A), Square(A \ {n}), D, n, t)
              /\ \A a \in Assignments : Sel(co, e, a) = StarCosts(F, D, a, n)
  <2>1. Fits(Costing(co, ed), Square(A), w)
    BY <1>11, <1>12
  <2>2. /\ Shape(Square(A), Square(A \ {n}), D, t)
        /\ TakenOut(F, G, Square(A), Square(A \ {n}), D, n, t)
    BY <1>4, <1>6, <1>7, <1>8, <1>9, <1>10, <1>11, <2>1, R2Taken
  <2>3. \A a \in Assignments : Sel(co, e, a) = StarCosts(F, D, a, n)
    <3> SUFFICES ASSUME NEW a \in Assignments PROVE Sel(co, e, a) = StarCosts(F, D, a, n)
      OBVIOUS
    <3>1. PICK B : B = {l, m}
      OBVIOUS
    <3>2. Two(B, l, m) /\ Around(ed, A, n, B) /\ Records(e, ed, n, B)
      BY <1>4, <1>7, <3>1 DEF Two
    <3>3. Sel(co, e, a) = StarCosts(Costing(co, ed), Star(n, B), a, n)
      BY <1>8, <1>9, <2>1, <3>2, SelR2
    <3> QED BY <1>10, <1>11, <3>1, <3>3
  <2> QED BY <2>2, <2>3
<1>13. Shape(Square(A), Square(A \ {n}), D, t)
  <2>1. /\ n \in Nodes /\ A \subseteq Nodes /\ l \in A /\ l # n /\ m \in A /\ m # n
    BY <1>7 DEF Around
  <2>2. t = <<l, m>> \/ t = <<m, l>>
    BY <1>10 DEF Key
  <2>3. t \in Square(A \ {n})
    BY <2>1, <2>2 DEF Square
  <2>4. DOMAIN ed \subseteq Pairs
    BY <1>8 DEF Typed
  <2> QED BY <1>7, <1>10, <2>3, <2>4, StarTaken DEF Shape
<1>14. Now = F /\ Costing(cost', edges') = G
  BY <1>1, <1>5, <1>11 DEF Now
<1>15. \A x \in NodesOf(stack) \cup {n} : cost[x] = cost'[x]
  BY <1>1
<1> QED BY <1>1, <1>2, <1>5, <1>8, <1>12, <1>13, <1>14, <1>15, ExactStep

\* RM is not exact; a scan leaves the graph alone.
LEMMA ExactRM ==
  ASSUME ExactInv, NEW n \in Nodes, RMReduction(n)
  PROVE  ExactInv'
<1>1. given' = given /\ ~exact'
  BY DEF RMReduction
<1>2. Typed(given'.cost, given'.edges) /\ \E w : Fits(Original', All, w)
  BY <1>1 DEF ExactInv, Original
<1> QED BY <1>1, <1>2 DEF ExactInv

\* The scan, and everything after the colouring.
LEMMA ExactScan ==
  ASSUME ExactInv, UNCHANGED <<given, graph, exact, stack>>,
         phase' = phase \/ phase' \notin {"reduce", "colour"},
         phase' = "colour" => assign' = assign
  PROVE  ExactInv'
<1>1. /\ given' = given /\ cost' = cost /\ edges' = edges /\ exact' = exact /\ stack' = stack
  BY DEF graph
<1>2. Original' = Original /\ Now' = Now /\ Left' = Left
  BY <1>1 DEF Original, Now, Left, NodesOf
<1>3. Typed(given'.cost, given'.edges) /\ \E w : Fits(Original', All, w)
  BY <1>1, <1>2 DEF ExactInv
<1>4. exact' => Above(stack')
  BY <1>1 DEF ExactInv
<1>5. exact' /\ phase' = "reduce" => Reduced(Original', Now', Left', stack', cost')
  BY <1>1, <1>2 DEF ExactInv
<1>6. exact' /\ phase' = "colour" => Settled(Original', Left', stack', cost', assign')
  BY <1>1, <1>2 DEF ExactInv
<1> QED BY <1>3, <1>4, <1>5, <1>6 DEF ExactInv

\* An entry weighs no more than all of them.
LEMMA WeightBelow ==
  ASSUME NEW F, NEW P \in SUBSET All, NEW w, Fits(F, P, w), NEW p \in P
  PROVE  w[p] \in Nat /\ w[p] < Limit
<1>1. w \in [All -> Nat] /\ w \in [All -> Int] /\ SumOver(w, P) < Limit /\ p \in All
  BY DEF Fits
<1>2. PICK r : r = P \ {p}
  OBVIOUS
<1>3. r \in SUBSET P /\ P \in SUBSET P
  BY <1>2
<1>4. SumOver(w, r) \in Nat /\ SumOver(w, P) \in Nat
  BY <1>1, <1>3, AllFinite, SumNat
<1>5. SumOver(w, P) = w[p] + SumOver(w, r)
  BY <1>1, <1>2, AllFinite, SumStep
<1> QED BY <1>1, <1>4, <1>5, AllFinite

\* Where no node that can be chosen for has a neighbour left, the cheapest register
\* of each is a cheapest assignment.
LEMMA ResidualLeast ==
  ASSUME NEW co, NEW ed, Typed(co, ed), NEW A \in SUBSET Nodes,
         NEW w, Fits(Costing(co, ed), Square(A), w),
         \A n, m \in A : n # m /\ Key(n, m) \in DOMAIN ed => Concrete(n) /\ Concrete(m),
         NEW a \in Assignments, NEW b \in Assignments,
         \A n \in A : ~Concrete(n) => \E e : e.node = n /\ e.edges = {} /\ Picked(co, e, a)
  PROVE  NoDearer(Costing(co, ed)[a], Square(A), Costing(co, ed)[b], Square(A))
<1>1. PICK F, P : F = Costing(co, ed) /\ P = Square(A)
  OBVIOUS
<1>2. F \in Costings /\ P \in SUBSET All /\ Fits(F, P, w)
  BY <1>1, CostingTyped DEF Square, All
<1>3. F[a] \in [All -> Int] /\ F[b] \in [All -> Int] /\ F[a] = CostsOf(co, ed, a) /\ F[b] = CostsOf(co, ed, b)
  BY <1>1, <1>2 DEF Costings, Costing
<1>4. 0 < Inf
  BY <1>2, FitsRoom
<1>5. ASSUME NEW n \in Nodes, Concrete(n) PROVE a[n] = b[n]
  BY <1>5, AssignmentFacts, DomainAssumption
<1> SUFFICES ASSUME Feasible(F[b], P)
             PROVE  Feasible(F[a], P) /\ SumOver(F[a], P) <= SumOver(F[b], P)
  BY <1>1 DEF NoDearer
<1>6. ASSUME NEW n \in A PROVE F[a][<<n, n>>] <= F[b][<<n, n>>]
  <2>1. PICK p : p = <<n, n>>
    OBVIOUS
  <2>2. p \in P /\ p \in All /\ n \in Nodes
    BY <1>1, <1>2, <2>1 DEF Square
  <2>3. F[a][p] = co[n][a[n]] /\ F[b][p] = co[n][b[n]]
    <3>1. /\ CostsOf(co, ed, a)[<<n, n>>] = co[n][a[n]]
          /\ CostsOf(co, ed, b)[<<n, n>>] = co[n][b[n]]
      BY <2>2, NodeTerm
    <3> QED BY <1>3, <2>1, <3>1
  <2>4. F[a][p] \in Int /\ F[b][p] \in Int
    BY <1>3, <2>2
  <2>5. CASE Concrete(n)
    BY <1>5, <2>1, <2>2, <2>3, <2>4, <2>5
  <2>6. CASE ~Concrete(n)
    <3>1. PICK e : e.node = n /\ e.edges = {} /\ Picked(co, e, a)
      BY <2>6
    <3>2. PICK sel : sel = Sel(co, e, a)
      OBVIOUS
    <3>3. ASSUME NEW q \in Domain[n] PROVE co[n][q] \in Int /\ sel[q] = Add(co[n][q], 0)
      <4>1. PaidOn(a, n, q, {}) = 0
        BY AddSumNone DEF PaidOn
      <4>2. sel[q] = Add(co[n][q], PaidOn(a, n, q, {}))
        BY <3>1, <3>2 DEF Sel
      <4> QED BY <2>2, <4>1, <4>2 DEF Typed
    <3>4. \A q \in Domain[n] : sel[q] = IF co[n][q] < Inf THEN co[n][q] ELSE Inf
      BY <1>4, <3>3, AllFinite DEF Add
    <3>5. sel \in [Domain[n] -> Int]
      <4>1. \A q \in Domain[n] : sel[q] \in Int
        BY <3>3, <3>4, AllFinite
      <4>2. sel = [q \in Domain[n] |-> sel[q]]
        BY <3>1, <3>2 DEF Sel
      <4> QED BY <4>1, <4>2
    <3>6. b[n] \in Domain[n] /\ F[b][p] < Inf /\ F[b][p] < Limit
      <4>1. F[b][p] < Inf
        BY <2>2 DEF Feasible
      <4>2. F[b][p] <= w[p]
        BY <1>2, <2>2, <4>1 DEF Fits
      <4>3. w[p] \in Nat /\ w[p] < Limit
        BY <1>2, <2>2, WeightBelow
      <4> QED BY <2>2, <2>4, <4>1, <4>2, <4>3, AllFinite, AssignmentFacts
    <3>7. sel[b[n]] = F[b][p]
      BY <2>3, <3>4, <3>6
    <3>8. a[n] = Choice(sel, Domain[n])
      BY <3>1, <3>2 DEF Picked
    <3>9. a[n] \in Domain[n] /\ sel[a[n]] <= sel[b[n]]
      <4>1. sel[b[n]] < Limit
        BY <3>6, <3>7
      <4> QED BY <2>2, <2>6, <3>5, <3>6, <3>8, <4>1, ChoiceLeast
    <3>10. sel[a[n]] = F[a][p]
      BY <2>3, <2>4, <3>4, <3>6, <3>7, <3>9, AllFinite
    <3> QED BY <2>1, <3>7, <3>9, <3>10
  <2> QED BY <2>5, <2>6
<1>7. ASSUME NEW p \in P PROVE F[a][p] <= F[b][p]
  <2>1. PICK n \in A, m \in A : p = <<n, m>>
    BY <1>1 DEF Square
  <2>2. n \in Nodes /\ m \in Nodes /\ p \in All /\ F[a][p] \in Int /\ F[b][p] \in Int
    BY <1>2, <1>3
  <2>3. CASE n = m
    BY <1>6, <2>1, <2>3
  <2>4. CASE n # m /\ p \in DOMAIN ed
    <3>1. n < m /\ Key(n, m) = p
      BY <2>1, <2>4 DEF Typed, Pairs, Key
    <3>2. a[n] = b[n] /\ a[m] = b[m]
      BY <1>5, <2>2, <2>4, <3>1
    <3>3. F[a][p] = ed[p][<<a[n], a[m]>>] /\ F[b][p] = ed[p][<<b[n], b[m]>>]
      BY <1>3, <2>1, <2>2, <2>4 DEF CostsOf
    <3> QED BY <2>2, <3>2, <3>3
  <2>5. CASE n # m /\ p \notin DOMAIN ed
    <3>1. F[a][p] = 0 /\ F[b][p] = 0
      BY <1>3, <2>1, <2>2, <2>5, NoTerm
    <3> QED BY <3>1
  <2> QED BY <2>3, <2>4, <2>5
<1>8. Feasible(F[a], P)
  <2> SUFFICES ASSUME NEW p \in P PROVE F[a][p] < Inf
    BY DEF Feasible
  <2>1. F[b][p] < Inf /\ p \in All
    BY <1>2 DEF Feasible
  <2> QED BY <1>3, <1>7, <2>1, AllFinite
<1>9. SumOver(F[a], P) <= SumOver(F[b], P)
  BY <1>2, <1>3, <1>7, AllFinite, SumMonotone
<1> QED BY <1>8, <1>9

\* What is left is pushed with a record that has no edges.
LEMMA EndStack ==
  ASSUME IInv, EndReduction
  PROVE  /\ \A i \in DOMAIN stack : i \in DOMAIN stack' /\ stack'[i] = stack[i] /\ i \in Nat
         /\ \A i \in DOMAIN stack' :
              /\ i \in Nat
              /\ \/ i \in DOMAIN stack /\ \A j \in 1 .. i : j \in DOMAIN stack
                 \/ stack'[i].edges = {}
         /\ \A n \in Left : ~Concrete(n) =>
              \E i \in DOMAIN stack' : stack'[i].node = n /\ stack'[i].edges = {}
<1>1. PICK rest : rest = Keeping(active, {n \in Nodes : ~Concrete(n)})
  OBVIOUS
<1>2. rest \in Seq(Nodes) /\ Range(rest) = Range(active) \cap {n \in Nodes : ~Concrete(n)}
  <2>1. active \in Seq(Nodes)
    BY DEF IInv, ActiveInv
  <2> QED BY <1>1, <2>1, KeepingList
<1>3. PICK l, k : l = Len(stack) /\ k = Len(rest)
  OBVIOUS
<1>4. stack \in Seq(Frame) /\ l \in Nat /\ DOMAIN stack = 1 .. l /\ k \in Nat /\ DOMAIN rest = 1 .. k
  BY <1>2, <1>3, LeftFacts
<1>5. PICK F : F = [i \in 1 .. k |-> [type |-> "RM", node |-> rest[i], edges |-> {}]]
  OBVIOUS
<1>6. stack' = stack \o F
  BY <1>1, <1>4, <1>5 DEF EndReduction
<1>7. F \in Seq(Frame) /\ Len(F) = k
  <2>1. \A i \in 1 .. k : [type |-> "RM", node |-> rest[i], edges |-> {}] \in Frame
    BY <1>2, <1>4 DEF Frame
  <2> QED BY <1>4, <1>5, <2>1
<1>8. stack' \in Seq(Frame) /\ DOMAIN stack' = 1 .. (l + k)
  <2>1. stack' \in Seq(Frame)
    BY <1>4, <1>6, <1>7
  <2>2. Len(stack') = l + k
    <3>1. PICK s : s = stack
      OBVIOUS
    <3>2. s \in Seq(Frame) /\ Len(s) = l
      BY <1>3, <1>4, <3>1
    <3>3. Len(s \o F) = Len(s) + Len(F)
      BY <1>7, <3>2
    <3> QED BY <1>6, <1>7, <3>1, <3>2, <3>3
  <2> QED BY <2>1, <2>2
<1>9. \A i \in 1 .. l : stack'[i] = stack[i]
  BY <1>3, <1>4, <1>6, <1>7
<1>10. \A i \in 1 .. k : stack'[l + i] = F[i]
  BY <1>3, <1>4, <1>6, <1>7
<1>11. ASSUME NEW i \in 1 .. (l + k), i \notin 1 .. l PROVE stack'[i].edges = {}
  <2>1. i - l \in 1 .. k /\ i = l + (i - l)
    BY <1>4, <1>11
  <2>2. stack'[i] = F[i - l]
    BY <1>10, <2>1
  <2> QED BY <1>5, <2>1, <2>2
<1>12. ASSUME NEW n \in Left, ~Concrete(n)
       PROVE  \E i \in 1 .. (l + k) : stack'[i].node = n /\ stack'[i].edges = {}
  <2>1. n \in Range(rest)
    BY <1>2, <1>12, LeftFacts DEF EndReduction
  <2>2. PICK i \in 1 .. k : n = rest[i]
    BY <1>4, <2>1 DEF Range
  <2>3. l + i \in 1 .. (l + k) /\ stack'[l + i] = F[i]
    BY <1>4, <1>10
  <2> QED BY <1>5, <2>2, <2>3
<1> QED BY <1>4, <1>8, <1>9, <1>11, <1>12

\* The end of the reduction: the rest has no edge that is not between precoloured nodes.
LEMMA ExactEnd ==
  ASSUME IInv, ExactInv, EndReduction
  PROVE  ExactInv'
<1>1. /\ phase = "reduce" /\ phase' = "colour" /\ Spillable = {} /\ exact' = exact
      /\ given' = given /\ cost' = cost /\ edges' = edges
  BY DEF EndReduction, graph
<1>2. PICK O, F, A, s, s2, co, ed :
        /\ O = Original /\ F = Now /\ A = Left /\ s = stack /\ s2 = stack' /\ co = cost /\ ed = edges
  OBVIOUS
<1>3. Original' = O /\ F = Costing(co, ed) /\ Typed(co, ed) /\ A \in SUBSET Nodes
  BY <1>1, <1>2, LeftFacts DEF Original, Now
<1>4. O \in Costings /\ F \in Costings
  BY <1>2, <1>3, CostingTyped DEF ExactInv, Original
<1>5. ASSUME exact PROVE Above(s2)
  BY <1>2, <1>5, EndStack DEF ExactInv, Above
<1>6. ASSUME NEW n \in A, NEW m \in A, n # m, Key(n, m) \in DOMAIN ed, ~Concrete(n)
      PROVE  FALSE
  <2>1. A = Range(active)
    BY <1>1, <1>2, LeftFacts
  <2>2. neigh[n] = <<>>
    BY <1>1, <1>6, <2>1 DEF Spillable
  <2>3. m \notin Range(neigh[n])
    BY <2>2 DEF Range
  <2> QED BY <1>2, <1>3, <1>6, <2>1, <2>3, AdjacencyParts DEF IInv, Adjacent
<1>7. \A n, m \in A : n # m /\ Key(n, m) \in DOMAIN ed => Concrete(n) /\ Concrete(m)
  <2> SUFFICES ASSUME NEW n \in A, NEW m \in A, n # m, Key(n, m) \in DOMAIN ed
               PROVE  Concrete(n) /\ Concrete(m)
    OBVIOUS
  <2>1. Key(n, m) = Key(m, n)
    BY <1>3, KeyNames
  <2> QED BY <1>6, <2>1
<1>8. ASSUME exact, NEW a \in Assignments, Greedy(co, s2, a) PROVE Optimal(O, a)
  <2>1. Reduced(O, F, A, s, co)
    BY <1>1, <1>2, <1>8 DEF ExactInv
  <2>2. PICK w : Fits(F, Square(A), w)
    BY <2>1 DEF Reduced
  <2>3. Greedy(co, s, a)
    BY <1>2, <1>8, EndStack DEF Greedy
  <2>4. ASSUME NEW n \in A, ~Concrete(n)
        PROVE  \E e : e.node = n /\ e.edges = {} /\ Picked(co, e, a)
    <3>1. PICK i \in DOMAIN s2 : s2[i].node = n /\ s2[i].edges = {}
      BY <1>2, <2>4, EndStack
    <3>2. Picked(co, s2[i], a)
      BY <1>8 DEF Greedy
    <3> QED BY <3>1, <3>2
  <2> SUFFICES ASSUME NEW b \in Assignments PROVE NoDearer(O[a], All, O[b], All)
    BY DEF Optimal
  <2>5. NoDearer(F[a], Square(A), F[b], Square(A))
    BY <1>3, <1>7, <2>2, <2>4, ResidualLeast
  <2>6. NoDearer(O[a], All, F[a], Square(A)) /\ NoDearer(F[b], Square(A), O[b], All)
    BY <2>1, <2>3 DEF Reduced
  <2>7. PICK oa, ob, fa, fb \in [All -> Int] : oa = O[a] /\ ob = O[b] /\ fa = F[a] /\ fb = F[b]
    BY <1>4 DEF Costings
  <2>8. PICK P : P = Square(A)
    OBVIOUS
  <2>9. P \in SUBSET All /\ All \in SUBSET All
    BY <1>3, <2>8 DEF Square, All
  <2>10. NoDearer(oa, All, fb, P)
    BY <2>5, <2>6, <2>7, <2>8, <2>9, NoDearerChain
  <2>11. NoDearer(oa, All, ob, All)
    BY <2>6, <2>7, <2>8, <2>9, <2>10, NoDearerChain
  <2> QED BY <2>7, <2>11
<1>9. exact => Settled(Original', Left', stack', cost', assign')
  BY <1>1, <1>2, <1>3, <1>8 DEF Settled
<1>10. Typed(given'.cost, given'.edges) /\ \E w : Fits(Original', All, w)
  BY <1>1, <1>2, <1>3 DEF ExactInv
<1> QED BY <1>1, <1>2, <1>5, <1>9, <1>10 DEF ExactInv

\* What a record's edges cost where the neighbours have the registers of assign.
LEMMA PaidThere ==
  ASSUME NEW e, FrameOK(e), NEW a \in Assignments, NEW r \in Domain[e.node],
         \A x \in e.edges : a[x.other] = assign[x.other]
  PROVE  PaidOn(a, e.node, r, e.edges) = EdgesPaid(e.node, r, e.edges)
<1>1. PICK S, u : S = e.edges /\ u = e.node
  OBVIOUS
<1>2. /\ IsFiniteSet(S) /\ u \in Nodes
      /\ \A x \in S : x.other \in Nodes /\ x.other # u /\ x.costs \in Table(Key(u, x.other))
  BY <1>1 DEF FrameOK, Frame
<1>3. PICK c : c = [x \in S |-> CostOf(x.costs, u, r, x.other, a[x.other])]
  OBVIOUS
<1>4. ASSUME NEW x \in S PROVE CostOf(x.costs, u, r, x.other, a[x.other]) \in Int
  <2>1. a[x.other] \in Domain[x.other]
    BY <1>2, AssignmentFacts
  <2> QED BY <1>1, <1>2, <2>1, CostInt
<1>5. c \in [S -> Int]
  BY <1>3, <1>4
<1>6. \A x \in S : c[x] = CostOf(x.costs, u, r, x.other, assign[x.other])
  BY <1>1, <1>3
<1>7. EdgesPaid(u, r, S) = AddSum(c, S)
  BY <1>2, <1>5, <1>6, PaidIsSum
<1> QED BY <1>1, <1>3, <1>7 DEF PaidOn

\* Above a record all of its neighbours have been coloured.
LEMMA AbovePop ==
  ASSUME NEW s \in Seq(Frame), s # <<>>, Above(s)
  PROVE  /\ Above(Front(s))
         /\ \A x \in Last(s).edges : x.other \notin NodesOf(s)
         /\ \A co, a : Greedy(co, Front(s), a) /\ Picked(co, Last(s), a) => Greedy(co, s, a)
<1>1. PICK t, l : t = Front(s) /\ l = Len(s)
  OBVIOUS
<1>2. l \in Nat /\ l >= 1 /\ DOMAIN s = 1 .. l /\ l \in 1 .. l
  BY <1>1
<1>3. /\ DOMAIN t = 1 .. (l - 1)
      /\ \A i \in 1 .. (l - 1) : t[i] = s[i] /\ i \in 1 .. l /\ i # l
  BY <1>1, <1>2 DEF Front
<1>4. Last(s) = s[l]
  BY <1>1 DEF Last
<1>5. \A i \in 1 .. l : i \in 1 .. (l - 1) \/ i = l
  BY <1>2
<1>6. Above(t)
  <2> SUFFICES ASSUME NEW i \in 1 .. (l - 1), NEW x \in t[i].edges, NEW j \in 1 .. i
               PROVE  x.other # t[j].node
    BY <1>3 DEF Above
  <2>1. j \in 1 .. (l - 1)
    BY <1>2
  <2> QED BY <1>2, <1>3, <2>1 DEF Above
<1>7. ASSUME NEW x \in s[l].edges PROVE x.other \notin NodesOf(s)
  BY <1>2, <1>7 DEF Above, NodesOf
<1>8. ASSUME NEW co, NEW a, Greedy(co, t, a), Picked(co, s[l], a) PROVE Greedy(co, s, a)
  BY <1>2, <1>3, <1>5, <1>8 DEF Greedy
<1> QED BY <1>1, <1>4, <1>6, <1>7, <1>8

\* Colouring takes for the node what a greedy assignment would.
LEMMA ExactColour ==
  ASSUME IInv, ExactInv, Colour
  PROVE  ExactInv'
<1>1. /\ phase = "colour" /\ phase' = "colour" /\ stack # <<>> /\ stack' = Front(stack)
      /\ given' = given /\ cost' = cost /\ exact' = exact
  BY DEF Colour, graph
<1>2. PICK u, e, sel, s, s2, co, A, O, asg :
        /\ e = Last(stack) /\ u = e.node /\ s = stack /\ s2 = Front(stack) /\ co = cost
        /\ sel = [q \in Domain[u] |-> Add(cost[u][q], EdgesPaid(u, q, e.edges))]
        /\ A = Left /\ O = Original /\ asg = assign'
  OBVIOUS
<1>3. asg = [assign EXCEPT ![u] = Choice(sel, Domain[u])]
  BY <1>2 DEF Colour
<1>4. NodesOf(s2) = NodesOf(s) \ {u} /\ FrameOK(e) /\ u \in NodesOf(s)
  <2>1. Frames(s)
    BY <1>2 DEF IInv, StackInv
  <2> QED BY <1>1, <1>2, <2>1, PopFrame
<1>5. u \in Nodes /\ A = Nodes \ NodesOf(s)
  BY <1>2, <1>4 DEF FrameOK, Frame, Left
<1>6. Left' = Nodes \ NodesOf(s2)
  BY <1>1, <1>2 DEF Left, NodesOf
<1>7. assign \in [Nodes -> Nat]
  BY DEF IInv, AssignInv
<1>8. s \in Seq(Frame) /\ s # <<>>
  BY <1>1, <1>2, LeftFacts
<1>9. ASSUME exact
      PROVE  /\ Above(s2) /\ \A x \in e.edges : x.other \notin NodesOf(s)
             /\ \A a : Greedy(co, s2, a) /\ Picked(co, e, a) => Greedy(co, s, a)
  <2>1. Above(s)
    BY <1>2, <1>9 DEF ExactInv
  <2> QED BY <1>2, <1>8, <2>1, AbovePop
<1>10. ASSUME exact, NEW a \in Assignments, \A n \in Nodes \ NodesOf(s2) : a[n] = asg[n],
              Greedy(co, s2, a)
       PROVE  Optimal(O, a)
  <2>1. ASSUME NEW n \in A PROVE a[n] = assign[n]
    <3>1. n # u /\ n \in Nodes \ NodesOf(s2)
      BY <1>4, <1>5, <2>1
    <3> QED BY <1>3, <1>7, <1>10, <3>1
  <2>2. a[u] = Choice(sel, Domain[u])
    <3>1. u \in Nodes \ NodesOf(s2)
      BY <1>4, <1>5
    <3> QED BY <1>3, <1>5, <1>7, <1>10, <3>1
  <2>3. \A x \in e.edges : a[x.other] = assign[x.other]
    <3>1. \A x \in e.edges : x.other \in A
      BY <1>4, <1>5, <1>9, <1>10 DEF FrameOK, Frame
    <3> QED BY <2>1, <3>1
  <2>4. Sel(co, e, a) = sel
    <3>1. \A q \in Domain[u] : PaidOn(a, u, q, e.edges) = EdgesPaid(u, q, e.edges)
      BY <1>2, <1>4, <2>3, PaidThere
    <3>2. Sel(co, e, a) = [q \in Domain[u] |-> Add(co[u][q], PaidOn(a, u, q, e.edges))]
      BY <1>2 DEF Sel
    <3> QED BY <1>2, <3>1, <3>2
  <2>5. Picked(co, e, a)
    BY <1>2, <2>2, <2>4 DEF Picked
  <2>6. Greedy(co, s, a)
    BY <1>9, <1>10, <2>5
  <2>7. Settled(O, A, s, co, assign)
    BY <1>1, <1>2, <1>10 DEF ExactInv
  <2> QED BY <2>1, <2>6, <2>7 DEF Settled
<1>11. Original' = O
  BY <1>1, <1>2 DEF Original
<1>12. Typed(given'.cost, given'.edges) /\ \E w : Fits(Original', All, w)
  BY <1>1, <1>2, <1>11 DEF ExactInv
<1>13. exact' => Above(stack')
  BY <1>1, <1>2, <1>9
<1>14. exact' => Settled(Original', Left', stack', cost', assign')
  BY <1>1, <1>2, <1>6, <1>10, <1>11 DEF Settled
<1> QED BY <1>1, <1>12, <1>13, <1>14 DEF ExactInv

\* RoomAssumption's fold is a sum.
LEMMA RoomIsSum ==
  ASSUME NEW c \in NodeCosts, NEW f \in [Nodes -> Nat], \A n \in Nodes : f[n] = Dearest(c[n])
  PROVE  SumOver(f, Nodes) < Limit
<1> DEFINE S == Nodes
           d(n) == Dearest(c[n])
           P(g) == g = [s \in SUBSET S |->
                          IF s = {} THEN 0
                          ELSE d(CHOOSE x \in s : TRUE) + g[s \ {CHOOSE x \in s : TRUE}]]
<1>1. FoldSet(LAMBDA n, acc : Dearest(c[n]) + acc, 0, Nodes) = (CHOOSE g : P(g))[S]
  BY SMT DEF FoldSet, MapThenFoldSet
<1>2. \A s \in SUBSET S : s # {} => f[First(s)] = d(CHOOSE x \in s : TRUE)
  <2> SUFFICES ASSUME NEW s \in SUBSET S, s # {} PROVE f[First(s)] = d(CHOOSE x \in s : TRUE)
    OBVIOUS
  <2>1. PICK y : y = First(s)
    OBVIOUS
  <2>2. y \in S /\ y = CHOOSE x \in s : TRUE
    BY <2>1, FirstIn DEF First
  <2>3. f[y] = d(y)
    BY <2>2
  <2> QED BY <2>1, <2>2, <2>3
<1>3. IsFiniteSet(S) /\ f \in [S -> Int]
  BY NodesAssumption
<1> HIDE DEF d
<1>4. PICK g : g = [s \in SUBSET S |-> SumOver(f, s)]
  OBVIOUS
<1>5. \A s \in SUBSET S :
        g[s] = IF s = {} THEN 0 ELSE f[First(s)] + g[s \ {First(s)}]
  <2> SUFFICES ASSUME NEW s \in SUBSET S
               PROVE  g[s] = IF s = {} THEN 0 ELSE f[First(s)] + g[s \ {First(s)}]
    OBVIOUS
  <2>1. CASE s = {}
    <3>1. SumOver(f, {}) = 0
      BY <1>3, SumEmpty
    <3> QED BY <1>4, <2>1, <3>1
  <2>2. CASE s # {}
    <3>1. PICK y : y = First(s)
      OBVIOUS
    <3>2. y \in s
      BY <2>2, <3>1, FirstIn
    <3>3. SumOver(f, s) = f[y] + SumOver(f, s \ {y})
      BY <1>3, <3>2, SumStep
    <3> QED BY <1>4, <2>2, <3>1, <3>3
  <2> QED BY <2>1, <2>2
<1>6. P(g)
  <2>1. \A s \in SUBSET S :
          g[s] = IF s = {} THEN 0
                 ELSE d(CHOOSE x \in s : TRUE) + g[s \ {CHOOSE x \in s : TRUE}]
    BY <1>2, <1>5, Zenon DEF First
  <2>2. g = [s \in SUBSET S |-> g[s]]
    BY <1>4
  <2> QED BY <2>1, <2>2, Zenon
<1>7. PICK h : h = CHOOSE k : P(k)
  OBVIOUS
<1> HIDE DEF P
<1>8. P(h)
  BY <1>6, <1>7, Zenon
<1>9. \A s \in SUBSET S :
        h[s] = IF s = {} THEN 0 ELSE f[First(s)] + h[s \ {First(s)}]
  <2>1. \A s \in SUBSET S :
          h[s] = IF s = {} THEN 0
                 ELSE d(CHOOSE x \in s : TRUE) + h[s \ {CHOOSE x \in s : TRUE}]
    BY <1>8, Zenon DEF P
  <2> QED BY <1>2, <2>1, Zenon DEF First
<1> DEFINE Bad == {s \in SUBSET S : h[s] # g[s]}
<1>10. ASSUME Bad # {} PROVE FALSE
  <2>1. PICK s \in Bad : \A y \in Bad : y \subseteq s => y = s
    <3>1. Bad \in SUBSET SUBSET S
      OBVIOUS
    <3> HIDE DEF Bad
    <3> QED BY <1>3, <3>1, <1>10, MinimalSet
  <2>2. s \in SUBSET S /\ h[s] # g[s]
    BY <2>1
  <2>3. s # {}
    BY <1>5, <1>9, <2>2
  <2>4. PICK y : y = First(s)
    OBVIOUS
  <2>5. y \in s
    BY <2>3, <2>4, FirstIn
  <2>6. PICK r : r = s \ {y}
    OBVIOUS
  <2>7. r \in SUBSET S /\ r # s /\ r \subseteq s
    BY <2>2, <2>5, <2>6
  <2>8. h[r] = g[r]
    BY <2>1, <2>7
  <2>9. h[s] = f[y] + h[r] /\ g[s] = f[y] + g[r]
    BY <1>5, <1>9, <2>2, <2>3, <2>4, <2>6
  <2> QED BY <2>2, <2>8, <2>9
<1>11. h[S] = SumOver(f, S)
  <2>1. S \in SUBSET S
    OBVIOUS
  <2>2. h[S] = g[S]
    BY <1>10, <2>1
  <2> QED BY <1>4, <2>1, <2>2
<1>12. FoldSet(LAMBDA n, acc : Dearest(c[n]) + acc, 0, Nodes) < Limit
  BY RoomAssumption
<1> QED BY <1>1, <1>7, <1>11, <1>12, Zenon DEF P, S

\* The terms of the nodes are on the diagonal.
Diagonal(A) == {<<n, n>> : n \in A}

\* Their sum is the sum over the nodes.
LEMMA DiagonalSum ==
  ASSUME NEW f \in [All -> Int], NEW g \in [Nodes -> Int],
         \A n \in Nodes : f[<<n, n>>] = g[n]
  PROVE  SumOver(f, Diagonal(Nodes)) = SumOver(g, Nodes)
<1> DEFINE Bad == {s \in SUBSET Nodes : SumOver(f, Diagonal(s)) # SumOver(g, s)}
<1>1. ASSUME Bad # {} PROVE FALSE
  <2>1. PICK s \in Bad : \A y \in Bad : y \subseteq s => y = s
    <3>1. Bad \in SUBSET SUBSET Nodes
      OBVIOUS
    <3> HIDE DEF Bad
    <3> QED BY NodesAssumption, <3>1, <1>1, MinimalSet
  <2>2. s \in SUBSET Nodes /\ SumOver(f, Diagonal(s)) # SumOver(g, s)
    BY <2>1
  <2>3. s # {}
    <3> SUFFICES ASSUME s = {} PROVE FALSE
      OBVIOUS
    <3>1. Diagonal({}) = {}
      BY DEF Diagonal
    <3>2. SumOver(f, {}) = 0 /\ SumOver(g, {}) = 0
      BY AllFinite, NodesAssumption, SumEmpty
    <3>3. SumOver(f, Diagonal({})) # SumOver(g, {})
      BY <2>2, Zenon
    <3> QED BY <3>1, <3>2, <3>3
  <2>4. PICK n \in s : TRUE
    BY <2>3
  <2>5. PICK r, d, p, v : r = s \ {n} /\ d = Diagonal(s) /\ p = <<n, n>> /\ v = Diagonal(r)
    OBVIOUS
  <2>6. r \in SUBSET Nodes /\ r # s /\ r \subseteq s
    BY <2>2, <2>4, <2>5
  <2>7. SumOver(f, v) = SumOver(g, r)
    BY <2>1, <2>5, <2>6
  <2>8. d \in SUBSET All /\ p \in d /\ v = d \ {p}
    BY <2>2, <2>4, <2>5 DEF Diagonal, All
  <2>9. SumOver(f, d) = f[p] + SumOver(f, d \ {p})
    BY <2>8, AllFinite, SumStep
  <2>10. SumOver(g, s) = g[n] + SumOver(g, s \ {n})
    BY <2>2, <2>4, NodesAssumption, SumStep
  <2>11. f[p] = g[n]
    BY <2>2, <2>4, <2>5
  <2> QED BY <2>2, <2>5, <2>7, <2>8, <2>9, <2>10, <2>11
<1>2. Nodes \in SUBSET Nodes
  OBVIOUS
<1> QED BY <1>1, <1>2

\* A finite cost of a node is no greater than the dearest.
LEMMA DearestFacts ==
  ASSUME NEW n \in Nodes, NEW t \in [Domain[n] -> Int]
  PROVE  Dearest(t) \in Nat /\ \A r \in Domain[n] : t[r] < Inf => t[r] <= Dearest(t)
<1>1. PICK Q : Q = {q \in DOMAIN t : t[q] < Inf}
  OBVIOUS
<1>2. PICK V, S : V = {t[r] : r \in Q} /\ S = {0} \cup V
  OBVIOUS
<1>3. IsFiniteSet(Domain[n]) /\ Q \subseteq Domain[n]
  BY <1>1, DomainAssumption
<1>4. IsFiniteSet(Q)
  BY <1>3, FS_Subset
<1>5. IsFiniteSet(V)
  <2>1. PICK f : f = [q \in Q |-> t[q]]
    OBVIOUS
  <2>2. f \in Surjection(Q, V)
    BY <1>2, <2>1 DEF Surjection
  <2> QED BY <1>4, <2>2, FS_Surjection
<1>6. IsFiniteSet(S)
  <2>1. IsFiniteSet({0})
    BY FS_Singleton
  <2> QED BY <1>2, <1>5, <2>1, FS_Union
<1>7. S \in SUBSET Int /\ 0 \in S /\ S # {}
  BY <1>2, <1>3
<1>8. Max(S) \in S /\ \A y \in S : Max(S) >= y
  BY <1>6, <1>7, MaxOf
<1>9. Dearest(t) = Max(S)
  BY <1>1, <1>2 DEF Dearest
<1>10. Dearest(t) \in Nat
  <2>1. PICK m : m = Max(S)
    OBVIOUS
  <2>2. m \in Int /\ m >= 0
    BY <1>7, <1>8, <2>1
  <2> QED BY <1>9, <2>1, <2>2
<1>11. ASSUME NEW r \in Domain[n], t[r] < Inf PROVE t[r] <= Dearest(t)
  <2>1. t[r] \in S
    BY <1>1, <1>2, <1>11
  <2> QED BY <1>7, <1>8, <1>9, <2>1
<1> QED BY <1>10, <1>11

\* An edge that is set up costs nothing, saves something, or is infinite.
LEMMA MatrixFits ==
  ASSUME NEW p \in Pairs, NEW kind, NEW r \in Domain[p[1]] \X Domain[p[2]],
         Matrix(p, kind)[r] < Inf
  PROVE  Matrix(p, kind)[r] <= 0
<1>1. Inf \in Int
  BY AllFinite
<1>2. Interference(p)[r] < Inf => Interference(p)[r] <= 0
  BY <1>1 DEF Interference
<1>3. \A t \in Nat : Discounted(p, t)[r] <= 0
  BY DEF Discounted, CopyDiscount
<1>4. CASE kind = "interfere"
  BY <1>2, <1>4 DEF Matrix
<1>5. CASE kind # "interfere"
  <2>1. \E t \in Nat : Matrix(p, kind) = Discounted(p, t)
    BY <1>5 DEF Matrix
  <2> QED BY <1>3, <2>1
<1> QED BY <1>4, <1>5

\* What is given has room.
LEMMA GivenFits ==
  ASSUME NEW c \in NodeCosts, NEW ed, Typed(c, ed),
         \A p \in DOMAIN ed : \A r \in Domain[p[1]] \X Domain[p[2]] :
           ed[p][r] < Inf => ed[p][r] <= 0
  PROVE  \E w : Fits(Costing(c, ed), All, w)
<1>1. PICK f : f = [n \in Nodes |-> Dearest(c[n])]
  OBVIOUS
<1>2. \A n \in Nodes : c[n] \in [Domain[n] -> Int]
  BY DEF Typed
<1>3. f \in [Nodes -> Nat] /\ f \in [Nodes -> Int] /\ \A n \in Nodes : f[n] = Dearest(c[n])
  BY <1>1, <1>2, DearestFacts
<1>4. SumOver(f, Nodes) < Limit
  BY <1>3, RoomIsSum
<1>5. PICK w : w = [p \in All |-> IF p[1] = p[2] THEN f[p[1]] ELSE 0]
  OBVIOUS
<1>6. w \in [All -> Nat] /\ w \in [All -> Int]
  BY <1>3, <1>5 DEF All
<1>7. \A n \in Nodes : w[<<n, n>>] = f[n]
  BY <1>5 DEF All
<1>8. PICK d : d = Diagonal(Nodes)
  OBVIOUS
<1>9. SumOver(w, d) = SumOver(f, Nodes)
  BY <1>3, <1>6, <1>7, <1>8, DiagonalSum
<1>10. d \in SUBSET All /\ All \in SUBSET All /\ \A p \in All \ d : w[p] = 0
  BY <1>5, <1>8 DEF All, Diagonal
<1>11. SumOver(w, All) = SumOver(w, d)
  BY <1>6, <1>10, AllFinite, SumZero
<1>12. ASSUME NEW a \in Assignments, NEW p \in All, CostsOf(c, ed, a)[p] < Inf
       PROVE  CostsOf(c, ed, a)[p] <= w[p]
  <2>1. PICK n \in Nodes, m \in Nodes : p = <<n, m>>
    BY DEF All
  <2>2. a[n] \in Domain[n] /\ a[m] \in Domain[m]
    BY AssignmentFacts
  <2>3. CASE n = m
    <3>1. CostsOf(c, ed, a)[p] = c[n][a[n]]
      BY <2>1, <2>3, NodeTerm
    <3>2. c[n][a[n]] <= Dearest(c[n])
      BY <1>2, <1>12, <2>2, <3>1, DearestFacts
    <3> QED BY <1>3, <1>7, <2>1, <2>3, <3>1, <3>2
  <2>4. CASE n # m /\ p \in DOMAIN ed
    <3>1. CostsOf(c, ed, a)[p] = ed[p][<<a[n], a[m]>>]
      BY <2>1, <2>4 DEF CostsOf
    <3>2. ed[p][<<a[n], a[m]>>] <= 0
      BY <1>12, <2>1, <2>2, <2>4, <3>1
    <3>3. w[p] = 0
      BY <1>5, <2>1, <2>4
    <3> QED BY <3>1, <3>2, <3>3
  <2>5. CASE n # m /\ p \notin DOMAIN ed
    <3>1. CostsOf(c, ed, a)[p] = 0
      BY <2>1, <2>5, NoTerm
    <3>2. w[p] = 0
      BY <1>5, <2>1, <2>5
    <3> QED BY <3>1, <3>2
  <2> QED BY <2>3, <2>4, <2>5
<1>13. Fits(Costing(c, ed), All, w)
  BY <1>4, <1>6, <1>9, <1>11, <1>12 DEF Fits, Costing
<1> QED BY <1>13

\* Nothing has been reduced yet.
LEMMA ExactInit == Init => ExactInv
<1> SUFFICES ASSUME Init PROVE ExactInv
  OBVIOUS
<1> DEFINE Present(kind) == {p \in Pairs : kind[p] # "none"}
           Graph(kind, c) ==
             [edges |-> [p \in Present(kind) |-> Matrix(p, kind[p])], cost |-> c, kind |-> kind]
<1>1. PICK kind \in EdgeKinds, c \in NodeCosts : given = Graph(kind, c) /\ cost = c
  BY Zenon DEF Init
<1>2. PICK present, ed :
        /\ present = {p \in Pairs : kind[p] # "none"}
        /\ ed = [p \in present |-> Matrix(p, kind[p])]
  OBVIOUS
<1>3. given.cost = c /\ given.edges = ed
  BY <1>1, <1>2
<1>4. edges = ed /\ cost = c /\ stack = <<>> /\ phase = "reduce"
  BY <1>1, <1>3 DEF Init
<1>5. Typed(c, ed)
  <2>1. DOMAIN c = Nodes /\ \A n \in Nodes : c[n] \in [Domain[n] -> Int]
    BY CostAssumption
  <2>2. \A p \in DOMAIN ed : p \in Pairs /\ ed[p] \in Table(p)
    BY <1>2, MatrixTable
  <2> QED BY <2>1, <2>2 DEF Typed
<1>6. ASSUME NEW p \in DOMAIN ed, NEW r \in Domain[p[1]] \X Domain[p[2]], ed[p][r] < Inf
      PROVE  ed[p][r] <= 0
  <2>1. p \in Pairs /\ ed[p] = Matrix(p, kind[p])
    BY <1>2
  <2> QED BY <1>6, <2>1, MatrixFits
<1>7. \E w : Fits(Costing(c, ed), All, w)
  BY <1>5, <1>6, GivenFits
<1>8. Original = Costing(c, ed) /\ Now = Original /\ Left = Nodes /\ Square(Left) = All
  BY <1>3, <1>4 DEF Original, Now, Left, NodesOf, Square, All
<1>9. Above(stack)
  BY <1>4 DEF Above
<1>10. PICK O : O = Original
  OBVIOUS
<1>11. Reduced(O, O, Nodes, stack, cost)
  <2>1. Square(Nodes) = All
    BY DEF Square, All
  <2>2. \A a \in Assignments : NoDearer(O[a], All, O[a], All)
    <3> SUFFICES ASSUME NEW a \in Assignments PROVE NoDearer(O[a], All, O[a], All)
      OBVIOUS
    <3>1. O[a] \in [All -> Int]
      BY <1>5, <1>8, <1>10, CostingTyped DEF Costings
    <3>2. All \in SUBSET All
      OBVIOUS
    <3>3. SumOver(O[a], All) \in Int
      BY <3>1, <3>2, AllFinite, SumInt
    <3> QED BY <3>3 DEF NoDearer
  <2> QED BY <1>7, <1>8, <1>10, <2>1, <2>2 DEF Reduced
<1> QED BY <1>3, <1>4, <1>5, <1>7, <1>8, <1>9, <1>10, <1>11 DEF ExactInv

\* Every step keeps the reduced graph as cheap as the original.
LEMMA ExactStepKeeps == IInv /\ ExactInv /\ [Next]_vars => ExactInv'
<1> SUFFICES ASSUME IInv, ExactInv, [Next]_vars PROVE ExactInv'
  OBVIOUS
<1>0. IInv'
  BY StepKeeps
<1>1. ASSUME NEW n \in Nodes, R1Reduction(n) PROVE ExactInv'
  BY <1>0, <1>1, ExactR1
<1>2. ASSUME NEW n \in Nodes, R2Reduction(n) PROVE ExactInv'
  BY <1>0, <1>2, ExactR2
<1>3. CASE SkipNode \/ Rescan
  BY <1>3, ExactScan DEF SkipNode, Rescan
<1>4. ASSUME NEW n \in Nodes, RMReduction(n) PROVE ExactInv'
  BY <1>4, ExactRM
<1>5. CASE EndReduction
  BY <1>5, ExactEnd
<1>6. CASE Colour
  BY <1>6, ExactColour
<1>7. CASE StartCoalescing \/ Coalesce \/ Finish
  <2>1. UNCHANGED <<given, graph, exact, stack>> /\ phase' \notin {"reduce", "colour"}
    BY <1>7 DEF StartCoalescing, Coalesce, Finish
  <2> QED BY <2>1, ExactScan
<1>8. CASE Done \/ UNCHANGED vars
  <2>1. UNCHANGED <<given, graph, exact, stack>> /\ phase' = phase /\ assign' = assign
    BY <1>8 DEF Done, vars
  <2> QED BY <2>1, ExactScan
<1> QED BY <1>1, <1>2, <1>3, <1>4, <1>5, <1>6, <1>7, <1>8 DEF Next

\* The total cost is the sum of all terms, if they are finite.
LEMMA TotalIsSum ==
  ASSUME Typed(given.cost, given.edges), NEW w, Fits(Original, All, w), NEW a \in Assignments
  PROVE  /\ TotalCost(a) = StarCost(Original[a], All)
         /\ Feasible(Original[a], All) => SumOver(Original[a], All) < Inf
<1>1. PICK f, d, E : f = Original[a] /\ d = Diagonal(Nodes) /\ E = DOMAIN given.edges
  OBVIOUS
<1>2. f \in [All -> Int] /\ f = CostsOf(given.cost, given.edges, a)
  BY <1>1, CostingTyped DEF Original, Costing, Costings
<1>3. w \in [All -> Nat] /\ w \in [All -> Int] /\ SumOver(w, All) < Limit
  BY DEF Fits
<1>4. All \in SUBSET All /\ d \in SUBSET All /\ E \in SUBSET All /\ d \cap E = {}
  <2>1. E \subseteq Pairs
    BY <1>1 DEF Typed
  <2>2. \A p \in E : p \in All /\ p[1] # p[2]
    BY <2>1, PairInAll
  <2> QED BY <1>1, <2>2 DEF Diagonal, All
<1>5. IsFiniteSet(E)
  BY <1>4, AllFinite, FS_Subset
<1>6. SumOver(w, d) \in Nat /\ SumOver(w, d) < Inf /\ SumOver(w, E) \in Nat /\ SumOver(w, E) < Inf
  <2>1. /\ SumOver(w, d) \in Nat /\ SumOver(w, d) <= SumOver(w, All)
        /\ SumOver(w, E) \in Nat /\ SumOver(w, E) <= SumOver(w, All)
        /\ SumOver(w, All) \in Nat
    BY <1>3, <1>4, AllFinite, SumNat
  <2> QED BY <1>3, <2>1, AllFinite
<1>7. \A p \in All : f[p] < Inf => f[p] <= w[p]
  BY <1>1 DEF Fits
<1>8. PICK c, v : c = [n \in Nodes |-> f[<<n, n>>]] /\ v = [n \in Nodes |-> w[<<n, n>>]]
  OBVIOUS
<1>9. /\ c \in [Nodes -> Int] /\ v \in [Nodes -> Nat] /\ v \in [Nodes -> Int]
      /\ \A n \in Nodes : f[<<n, n>>] = c[n] /\ w[<<n, n>>] = v[n]
  BY <1>2, <1>3, <1>8 DEF All
<1>10. SumOver(c, Nodes) = SumOver(f, d) /\ SumOver(v, Nodes) = SumOver(w, d)
  BY <1>1, <1>2, <1>3, <1>9, DiagonalSum
<1>11. FoldSet(LAMBDA n, acc : Add(given.cost[n][a[n]], acc), 0, Nodes) = AddSum(c, Nodes)
  <2>1. ASSUME NEW n \in Nodes PROVE c[n] = given.cost[n][a[n]]
    <3>1. CostsOf(given.cost, given.edges, a)[<<n, n>>] = given.cost[n][a[n]]
      BY NodeTerm
    <3> QED BY <1>2, <1>9, <3>1
  <2> QED BY <1>9, <2>1, NodesPaidIsSum
<1>12. /\ Feasible(f, d) => AddSum(c, Nodes) = SumOver(f, d)
       /\ ~Feasible(f, d) => AddSum(c, Nodes) = Inf
  <2>1. SumOver(v, Nodes) < Inf /\ \A n \in Nodes : c[n] < Inf => c[n] <= v[n]
    BY <1>6, <1>7, <1>9, <1>10 DEF All
  <2>2. /\ (\A n \in Nodes : c[n] < Inf) => AddSum(c, Nodes) = SumOver(c, Nodes)
        /\ (\E n \in Nodes : c[n] >= Inf) => AddSum(c, Nodes) = Inf
    BY <1>9, <2>1, NodesAssumption, AddSumValue
  <2>3. Feasible(f, d) <=> \A n \in Nodes : c[n] < Inf
    BY <1>1, <1>9 DEF Feasible, Diagonal
  <2>4. ~(\A n \in Nodes : c[n] < Inf) => \E n \in Nodes : c[n] >= Inf
    BY <1>9, AllFinite
  <2> QED BY <1>10, <2>2, <2>3, <2>4
<1>13. PICK e, x : e = [p \in E |-> f[p]] /\ x = [p \in E |-> w[p]]
  OBVIOUS
<1>14. /\ e \in [E -> Int] /\ x \in [E -> Nat] /\ x \in [E -> Int]
       /\ \A p \in E : e[p] = f[p] /\ x[p] = w[p]
  BY <1>2, <1>3, <1>4, <1>13
<1>15. SumOver(e, E) = SumOver(f, E) /\ SumOver(x, E) = SumOver(w, E)
  <2>1. E \in SUBSET (E \cap All)
    BY <1>4
  <2> QED BY <1>2, <1>3, <1>5, <1>14, <2>1, AllFinite, SumAgree
<1>16. FoldSet(LAMBDA p, acc : Add(given.edges[p][<<a[p[1]], a[p[2]]>>], acc),
               0, DOMAIN given.edges) = AddSum(e, E)
  <2>1. ASSUME NEW p \in DOMAIN given.edges PROVE e[p] = given.edges[p][<<a[p[1]], a[p[2]]>>]
    <3>1. p \in All /\ p[1] # p[2]
      BY PairInAll DEF Typed
    <3> QED BY <1>1, <1>2, <1>14, <3>1 DEF CostsOf
  <2> QED BY <1>1, <1>5, <1>14, <2>1, EdgesCostIsSum
<1>17. /\ Feasible(f, E) => AddSum(e, E) = SumOver(f, E)
       /\ ~Feasible(f, E) => AddSum(e, E) = Inf
  <2>1. SumOver(x, E) < Inf /\ \A p \in E : e[p] < Inf => e[p] <= x[p]
    BY <1>4, <1>6, <1>7, <1>14, <1>15
  <2>2. /\ (\A p \in E : e[p] < Inf) => AddSum(e, E) = SumOver(e, E)
        /\ (\E p \in E : e[p] >= Inf) => AddSum(e, E) = Inf
    BY <1>5, <1>14, <2>1, AddSumValue
  <2>3. Feasible(f, E) <=> \A p \in E : e[p] < Inf
    BY <1>14 DEF Feasible
  <2>4. ~(\A p \in E : e[p] < Inf) => \E p \in E : e[p] >= Inf
    BY <1>14, AllFinite
  <2> QED BY <1>15, <2>2, <2>3, <2>4
<1>18. TotalCost(a) = Add(AddSum(c, Nodes), AddSum(e, E))
  BY <1>11, <1>16, Zenon DEF TotalCost
<1>19. ASSUME NEW s \in SUBSET All, Feasible(f, s)
       PROVE  SumOver(f, s) \in Int /\ SumOver(f, s) <= SumOver(w, s)
  <2>1. \A p \in s : f[p] <= w[p]
    BY <1>7, <1>19 DEF Feasible
  <2> QED BY <1>2, <1>3, <2>1, AllFinite, SumInt, SumMonotone
<1>20. SumOver(f, All) = SumOver(f, d) + SumOver(f, E)
  <2>1. SumOver(f, d \cup E) = SumOver(f, d) + SumOver(f, E)
    BY <1>2, <1>4, AllFinite, SumDisjoint
  <2>2. PICK s : s = d \cup E
    OBVIOUS
  <2>3. ASSUME NEW p \in All \ s PROVE f[p] = 0
    <3>1. p[1] # p[2]
      BY <1>1, <2>2 DEF All, Diagonal
    <3> QED BY <1>1, <1>2, <2>2, <3>1, NoTerm
  <2>4. s \in SUBSET All
    BY <1>4, <2>2
  <2>5. SumOver(f, All) = SumOver(f, s)
    BY <1>2, <1>4, <2>3, <2>4, AllFinite, SumZero
  <2> QED BY <2>1, <2>2, <2>5
<1>21. Feasible(f, All) <=> Feasible(f, d) /\ Feasible(f, E)
  <2>1. ASSUME Feasible(f, d), Feasible(f, E) PROVE Feasible(f, All)
    <3> SUFFICES ASSUME NEW p \in All PROVE f[p] < Inf
      BY DEF Feasible
    <3>1. CASE p \in d \cup E
      BY <2>1, <3>1 DEF Feasible
    <3>2. CASE p \notin d \cup E
      <4>1. p[1] # p[2]
        BY <1>1, <3>2 DEF All, Diagonal
      <4>2. f[p] = 0
        BY <1>1, <1>2, <3>2, <4>1, NoTerm
      <4> QED BY <4>2, FitsRoom
    <3> QED BY <3>1, <3>2
  <2> QED BY <1>4, <2>1 DEF Feasible
<1>22. TotalCost(a) = StarCost(f, All)
  <2>1. CASE Feasible(f, d) /\ Feasible(f, E)
    <3>1. /\ SumOver(f, d) \in Int /\ SumOver(f, d) < Inf
          /\ SumOver(f, E) \in Int /\ SumOver(f, E) < Inf
      <4>1. /\ SumOver(f, d) \in Int /\ SumOver(f, d) <= SumOver(w, d)
            /\ SumOver(f, E) \in Int /\ SumOver(f, E) <= SumOver(w, E)
        BY <1>4, <1>19, <2>1
      <4> QED BY <1>6, <4>1, AllFinite
    <3>2. TotalCost(a) = SumOver(f, d) + SumOver(f, E)
      BY <1>12, <1>17, <1>18, <2>1, <3>1, AllFinite DEF Add
    <3> QED BY <1>20, <1>21, <2>1, <3>2 DEF StarCost
  <2>2. CASE ~(Feasible(f, d) /\ Feasible(f, E))
    <3>1. AddSum(c, Nodes) = Inf \/ AddSum(e, E) = Inf
      BY <1>12, <1>17, <2>2
    <3>2. TotalCost(a) = Inf
      BY <1>18, <3>1, AllFinite DEF Add
    <3> QED BY <1>21, <2>2, <3>2 DEF StarCost
  <2> QED BY <2>1, <2>2
<1>23. ASSUME Feasible(f, All) PROVE SumOver(f, All) < Inf
  <2>1. SumOver(f, All) \in Int /\ SumOver(f, All) <= SumOver(w, All)
    BY <1>4, <1>19, <1>23
  <2>2. SumOver(w, All) \in Nat
    BY <1>3, <1>4, AllFinite, SumNat
  <2> QED BY <1>3, <2>1, <2>2, AllFinite
<1> QED BY <1>1, <1>22, <1>23

\* A graph that only R1 and R2 took apart is coloured at the least cost that any
\* assignment of registers to its nodes has: folding the costs of a node into its
\* neighbours and back-propagating (actually_allocate) lose nothing.
THEOREM ExactReductionsAreOptimal == Spec => []ExactIsOptimal
<1>1. ASSUME IInv, ExactInv PROVE ExactIsOptimal
  <2> SUFFICES ASSUME phase = "colour", stack = <<>>, exact, NEW b \in Assignments
               PROVE  TotalCost(assign) <= TotalCost(b)
    BY DEF ExactIsOptimal
  <2>1. PICK w : Typed(given.cost, given.edges) /\ Fits(Original, All, w)
    BY <1>1 DEF ExactInv
  <2>2. assign \in Assignments
    BY <1>1 DEF IInv, AssignInv, Assignments
  <2>3. Greedy(cost, stack, assign)
    BY DEF Greedy
  <2>4. Settled(Original, Left, stack, cost, assign)
    BY <1>1 DEF ExactInv
  <2>5. NoDearer(Original[assign], All, Original[b], All)
    BY <2>2, <2>3, <2>4 DEF Settled, Optimal
  <2>6. PICK f, g : f = Original[assign] /\ g = Original[b]
    OBVIOUS
  <2>7. f \in [All -> Int] /\ g \in [All -> Int]
    BY <2>1, <2>2, <2>6, CostingTyped DEF Original, Costings
  <2>8. /\ TotalCost(assign) = StarCost(f, All) /\ TotalCost(b) = StarCost(g, All)
        /\ Feasible(f, All) => SumOver(f, All) < Inf
    BY <2>1, <2>2, <2>6, TotalIsSum
  <2>9. All \in SUBSET All
    OBVIOUS
  <2>10. SumOver(f, All) \in Int /\ SumOver(g, All) \in Int
    BY <2>7, <2>9, AllFinite, SumInt
  <2> QED BY <2>5, <2>6, <2>8, <2>10, AllFinite DEF NoDearer, StarCost
<1>2. Init => IInv /\ ExactInv
  BY InitHolds, ExactInit
<1>3. IInv /\ ExactInv /\ [Next]_vars => IInv' /\ ExactInv'
  BY StepKeeps, ExactStepKeeps
<1> QED BY <1>1, <1>2, <1>3, PTL DEF Spec
=============================================================================
