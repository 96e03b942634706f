---------------------------- MODULE SumTheorems -----------------------------
(***************************************************************************)
(* Sums over finite sets, as the folds of the community modules compute    *)
(* them: a function of subsets that takes one element out at a time.  The  *)
(* provers cannot instantiate the induction theorems of the library, so    *)
(* every induction here is a minimal counterexample.                       *)
(***************************************************************************)
EXTENDS Integers, FiniteSets, FiniteSetsExt, FiniteSetTheorems, WellFoundedInduction, TLAPS

NatLess == {p \in Nat \X Nat : p[1] < p[2]}

\* Every nonempty set of naturals has a least element.
LEMMA LeastNatural ==
    ASSUME NEW N, N \subseteq Nat, N # {}
    PROVE  \E m \in N : \A n \in N : m <= n
<1>1. IsWellFoundedOn(NatLess, Nat)
    BY ONLY NatLessThanWellFounded, Zenon DEF OpToRel, NatLess
<1>2. PICK m \in N : \A n \in N : <<n, m>> \notin NatLess
    BY <1>1, WFMin
<1>3. \A n \in N : ~(n < m)
    BY <1>2 DEF NatLess
<1> QED BY <1>3

\* A nonempty set of naturals that has a bound has a maximum.
LEMMA MaxInSet ==
    ASSUME NEW n \in Nat, NEW T \in SUBSET (1..n), T # {}
    PROVE  Max(T) \in T /\ \A x \in T : x <= Max(T)
<1> DEFINE N == {n - x : x \in T}
<1>1. N \subseteq Nat /\ N # {}
  <2>1. \A x \in T : n - x \in Nat
    OBVIOUS
  <2> QED BY <2>1
<1>2. PICK m \in N : \A k \in N : m <= k
    BY <1>1, LeastNatural
<1>3. PICK x \in T : m = n - x
    BY <1>2
<1>4. \A y \in T : n - y \in N
    OBVIOUS
<1>5. \A y \in T : x >= y
    BY <1>2, <1>3, <1>4
<1>6. \E z \in T : \A y \in T : z >= y
    BY <1>5
<1>7. Max(T) \in T /\ \A y \in T : Max(T) >= y
    BY <1>6 DEF Max
<1> QED BY <1>7

\* A set of bad subsets of a finite set has a member of least cardinality: all
\* that it contains properly is good.
LEMMA SmallestSubset ==
    ASSUME NEW S, IsFiniteSet(S), NEW Bad, Bad \subseteq SUBSET S, Bad # {}
    PROVE  \E T \in Bad : \A x \in T : T \ {x} \notin Bad
<1> DEFINE N == {Cardinality(T) : T \in Bad}
<1>1. \A T \in Bad : IsFiniteSet(T) /\ Cardinality(T) \in Nat
    BY FS_Subset, FS_CardinalityType
<1>2. N \subseteq Nat /\ N # {}
    BY <1>1
<1>3. PICK m \in N : \A n \in N : m <= n
    BY <1>2, LeastNatural
<1>4. PICK T \in Bad : Cardinality(T) = m
    BY <1>3
<1>5. ASSUME NEW x \in T, T \ {x} \in Bad PROVE FALSE
  <2>1. Cardinality(T \ {x}) = Cardinality(T) - 1
    BY <1>1, <1>4, FS_RemoveElement
  <2>2. m <= Cardinality(T \ {x})
    BY <1>3, <1>5
  <2> QED BY <1>1, <1>4, <2>1, <2>2
<1> QED BY <1>4, <1>5

-----------------------------------------------------------------------------
\* pick takes an element out of every nonempty subset of S.
Picks(pick, S) == \A T \in SUBSET S : T # {} => pick[T] \in T

\* sum adds up h over the subsets of S, an element at a time.
SumOf(sum, S, pick, h) ==
    [T \in SUBSET S |-> IF T = {} THEN 0 ELSE h[pick[T]] + sum[T \ {pick[T]}]]

\* What SumOf says of the subset T.
SumAt(sum, T, pick, h) == sum[T] = IF T = {} THEN 0 ELSE h[pick[T]] + sum[T \ {pick[T]}]

IsSum(sum, S, pick, h) == sum = SumOf(sum, S, pick, h)

\* The sum of the subsets that have at most n elements exists, for each n.
LEMMA SumUpTo ==
    ASSUME NEW S, IsFiniteSet(S), NEW pick, Picks(pick, S), NEW h, NEW n \in Nat
    PROVE  \E sum : \A T \in SUBSET S : Cardinality(T) <= n => SumAt(sum, T, pick, h)
<1> DEFINE UpTo(sum, k) == \A T \in SUBSET S : Cardinality(T) <= k => SumAt(sum, T, pick, h)
           Bad == {k \in Nat : ~\E sum : UpTo(sum, k)}
<1>1. \A T \in SUBSET S : IsFiniteSet(T) /\ Cardinality(T) \in Nat
    BY FS_Subset, FS_CardinalityType
<1>2. 0 \notin Bad
  <2>1. \A T \in SUBSET S : Cardinality(T) <= 0 => T = {}
    BY <1>1, FS_EmptySet
  <2>2. UpTo([T \in SUBSET S |-> 0], 0)
    BY <2>1 DEF SumAt
  <2> QED BY <2>2
<1>3. ASSUME NEW k \in Nat, k \notin Bad PROVE k + 1 \notin Bad
  <2>1. PICK sum : UpTo(sum, k)
    BY <1>3
  <2> DEFINE more == [T \in SUBSET S |-> IF Cardinality(T) <= k THEN sum[T]
                        ELSE IF T = {} THEN 0 ELSE h[pick[T]] + sum[T \ {pick[T]}]]
  <2>2. ASSUME NEW T \in SUBSET S, Cardinality(T) <= k + 1
        PROVE  more[T] = IF T = {} THEN 0 ELSE h[pick[T]] + more[T \ {pick[T]}]
    <3>1. more[T] = IF T = {} THEN 0 ELSE h[pick[T]] + sum[T \ {pick[T]}]
      BY <2>1 DEF SumAt
    <3>2. CASE T = {}
      BY <3>1, <3>2
    <3>3. CASE T # {}
      <4>1. pick[T] \in T /\ T \ {pick[T]} \in SUBSET S
        BY <3>3 DEF Picks
      <4>2. Cardinality(T \ {pick[T]}) = Cardinality(T) - 1
        BY <1>1, <4>1, FS_RemoveElement
      <4>3. Cardinality(T \ {pick[T]}) <= k
        BY <1>1, <2>2, <4>2
      <4>4. more[T \ {pick[T]}] = sum[T \ {pick[T]}]
        BY <4>1, <4>3
      <4> QED BY <3>1, <3>3, <4>4
    <3> QED BY <3>2, <3>3
  <2>3. UpTo(more, k + 1)
    BY <2>2 DEF SumAt
  <2> QED BY <2>3
<1>4. Bad = {}
  <2>1. SUFFICES ASSUME Bad # {} PROVE FALSE
    OBVIOUS
  <2>2. PICK m \in Bad : \A k \in Bad : m <= k
    BY <2>1, LeastNatural
  <2>3. m # 0 /\ m \in Nat
    BY <1>2, <2>2
  <2> HIDE DEF Bad
  <2>4. m - 1 \in Nat /\ m - 1 \notin Bad
    BY <2>2, <2>3
  <2>5. (m - 1) + 1 \notin Bad
    BY <1>3, <2>4
  <2> QED BY <2>2, <2>3, <2>5
<1> QED BY <1>4

\* A sum exists, whatever order the elements are taken out in.
LEMMA SumExists ==
    ASSUME NEW S, IsFiniteSet(S), NEW pick, Picks(pick, S), NEW h
    PROVE  \E sum : IsSum(sum, S, pick, h)
<1>1. Cardinality(S) \in Nat /\ \A T \in SUBSET S : Cardinality(T) <= Cardinality(S)
    BY FS_Subset, FS_CardinalityType
<1>2. PICK part : \A T \in SUBSET S : Cardinality(T) <= Cardinality(S) => SumAt(part, T, pick, h)
    BY <1>1, SumUpTo
<1> DEFINE sum == [T \in SUBSET S |-> part[T]]
<1>3. ASSUME NEW T \in SUBSET S
      PROVE  sum[T] = IF T = {} THEN 0 ELSE h[pick[T]] + sum[T \ {pick[T]}]
  <2>1. SumAt(part, T, pick, h)
    BY <1>1, <1>2
  <2>2. sum[T] = part[T] /\ sum[T \ {pick[T]}] = part[T \ {pick[T]}]
    OBVIOUS
  <2> QED BY <2>1, <2>2 DEF SumAt
<1>4. IsSum(sum, S, pick, h)
    BY <1>3 DEF IsSum, SumOf
<1> QED BY <1>4

\* The equation of a sum, at one subset.
LEMMA SumStep ==
    ASSUME NEW S, NEW pick, NEW h, NEW sum, IsSum(sum, S, pick, h), NEW T \in SUBSET S
    PROVE  SumAt(sum, T, pick, h)
BY DEF IsSum, SumOf, SumAt

\* A sum of integers is an integer.
LEMMA SumType ==
    ASSUME NEW S, IsFiniteSet(S), NEW pick, Picks(pick, S), NEW h,
           \A x \in S : h[x] \in Int, NEW sum, IsSum(sum, S, pick, h), NEW R \in SUBSET S
    PROVE  sum[R] \in Int
<1> DEFINE Bad == {T \in SUBSET S : sum[T] \notin Int}
<1>1. SUFFICES ASSUME Bad # {} PROVE FALSE
    OBVIOUS
<1>2. PICK T \in Bad : \A x \in T : T \ {x} \notin Bad
    BY <1>1, SmallestSubset
<1>3. T \in SUBSET S /\ sum[T] = IF T = {} THEN 0 ELSE h[pick[T]] + sum[T \ {pick[T]}]
  <2>1. T \in SUBSET S
    OBVIOUS
  <2> HIDE DEF Bad
  <2>2. SumAt(sum, T, pick, h)
    BY <2>1, SumStep
  <2> QED BY <2>1, <2>2 DEF SumAt
<1>4. T # {}
    BY <1>3
<1>5. pick[T] \in T /\ T \ {pick[T]} \in SUBSET S
    BY <1>4 DEF Picks
<1>6. sum[T \ {pick[T]}] \in Int
    BY <1>2, <1>5
<1> QED BY <1>3, <1>4, <1>5, <1>6

\* A sum of naturals is a natural.
LEMMA SumNat ==
    ASSUME NEW S, IsFiniteSet(S), NEW pick, Picks(pick, S), NEW h,
           \A x \in S : h[x] \in Nat, NEW sum, IsSum(sum, S, pick, h), NEW R \in SUBSET S
    PROVE  sum[R] \in Nat
<1> DEFINE Bad == {T \in SUBSET S : sum[T] \notin Nat}
<1>1. SUFFICES ASSUME Bad # {} PROVE FALSE
    OBVIOUS
<1>2. PICK T \in Bad : \A x \in T : T \ {x} \notin Bad
    BY <1>1, SmallestSubset
<1>3. T \in SUBSET S /\ sum[T] = IF T = {} THEN 0 ELSE h[pick[T]] + sum[T \ {pick[T]}]
  <2>1. T \in SUBSET S
    OBVIOUS
  <2> HIDE DEF Bad
  <2>2. SumAt(sum, T, pick, h)
    BY <2>1, SumStep
  <2> QED BY <2>1, <2>2 DEF SumAt
<1>4. T # {}
    BY <1>3
<1>5. pick[T] \in T /\ T \ {pick[T]} \in SUBSET S
    BY <1>4 DEF Picks
<1>6. sum[T \ {pick[T]}] \in Nat
    BY <1>2, <1>5
<1> QED BY <1>3, <1>4, <1>5, <1>6

\* g and h are summands that differ at x alone.
DifferAt(g, h, x, S) == \A y \in S : g[y] \in Int /\ h[y] \in Int /\ (y # x => g[y] = h[y])

\* Sums whose summands differ at x alone differ by the difference there, and not
\* at all where x is absent.
LEMMA SumChange ==
    ASSUME NEW S, IsFiniteSet(S), NEW pick, Picks(pick, S), NEW g, NEW h, NEW x,
           DifferAt(g, h, x, S),
           NEW sg, IsSum(sg, S, pick, g), NEW sh, IsSum(sh, S, pick, h), NEW R \in SUBSET S
    PROVE  /\ x \in R => sh[R] = sg[R] + (h[x] - g[x])
           /\ x \notin R => sh[R] = sg[R]
<1> DEFINE Bad == {T \in SUBSET S : sh[T] # IF x \in T THEN sg[T] + (h[x] - g[x]) ELSE sg[T]}
<1>1. SUFFICES ASSUME Bad # {} PROVE FALSE
    OBVIOUS
<1>2. PICK T \in Bad : \A y \in T : T \ {y} \notin Bad
    BY <1>1, SmallestSubset
<1> DEFINE p == pick[T]
           U == T \ {p}
<1>3. /\ sg[T] = IF T = {} THEN 0 ELSE g[p] + sg[U]
      /\ sh[T] = IF T = {} THEN 0 ELSE h[p] + sh[U]
      /\ T \in SUBSET S
  <2>1. T \in SUBSET S
    OBVIOUS
  <2> HIDE DEF Bad
  <2>2. SumAt(sg, T, pick, g) /\ SumAt(sh, T, pick, h)
    BY <2>1, SumStep
  <2> QED BY <2>1, <2>2 DEF SumAt
<1>4. T # {}
    BY <1>3
<1>5. p \in T /\ p \in S /\ U \in SUBSET S
    BY <1>4 DEF Picks
<1>6. sh[U] = IF x \in U THEN sg[U] + (h[x] - g[x]) ELSE sg[U]
    BY <1>2, <1>5
<1>7. sg[U] \in Int /\ g[p] \in Int /\ h[p] \in Int
  <2>1. \A y \in S : g[y] \in Int /\ h[y] \in Int
    BY DEF DifferAt
  <2> HIDE DEF U, p
  <2> QED BY <1>5, <2>1, SumType
<1>8. sg[T] = g[p] + sg[U] /\ sh[T] = h[p] + sh[U]
    BY <1>3, <1>4
<1>9. sh[T] # IF x \in T THEN sg[T] + (h[x] - g[x]) ELSE sg[T]
    BY <1>2
<1> HIDE DEF Bad, p, U
<1>10. CASE p = x
  <2>1. x \in T /\ x \notin U
    BY <1>5, <1>10 DEF U
  <2>2. sh[T] = h[x] + sg[U] /\ sg[T] = g[x] + sg[U]
    BY <1>6, <1>8, <1>10, <2>1
  <2> QED BY <1>7, <1>9, <1>10, <2>1, <2>2
<1>11. CASE p # x
  <2>1. g[p] = h[p] /\ (x \in T <=> x \in U)
    BY <1>5, <1>11 DEF U, DifferAt
  <2>2. CASE x \in T
    <3>1. g[x] \in Int /\ h[x] \in Int
      BY <1>3, <2>2 DEF DifferAt
    <3>2. sh[T] = g[p] + (sg[U] + (h[x] - g[x]))
      BY <1>6, <1>8, <2>1, <2>2
    <3> QED BY <1>7, <1>8, <1>9, <2>2, <3>1, <3>2
  <2>3. CASE x \notin T
    BY <1>6, <1>8, <1>9, <2>1, <2>3
  <2> QED BY <2>2, <2>3
<1> QED BY <1>10, <1>11

\* Sums over a set and over a larger one agree on the smaller set's subsets when
\* their summands do and the same elements are taken out.
LEMMA SumExtends ==
    ASSUME NEW S, IsFiniteSet(S), NEW pick, Picks(pick, S), NEW h, NEW sum,
           IsSum(sum, S, pick, h),
           NEW S2, S \subseteq S2, NEW pick2, NEW h2, NEW sum2, IsSum(sum2, S2, pick2, h2),
           \A T \in SUBSET S : pick2[T] = pick[T],
           \A y \in S : h2[y] = h[y], NEW R \in SUBSET S
    PROVE  sum2[R] = sum[R]
<1> DEFINE Bad == {T \in SUBSET S : sum2[T] # sum[T]}
<1>1. SUFFICES ASSUME Bad # {} PROVE FALSE
    OBVIOUS
<1>2. PICK T \in Bad : \A y \in T : T \ {y} \notin Bad
    BY <1>1, SmallestSubset
<1>3. T \in SUBSET S /\ sum[T] = IF T = {} THEN 0 ELSE h[pick[T]] + sum[T \ {pick[T]}]
  <2>1. T \in SUBSET S
    OBVIOUS
  <2> HIDE DEF Bad
  <2>2. SumAt(sum, T, pick, h)
    BY <2>1, SumStep
  <2> QED BY <2>1, <2>2 DEF SumAt
<1>4. sum2[T] = IF T = {} THEN 0 ELSE h2[pick2[T]] + sum2[T \ {pick2[T]}]
  <2>1. T \in SUBSET S2
    OBVIOUS
  <2>2. SumAt(sum2, T, pick2, h2)
    BY <2>1, SumStep
  <2> QED BY <2>2 DEF SumAt
<1>5. T # {}
    BY <1>3, <1>4
<1>6. pick[T] \in T /\ T \ {pick[T]} \in SUBSET S /\ pick2[T] = pick[T]
    BY <1>5 DEF Picks
<1>7. sum2[T \ {pick[T]}] = sum[T \ {pick[T]}]
    BY <1>2, <1>6
<1>8. h2[pick[T]] = h[pick[T]]
    BY <1>6
<1> QED BY <1>2, <1>3, <1>4, <1>5, <1>6, <1>7, <1>8

-----------------------------------------------------------------------------
(* Totals, whatever order the elements are taken in *)

\* A sum may take out any element first.
LEMMA SumRemove ==
    ASSUME NEW S, IsFiniteSet(S), NEW pick, Picks(pick, S), NEW h, \A x \in S : h[x] \in Int,
           NEW sum, IsSum(sum, S, pick, h), NEW R \in SUBSET S, NEW z \in R
    PROVE  sum[R] = h[z] + sum[R \ {z}]
<1> DEFINE Bad == {T \in SUBSET S : \E x \in T : sum[T] # h[x] + sum[T \ {x}]}
<1>1. SUFFICES ASSUME Bad # {} PROVE FALSE
    OBVIOUS
<1>2. PICK T \in Bad : \A x \in T : T \ {x} \notin Bad
    BY <1>1, SmallestSubset
<1>3. PICK x \in T : sum[T] # h[x] + sum[T \ {x}]
    OBVIOUS
<1>4. T \in SUBSET S /\ T # {}
    BY <1>3
<1> DEFINE p == pick[T]
<1>5. p \in T /\ p \in S /\ x \in S
    BY <1>4 DEF Picks
<1>6. sum[T] = h[p] + sum[T \ {p}]
  <2>1. SumAt(sum, T, pick, h)
    BY <1>4, SumStep
  <2> QED BY <1>4, <2>1 DEF SumAt
<1>7. p # x
    BY <1>3, <1>6
<1>8. sum[T \ {p}] = h[x] + sum[(T \ {p}) \ {x}]
    BY <1>2, <1>4, <1>5, <1>7
<1>9. sum[T \ {x}] = h[p] + sum[(T \ {x}) \ {p}]
    BY <1>2, <1>4, <1>5, <1>7
<1>10. (T \ {x}) \ {p} = (T \ {p}) \ {x}
    OBVIOUS
<1>11. (T \ {p}) \ {x} \in SUBSET S
    BY <1>4
<1>12. sum[(T \ {p}) \ {x}] \in Int
  <2> HIDE DEF Bad, p
  <2> QED BY <1>11, SumType
<1>13. h[p] \in Int /\ h[x] \in Int
    BY <1>5
<1> HIDE DEF Bad, p
<1> DEFINE w == sum[(T \ {p}) \ {x}]
<1>14. sum[T] = h[p] + (h[x] + w) /\ sum[T \ {x}] = h[p] + w /\ w \in Int
    BY <1>6, <1>8, <1>9, <1>10, <1>12
<1> HIDE DEF w
<1>15. h[x] + sum[T \ {x}] = h[p] + (h[x] + w)
    BY <1>13, <1>14
<1> QED BY <1>3, <1>14, <1>15

AnyOf(S) == [T \in SUBSET S |-> CHOOSE x \in T : TRUE]

\* t is what h adds up to over S.
IsTotal(t, S, h) == \E sum : IsSum(sum, S, AnyOf(S), h) /\ t = sum[S]

\* The choice of an element is one the sum lemmas accept.
LEMMA AnyOfPicks ==
    ASSUME NEW S
    PROVE  Picks(AnyOf(S), S)
<1>1. ASSUME NEW T \in SUBSET S, T # {} PROVE AnyOf(S)[T] \in T
    BY <1>1 DEF AnyOf
<1> QED BY <1>1 DEF Picks

\* There is a total.
LEMMA TotalExists ==
    ASSUME NEW S, IsFiniteSet(S), NEW h
    PROVE  \E t : IsTotal(t, S, h)
BY AnyOfPicks, SumExists DEF IsTotal

\* The total of naturals is a natural.
LEMMA TotalNat ==
    ASSUME NEW S, IsFiniteSet(S), NEW h, \A x \in S : h[x] \in Nat, NEW t, IsTotal(t, S, h)
    PROVE  t \in Nat
<1>1. PICK sum : IsSum(sum, S, AnyOf(S), h) /\ t = sum[S]
    BY DEF IsTotal
<1>2. S \in SUBSET S
    OBVIOUS
<1> QED BY <1>1, <1>2, AnyOfPicks, SumNat

\* Nothing adds up to nothing.
LEMMA TotalEmpty ==
    ASSUME NEW h, NEW t, IsTotal(t, {}, h)
    PROVE  t = 0
<1>1. PICK sum : IsSum(sum, {}, AnyOf({}), h) /\ t = sum[{}]
    BY DEF IsTotal
<1>2. SumAt(sum, {}, AnyOf({}), h)
    BY <1>1, SumStep
<1> QED BY <1>1, <1>2 DEF SumAt

\* Summands that agree on S add up to the same.
LEMMA TotalSame ==
    ASSUME NEW S, IsFiniteSet(S), NEW h, NEW g, \A x \in S : h[x] = g[x],
           NEW t, IsTotal(t, S, h), NEW u, IsTotal(u, S, g)
    PROVE  t = u
<1>1. PICK sum : IsSum(sum, S, AnyOf(S), h) /\ t = sum[S]
    BY DEF IsTotal
<1>2. PICK sum2 : IsSum(sum2, S, AnyOf(S), g) /\ u = sum2[S]
    BY DEF IsTotal
<1>3. S \in SUBSET S /\ S \subseteq S /\ \A T \in SUBSET S : AnyOf(S)[T] = AnyOf(S)[T]
    OBVIOUS
<1>4. sum[S] = sum2[S]
    BY <1>1, <1>2, <1>3, AnyOfPicks, SumExtends
<1> QED BY <1>1, <1>2, <1>4

\* One element more.
LEMMA TotalInsert ==
    ASSUME NEW S, IsFiniteSet(S), NEW x, x \notin S, NEW h, NEW g, \A y \in S : g[y] = h[y],
           \A y \in S \cup {x} : g[y] \in Int,
           NEW t, IsTotal(t, S, h), NEW u, IsTotal(u, S \cup {x}, g)
    PROVE  u = t + g[x]
<1> DEFINE S2 == S \cup {x}
<1>1. PICK sum : IsSum(sum, S, AnyOf(S), h) /\ t = sum[S]
    BY DEF IsTotal
<1>2. PICK sum2 : IsSum(sum2, S2, AnyOf(S2), g) /\ u = sum2[S2]
    BY DEF IsTotal
<1>3. IsFiniteSet(S2) /\ S \subseteq S2 /\ S2 \in SUBSET S2 /\ x \in S2 /\ S2 \ {x} = S
    BY FS_AddElement
<1>4. \A y \in S2 : g[y] \in Int
    OBVIOUS
<1> HIDE DEF S2
<1>5. sum2[S2] = g[x] + sum2[S2 \ {x}]
    BY <1>2, <1>3, <1>4, AnyOfPicks, SumRemove
<1>6. \A T \in SUBSET S : AnyOf(S2)[T] = AnyOf(S)[T]
    BY <1>3 DEF AnyOf
<1>7. sum2[S] = sum[S]
  <2>1. S \in SUBSET S
    OBVIOUS
  <2> QED BY <1>1, <1>2, <1>3, <1>6, <2>1, AnyOfPicks, SumExtends
<1>8. sum2[S] \in Int /\ g[x] \in Int
  <2>1. S \in SUBSET S2
    BY <1>3
  <2> QED BY <1>2, <1>3, <1>4, <2>1, AnyOfPicks, SumType
<1>9. u = g[x] + sum2[S] /\ t = sum2[S]
    BY <1>1, <1>2, <1>3, <1>5, <1>7
<1> QED BY <1>8, <1>9

\* Larger summands add up to more.
LEMMA TotalLess ==
    ASSUME NEW S, IsFiniteSet(S), NEW h, NEW g, \A x \in S : h[x] \in Int /\ g[x] \in Int /\ h[x] <= g[x],
           NEW t, IsTotal(t, S, h), NEW u, IsTotal(u, S, g)
    PROVE  t <= u
<1>1. PICK sum : IsSum(sum, S, AnyOf(S), h) /\ t = sum[S]
    BY DEF IsTotal
<1>2. PICK sum2 : IsSum(sum2, S, AnyOf(S), g) /\ u = sum2[S]
    BY DEF IsTotal
<1>3. \A x \in S : h[x] \in Int /\ g[x] \in Int
    OBVIOUS
<1>4. \A T \in SUBSET S : sum[T] \in Int /\ sum2[T] \in Int
    BY <1>1, <1>2, <1>3, AnyOfPicks, SumType
<1> DEFINE Bad == {T \in SUBSET S : ~(sum[T] <= sum2[T])}
<1>5. Bad = {}
  <2>1. SUFFICES ASSUME Bad # {} PROVE FALSE
    OBVIOUS
  <2>2. PICK T \in Bad : \A x \in T : T \ {x} \notin Bad
    BY <2>1, SmallestSubset
  <2>3. T \in SUBSET S /\ ~(sum[T] <= sum2[T])
    OBVIOUS
  <2>4. SumAt(sum, T, AnyOf(S), h) /\ SumAt(sum2, T, AnyOf(S), g)
    <3> HIDE DEF Bad
    <3> QED BY <1>1, <1>2, <2>3, SumStep
  <2>5. T # {}
    BY <2>3, <2>4 DEF SumAt
  <2> DEFINE p == AnyOf(S)[T]
  <2>6. p \in T /\ p \in S /\ T \ {p} \in SUBSET S
    BY <2>3, <2>5, AnyOfPicks DEF Picks
  <2>7. sum[T \ {p}] <= sum2[T \ {p}]
    BY <2>2, <2>6
  <2>8. sum[T] = h[p] + sum[T \ {p}] /\ sum2[T] = g[p] + sum2[T \ {p}]
    BY <2>4, <2>5 DEF SumAt
  <2>9. sum[T \ {p}] \in Int /\ sum2[T \ {p}] \in Int /\ h[p] \in Int /\ g[p] \in Int /\ h[p] <= g[p]
    BY <1>4, <2>6
  <2> HIDE DEF Bad, p
  <2> QED BY <2>3, <2>7, <2>8, <2>9
<1>6. sum[S] <= sum2[S]
    BY <1>5
<1> QED BY <1>1, <1>2, <1>6

\* A total does not change when the elements are renamed.
LEMMA TotalRename ==
    ASSUME NEW S, IsFiniteSet(S), NEW h, \A x \in S : h[x] \in Int, NEW t, IsTotal(t, S, h),
           NEW S2, IsFiniteSet(S2), NEW f, \A x \in S2 : f[x] \in S,
           \A x \in S : \E y \in S2 : f[y] = x,
           \A x, y \in S2 : f[x] = f[y] => x = y,
           NEW g, \A x \in S2 : g[x] = h[f[x]], NEW u, IsTotal(u, S2, g)
    PROVE  t = u
<1>1. PICK sum : IsSum(sum, S, AnyOf(S), h) /\ t = sum[S]
    BY DEF IsTotal
<1>2. PICK sum2 : IsSum(sum2, S2, AnyOf(S2), g) /\ u = sum2[S2]
    BY DEF IsTotal
<1> DEFINE Image(T) == {f[x] : x \in T}
           Bad == {T \in SUBSET S2 : sum2[T] # sum[Image(T)]}
<1>3. Bad = {}
  <2>1. SUFFICES ASSUME Bad # {} PROVE FALSE
    OBVIOUS
  <2>2. PICK T \in Bad : \A x \in T : T \ {x} \notin Bad
    BY <2>1, SmallestSubset
  <2>3. T \in SUBSET S2 /\ sum2[T] # sum[Image(T)] /\ Image(T) \in SUBSET S
    OBVIOUS
  <2>4. SumAt(sum2, T, AnyOf(S2), g) /\ SumAt(sum, {}, AnyOf(S), h)
    <3> HIDE DEF Bad, Image
    <3> QED BY <1>1, <1>2, <2>3, SumStep
  <2>5. T # {}
    BY <2>3, <2>4 DEF SumAt
  <2> DEFINE p == AnyOf(S2)[T]
  <2>6. p \in T /\ T \ {p} \in SUBSET S2
    BY <2>3, <2>5, AnyOfPicks DEF Picks
  <2>7. sum2[T] = g[p] + sum2[T \ {p}]
    BY <2>4, <2>5 DEF SumAt
  <2>8. sum2[T \ {p}] = sum[Image(T \ {p})]
    BY <2>2, <2>6
  <2>9. Image(T \ {p}) = Image(T) \ {f[p]} /\ f[p] \in Image(T) /\ g[p] = h[f[p]]
    BY <2>3, <2>6
  <2> HIDE DEF Bad, p, Image
  <2>10. sum[Image(T)] = h[f[p]] + sum[Image(T) \ {f[p]}]
    BY <1>1, <2>3, <2>9, AnyOfPicks, SumRemove
  <2> QED BY <2>3, <2>7, <2>8, <2>9, <2>10
<1>4. S2 \in SUBSET S2 /\ Image(S2) = S
    OBVIOUS
<1>5. sum2[S2] = sum[S]
    BY <1>3, <1>4
<1> QED BY <1>1, <1>2, <1>5
=============================================================================
