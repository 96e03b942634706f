------------------------- MODULE PlacementPlanProofs ------------------------
(***************************************************************************)
(* Proofs about the placement planner, for every database and every value  *)
(* of the constants: what its folds and its sorted sequences are, and what *)
(* holds of every plan that it makes.                                      *)
(***************************************************************************)
EXTENDS PlacementPlan, SumTheorems

-----------------------------------------------------------------------------
(* Folds *)

\* fold applies op to the elements of the subsets of S, one element at a time.
FoldAt(fold, T, pick, base, op) ==
    fold[T] = IF T = {} THEN base ELSE op[<<pick[T], fold[T \ {pick[T]}]>>]

\* A fold of the subsets that have at most n elements exists, for each n.
LEMMA FoldUpTo ==
    ASSUME NEW S, IsFiniteSet(S), NEW pick, Picks(pick, S), NEW base, NEW op, NEW n \in Nat
    PROVE  \E fold : \A T \in SUBSET S : Cardinality(T) <= n => FoldAt(fold, T, pick, base, op)
<1> DEFINE UpTo(fold, k) == \A T \in SUBSET S : Cardinality(T) <= k => FoldAt(fold, T, pick, base, op)
           Bad == {k \in Nat : ~\E fold : UpTo(fold, k)}
<1>1. \A T \in SUBSET S : IsFiniteSet(T) /\ Cardinality(T) \in Nat
    BY FS_Subset, FS_CardinalityType
<1>2. 0 \notin Bad
  <2>1. \A T \in SUBSET S : Cardinality(T) <= 0 => T = {}
    BY <1>1, FS_EmptySet
  <2>2. UpTo([T \in SUBSET S |-> base], 0)
    BY <2>1 DEF FoldAt
  <2> QED BY <2>2
<1>3. ASSUME NEW k \in Nat, k \notin Bad PROVE k + 1 \notin Bad
  <2>1. PICK fold : UpTo(fold, k)
    BY <1>3
  <2> DEFINE more == [T \in SUBSET S |-> IF Cardinality(T) <= k THEN fold[T]
                        ELSE IF T = {} THEN base ELSE op[<<pick[T], fold[T \ {pick[T]}]>>]]
  <2>2. ASSUME NEW T \in SUBSET S, Cardinality(T) <= k + 1
        PROVE  more[T] = IF T = {} THEN base ELSE op[<<pick[T], more[T \ {pick[T]}]>>]
    <3>1. more[T] = IF T = {} THEN base ELSE op[<<pick[T], fold[T \ {pick[T]}]>>]
      BY <2>1 DEF FoldAt
    <3>2. CASE T = {}
      BY <3>1, <3>2
    <3>3. CASE T # {}
      <4>1. pick[T] \in T /\ T \ {pick[T]} \in SUBSET S
        BY <3>3 DEF Picks
      <4>2. Cardinality(T \ {pick[T]}) = Cardinality(T) - 1
        BY <1>1, <4>1, FS_RemoveElement
      <4>3. Cardinality(T \ {pick[T]}) <= k
        BY <1>1, <2>2, <4>2
      <4>4. more[T \ {pick[T]}] = fold[T \ {pick[T]}]
        BY <4>1, <4>3
      <4> QED BY <3>1, <3>3, <4>4
    <3> QED BY <3>2, <3>3
  <2>3. UpTo(more, k + 1)
    BY <2>2 DEF FoldAt
  <2> QED BY <2>3
<1>4. Bad = {}
  <2>1. SUFFICES ASSUME Bad # {} PROVE FALSE
    OBVIOUS
  <2>2. PICK m \in Bad : \A k \in Bad : m <= k
    BY <2>1, LeastNatural
  <2>3. m # 0 /\ m \in Nat
    BY <1>2, <2>2
  <2> HIDE DEF Bad
  <2>4. m - 1 \in Nat /\ m - 1 \notin Bad
    BY <2>2, <2>3
  <2>5. (m - 1) + 1 \notin Bad
    BY <1>3, <2>4
  <2> QED BY <2>2, <2>3, <2>5
<1> QED BY <1>4

\* What goes from the empty set to S by adding elements stays in the set of values
\* that no step leaves.
LEMMA FoldStays ==
    ASSUME NEW S, IsFiniteSet(S), NEW pick, Picks(pick, S), NEW fold, NEW St,
           fold[{}] \in St,
           \A T \in SUBSET S : T # {} /\ fold[T \ {pick[T]}] \in St => fold[T] \in St,
           NEW R \in SUBSET S
    PROVE  fold[R] \in St
<1> DEFINE Bad == {T \in SUBSET S : fold[T] \notin St}
<1>1. SUFFICES ASSUME Bad # {} PROVE FALSE
    OBVIOUS
<1>2. PICK T \in Bad : \A x \in T : T \ {x} \notin Bad
    BY <1>1, SmallestSubset
<1>3. T # {}
    OBVIOUS
<1>4. pick[T] \in T /\ T \ {pick[T]} \in SUBSET S
    BY <1>3 DEF Picks
<1>5. fold[T \ {pick[T]}] \in St
    BY <1>2, <1>4
<1> QED BY <1>3, <1>4, <1>5

\* A fold exists, and its values stay where op keeps them.
LEMMA FoldExists ==
    ASSUME NEW S, IsFiniteSet(S), NEW pick, Picks(pick, S), NEW St, NEW base \in St, NEW op,
           \A x \in S, a \in St : op[<<x, a>>] \in St
    PROVE  \E fold \in [SUBSET S -> St] : \A T \in SUBSET S : FoldAt(fold, T, pick, base, op)
<1>1. Cardinality(S) \in Nat /\ \A T \in SUBSET S : Cardinality(T) <= Cardinality(S)
    BY FS_Subset, FS_CardinalityType
<1>2. PICK part : \A T \in SUBSET S : Cardinality(T) <= Cardinality(S) => FoldAt(part, T, pick, base, op)
    BY <1>1, FoldUpTo
<1>3. \A T \in SUBSET S : FoldAt(part, T, pick, base, op)
    BY <1>1, <1>2
<1>4. ASSUME NEW R \in SUBSET S PROVE part[R] \in St
  <2>1. part[{}] \in St
    BY <1>3 DEF FoldAt
  <2>2. ASSUME NEW T \in SUBSET S, T # {}, part[T \ {pick[T]}] \in St PROVE part[T] \in St
    BY <1>3, <2>2 DEF FoldAt, Picks
  <2> QED BY <2>1, <2>2, FoldStays
<1> DEFINE fold == [T \in SUBSET S |-> part[T]]
<1>5. fold \in [SUBSET S -> St]
    BY <1>4
<1>6. ASSUME NEW T \in SUBSET S PROVE FoldAt(fold, T, pick, base, op)
  <2>1. T \ {pick[T]} \in SUBSET S
    OBVIOUS
  <2> QED BY <1>3, <2>1 DEF FoldAt
<1> QED BY <1>5, <1>6

\* A fold over the indices 1..n takes the last one out first.
IsIndexFold(fold, n, base, op) ==
    \A T \in SUBSET (1..n) : fold[T] = IF T = {} THEN base ELSE op[<<Max(T), fold[T \ {Max(T)}]>>]

\* A fold over the places of a sequence, from the last to the first, exists.
LEMMA IndexFoldExists ==
    ASSUME NEW n \in Nat, NEW St, NEW base \in St, NEW op,
           \A i \in 1..n, a \in St : op[<<i, a>>] \in St
    PROVE  \E fold \in [SUBSET (1..n) -> St] : IsIndexFold(fold, n, base, op)
<1> DEFINE S == 1..n
           pick == [T \in SUBSET S |-> Max(T)]
<1>1. IsFiniteSet(S)
    BY FS_Interval
<1>2. \A T \in SUBSET S : T # {} => Max(T) \in T
    BY MaxInSet
<1>3. Picks(pick, S)
    BY <1>2 DEF Picks
<1>4. \A T \in SUBSET S : pick[T] = Max(T)
    OBVIOUS
<1>5. \A x \in S, a \in St : op[<<x, a>>] \in St
    OBVIOUS
<1> HIDE DEF S, pick
<1>6. PICK fold \in [SUBSET S -> St] : \A T \in SUBSET S : FoldAt(fold, T, pick, base, op)
    BY <1>1, <1>3, <1>5, FoldExists
<1>7. \A T \in SUBSET S : fold[T] = IF T = {} THEN base ELSE op[<<Max(T), fold[T \ {Max(T)}]>>]
    BY <1>4, <1>6 DEF FoldAt
<1> QED BY <1>7 DEF S, IsIndexFold

\* The values of such a fold on the prefixes of 1..n, and their steps.
LEMMA IndexPrefix ==
    ASSUME NEW n \in Nat, NEW k \in 1..n
    PROVE  /\ 1..k \in SUBSET (1..n) /\ 1..k # {} /\ Max(1..k) = k
           /\ (1..k) \ {k} = 1..(k - 1) /\ k - 1 \in 0..n
<1>1. k \in 1..k /\ 1..k \in SUBSET (1..n) /\ {} # 1..k
    OBVIOUS
<1>2. Max(1..k) \in 1..k /\ \A x \in 1..k : x <= Max(1..k)
    BY <1>1, MaxInSet
<1>3. Max(1..k) = k
    BY <1>1, <1>2
<1>4. \A x : x \in (1..k) \ {k} <=> x \in 1..(k - 1)
    OBVIOUS
<1>5. (1..k) \ {k} = 1..(k - 1)
    BY <1>4
<1>6. k - 1 \in 0..n
    OBVIOUS
<1> QED BY <1>1, <1>3, <1>5, <1>6

\* The prefixes of such a fold stay where its steps keep them.
LEMMA FoldPrefixes ==
    ASSUME NEW n \in Nat, NEW fold, NEW St, fold[{}] \in St,
           \A T \in SUBSET (1..n) : T # {} /\ fold[T \ {Max(T)}] \in St => fold[T] \in St
    PROVE  \A k \in 0..n : fold[1..k] \in St
<1> DEFINE S == 1..n
           pick == [T \in SUBSET S |-> Max(T)]
<1>1. IsFiniteSet(S)
    BY FS_Interval
<1>2. \A T \in SUBSET S : T # {} => Max(T) \in T
    BY MaxInSet
<1>3. Picks(pick, S)
    BY <1>2 DEF Picks
<1>4. \A T \in SUBSET S : T # {} /\ fold[T \ {pick[T]}] \in St => fold[T] \in St
    OBVIOUS
<1>5. \A k \in 0..n : 1..k \in SUBSET S
    OBVIOUS
<1> HIDE DEF S, pick
<1> QED BY <1>1, <1>3, <1>4, <1>5, FoldStays

-----------------------------------------------------------------------------
(* The folds of the planner: a run of steps from the first state to the last, which *)
(* exists because the steps stay within a set.                                       *)

\* The pins of a policy, one after the other.
LEMMA PinsFold ==
    ASSUME NEW St, NEW d, NEW item, NEW n \in Nat, DOMAIN item.policy.pins = 1..n, NEW st \in St,
           \A a \in St, k \in 1..n : PlaceHardPin(d, a, item, item.policy.pins[k]) \in St
    PROVE  PlacePinsOf(d, st, item) \in St
<1> DEFINE seq == item.policy.pins
           Raw(it) == [T \in SUBSET DOMAIN seq |-> IF T = {} THEN st
                          ELSE LET x == Max(T) IN PlaceHardPin(d, it[T \ {x}], item, item.policy.pins[x])]
           it == CHOOSE f : f = Raw(f)
           op == [q \in (1..n) \X St |-> PlaceHardPin(d, q[2], item, item.policy.pins[q[1]])]
<1>1. PlacePinsOf(d, st, item) = it[DOMAIN seq] /\ DOMAIN seq = 1..n
    BY DEF PlacePinsOf, FoldLeft, MapThenFoldSet
<1>2. \A T \in SUBSET (1..n) : T # {} => Max(T) \in T
    BY MaxInSet
<1>3. \A x \in 1..n, a \in St : op[<<x, a>>] = PlaceHardPin(d, a, item, item.policy.pins[x])
    OBVIOUS
<1>4. \A x \in 1..n, a \in St : op[<<x, a>>] \in St
    BY <1>3
<1>5. PICK fold \in [SUBSET (1..n) -> St] : IsIndexFold(fold, n, st, op)
  <2> HIDE DEF op
  <2> QED BY <1>4, IndexFoldExists
<1>6. ASSUME NEW T \in SUBSET (1..n)
      PROVE  fold[T] = IF T = {} THEN st ELSE PlaceHardPin(d, fold[T \ {Max(T)}], item, item.policy.pins[Max(T)])
  <2>1. CASE T = {}
    BY <1>5, <2>1 DEF IsIndexFold
  <2>2. CASE T # {}
    <3>1. Max(T) \in 1..n /\ fold[T \ {Max(T)}] \in St
      BY <1>2, <1>5, <2>2
    <3> HIDE DEF op
    <3> QED BY <1>3, <1>5, <2>2, <3>1 DEF IsIndexFold
  <2> QED BY <2>1, <2>2
<1>7. fold = Raw(fold)
    BY <1>1, <1>5, <1>6
<1>8. it = Raw(it)
    BY <1>7
<1>9. \A T \in SUBSET (1..n) :
         it[T] = IF T = {} THEN st ELSE PlaceHardPin(d, it[T \ {Max(T)}], item, item.policy.pins[Max(T)])
    BY <1>1, <1>8
<1> HIDE DEF it
<1>10. it[{}] = st
    BY <1>9
<1>11. ASSUME NEW T \in SUBSET (1..n), T # {}, it[T \ {Max(T)}] \in St PROVE it[T] \in St
  <2>1. Max(T) \in 1..n
    BY <1>2, <1>11
  <2>2. PlaceHardPin(d, it[T \ {Max(T)}], item, item.policy.pins[Max(T)]) \in St
    BY <1>11, <2>1
  <2> QED BY <1>9, <1>11, <2>2
<1>12. \A k \in 0..n : it[1..k] \in St
    BY <1>10, <1>11, FoldPrefixes
<1> QED BY <1>1, <1>12

\* The pins of all policies.
LEMMA AllPinsFold ==
    ASSUME NEW St, NEW d, NEW n \in Nat, NEW items, DOMAIN items = 1..n, NEW st \in St,
           \A a \in St, k \in 1..n : PlacePinsOf(d, a, items[k]) \in St
    PROVE  PlaceHardPins(d, st, items) \in St
<1> DEFINE seq == items
           Raw(it) == [T \in SUBSET DOMAIN seq |-> IF T = {} THEN st
                          ELSE LET x == Max(T) IN PlacePinsOf(d, it[T \ {x}], items[x])]
           it == CHOOSE f : f = Raw(f)
           op == [q \in (1..n) \X St |-> PlacePinsOf(d, q[2], items[q[1]])]
<1>1. PlaceHardPins(d, st, items) = it[DOMAIN seq] /\ DOMAIN seq = 1..n
    BY DEF PlaceHardPins, FoldLeft, MapThenFoldSet
<1>2. \A T \in SUBSET (1..n) : T # {} => Max(T) \in T
    BY MaxInSet
<1>3. \A x \in 1..n, a \in St : op[<<x, a>>] = PlacePinsOf(d, a, items[x])
    OBVIOUS
<1>4. \A x \in 1..n, a \in St : op[<<x, a>>] \in St
    BY <1>3
<1>5. PICK fold \in [SUBSET (1..n) -> St] : IsIndexFold(fold, n, st, op)
  <2> HIDE DEF op
  <2> QED BY <1>4, IndexFoldExists
<1>6. ASSUME NEW T \in SUBSET (1..n)
      PROVE  fold[T] = IF T = {} THEN st ELSE PlacePinsOf(d, fold[T \ {Max(T)}], items[Max(T)])
  <2>1. CASE T = {}
    BY <1>5, <2>1 DEF IsIndexFold
  <2>2. CASE T # {}
    <3>1. Max(T) \in 1..n /\ fold[T \ {Max(T)}] \in St
      BY <1>2, <1>5, <2>2
    <3> HIDE DEF op
    <3> QED BY <1>3, <1>5, <2>2, <3>1 DEF IsIndexFold
  <2> QED BY <2>1, <2>2
<1>7. fold = Raw(fold)
    BY <1>1, <1>5, <1>6
<1>8. it = Raw(it)
    BY <1>7
<1>9. \A T \in SUBSET (1..n) :
         it[T] = IF T = {} THEN st ELSE PlacePinsOf(d, it[T \ {Max(T)}], items[Max(T)])
    BY <1>1, <1>8
<1> HIDE DEF it
<1>10. it[{}] = st
    BY <1>9
<1>11. ASSUME NEW T \in SUBSET (1..n), T # {}, it[T \ {Max(T)}] \in St PROVE it[T] \in St
  <2>1. Max(T) \in 1..n
    BY <1>2, <1>11
  <2>2. PlacePinsOf(d, it[T \ {Max(T)}], items[Max(T)]) \in St
    BY <1>11, <2>1
  <2> QED BY <1>9, <1>11, <2>2
<1>12. \A k \in 0..n : it[1..k] \in St
    BY <1>10, <1>11, FoldPrefixes
<1> QED BY <1>1, <1>12

\* The copies of the known slots, in their order.
LEMMA PreserveFold ==
    ASSUME NEW St, NEW d, NEW n \in Nat, NEW items, NEW st \in St,
           NEW order, order = Ascending(KnownSlots(d)), DOMAIN order = 1..n,
           \A a \in St, k \in 1..n : PreserveCopy(d, a, items, order[k]) \in St
    PROVE  PreserveRuntimeCopies(d, st, items) \in St
<1> DEFINE seq == order
           Raw(it) == [T \in SUBSET DOMAIN seq |-> IF T = {} THEN st
                          ELSE LET x == Max(T) IN PreserveCopy(d, it[T \ {x}], items, order[x])]
           it == CHOOSE f : f = Raw(f)
           op == [q \in (1..n) \X St |-> PreserveCopy(d, q[2], items, order[q[1]])]
<1>1. PreserveRuntimeCopies(d, st, items) = it[DOMAIN seq] /\ DOMAIN seq = 1..n
    BY DEF PreserveRuntimeCopies, FoldLeft, MapThenFoldSet
<1>2. \A T \in SUBSET (1..n) : T # {} => Max(T) \in T
    BY MaxInSet
<1>3. \A x \in 1..n, a \in St : op[<<x, a>>] = PreserveCopy(d, a, items, order[x])
    OBVIOUS
<1>4. \A x \in 1..n, a \in St : op[<<x, a>>] \in St
    BY <1>3
<1>5. PICK fold \in [SUBSET (1..n) -> St] : IsIndexFold(fold, n, st, op)
  <2> HIDE DEF op
  <2> QED BY <1>4, IndexFoldExists
<1>6. ASSUME NEW T \in SUBSET (1..n)
      PROVE  fold[T] = IF T = {} THEN st ELSE PreserveCopy(d, fold[T \ {Max(T)}], items, order[Max(T)])
  <2>1. CASE T = {}
    BY <1>5, <2>1 DEF IsIndexFold
  <2>2. CASE T # {}
    <3>1. Max(T) \in 1..n /\ fold[T \ {Max(T)}] \in St
      BY <1>2, <1>5, <2>2
    <3> HIDE DEF op
    <3> QED BY <1>3, <1>5, <2>2, <3>1 DEF IsIndexFold
  <2> QED BY <2>1, <2>2
<1>7. fold = Raw(fold)
    BY <1>1, <1>5, <1>6
<1>8. it = Raw(it)
    BY <1>7
<1>9. \A T \in SUBSET (1..n) :
         it[T] = IF T = {} THEN st ELSE PreserveCopy(d, it[T \ {Max(T)}], items, order[Max(T)])
    BY <1>1, <1>8
<1> HIDE DEF it
<1>10. it[{}] = st
    BY <1>9
<1>11. ASSUME NEW T \in SUBSET (1..n), T # {}, it[T \ {Max(T)}] \in St PROVE it[T] \in St
  <2>1. Max(T) \in 1..n
    BY <1>2, <1>11
  <2>2. PreserveCopy(d, it[T \ {Max(T)}], items, order[Max(T)]) \in St
    BY <1>11, <2>1
  <2> QED BY <1>9, <1>11, <2>2
<1>12. \A k \in 0..n : it[1..k] \in St
    BY <1>10, <1>11, FoldPrefixes
<1> QED BY <1>1, <1>12

\* The rounds of a phase are a fold of them.
IsRounds(it, d, st, phase, explain, n) ==
    /\ PlaceUntil(d, st, phase, explain) = it[1..n] /\ it[{}] = st
    /\ \A T \in SUBSET (1..n) : T # {} => it[T] = PlaceCopy(d, it[T \ {Max(T)}], phase.item, phase.warm, explain)

\* Such a run exists.
LEMMA RoundsRun ==
    ASSUME NEW St, NEW d, NEW phase, NEW explain, NEW st \in St, NEW n \in Nat,
           1..(phase.target - (IF phase.warm THEN st.warm[phase.item.profile] ELSE st.cached[phase.item.profile])) = 1..n,
           \A a \in St, k \in 1..n : PlaceCopy(d, a, phase.item, phase.warm, explain) \in St
    PROVE  \E it : IsRounds(it, d, st, phase, explain, n)
<1> DEFINE seq == [i \in 1..n |-> i]
           Raw(it) == [T \in SUBSET DOMAIN seq |-> IF T = {} THEN st
                          ELSE LET x == Max(T) IN PlaceCopy(d, it[T \ {x}], phase.item, phase.warm, explain)]
           it == CHOOSE f : f = Raw(f)
           op == [q \in (1..n) \X St |-> PlaceCopy(d, q[2], phase.item, phase.warm, explain)]
<1>1. PlaceUntil(d, st, phase, explain) = it[DOMAIN seq] /\ DOMAIN seq = 1..n
    BY DEF PlaceUntil, FoldLeft, MapThenFoldSet
<1>2. \A T \in SUBSET (1..n) : T # {} => Max(T) \in T
    BY MaxInSet
<1>3. \A x \in 1..n, a \in St : op[<<x, a>>] = PlaceCopy(d, a, phase.item, phase.warm, explain)
    OBVIOUS
<1>4. \A x \in 1..n, a \in St : op[<<x, a>>] \in St
    BY <1>3
<1>5. PICK fold \in [SUBSET (1..n) -> St] : IsIndexFold(fold, n, st, op)
  <2> HIDE DEF op
  <2> QED BY <1>4, IndexFoldExists
<1>6. ASSUME NEW T \in SUBSET (1..n)
      PROVE  fold[T] = IF T = {} THEN st ELSE PlaceCopy(d, fold[T \ {Max(T)}], phase.item, phase.warm, explain)
  <2>1. CASE T = {}
    BY <1>5, <2>1 DEF IsIndexFold
  <2>2. CASE T # {}
    <3>1. Max(T) \in 1..n /\ fold[T \ {Max(T)}] \in St
      BY <1>2, <1>5, <2>2
    <3> HIDE DEF op
    <3> QED BY <1>3, <1>5, <2>2, <3>1 DEF IsIndexFold
  <2> QED BY <2>1, <2>2
<1>7. fold = Raw(fold)
    BY <1>1, <1>5, <1>6
<1>8. it = Raw(it)
    BY <1>7
<1>9. \A T \in SUBSET (1..n) :
         it[T] = IF T = {} THEN st ELSE PlaceCopy(d, it[T \ {Max(T)}], phase.item, phase.warm, explain)
    BY <1>1, <1>8
<1> HIDE DEF it
<1>10. IsRounds(it, d, st, phase, explain, n)
    BY <1>1, <1>9 DEF IsRounds
<1> QED BY <1>10

\* A set that the rounds do not leave holds their end.
LEMMA RoundsFold ==
    ASSUME NEW St, NEW d, NEW phase, NEW explain, NEW st \in St, NEW n \in Nat,
           1..(phase.target - (IF phase.warm THEN st.warm[phase.item.profile] ELSE st.cached[phase.item.profile])) = 1..n,
           \A a \in St, k \in 1..n : PlaceCopy(d, a, phase.item, phase.warm, explain) \in St
    PROVE  PlaceUntil(d, st, phase, explain) \in St
<1>1. PICK it : IsRounds(it, d, st, phase, explain, n)
    BY RoundsRun
<1>2. it[{}] = st
    BY <1>1 DEF IsRounds
<1>3. ASSUME NEW T \in SUBSET (1..n), T # {}, it[T \ {Max(T)}] \in St PROVE it[T] \in St
  <2>1. Max(T) \in 1..n
    BY <1>3, MaxInSet
  <2> QED BY <1>1, <1>3, <2>1 DEF IsRounds
<1>4. \A k \in 0..n : it[1..k] \in St
    BY <1>2, <1>3, FoldPrefixes
<1> QED BY <1>1, <1>4 DEF IsRounds

\* So are the phases of a plan.
IsPhases(it, d, st, phases, explain, n) ==
    /\ PlacePhases(d, st, phases, explain) = it[1..n] /\ it[{}] = st
    /\ \A T \in SUBSET (1..n) : T # {} => it[T] = PlaceUntil(d, it[T \ {Max(T)}], phases[Max(T)], explain)

\* Such a run exists.
LEMMA PhasesRun ==
    ASSUME NEW St, NEW d, NEW n \in Nat, NEW phases, DOMAIN phases = 1..n, NEW explain, NEW st \in St,
           \A a \in St, k \in 1..n : PlaceUntil(d, a, phases[k], explain) \in St
    PROVE  \E it : IsPhases(it, d, st, phases, explain, n)
<1> DEFINE seq == phases
           Raw(it) == [T \in SUBSET DOMAIN seq |-> IF T = {} THEN st
                          ELSE LET x == Max(T) IN PlaceUntil(d, it[T \ {x}], phases[x], explain)]
           it == CHOOSE f : f = Raw(f)
           op == [q \in (1..n) \X St |-> PlaceUntil(d, q[2], phases[q[1]], explain)]
<1>1. PlacePhases(d, st, phases, explain) = it[DOMAIN seq] /\ DOMAIN seq = 1..n
    BY DEF PlacePhases, FoldLeft, MapThenFoldSet
<1>2. \A T \in SUBSET (1..n) : T # {} => Max(T) \in T
    BY MaxInSet
<1>3. \A x \in 1..n, a \in St : op[<<x, a>>] = PlaceUntil(d, a, phases[x], explain)
    OBVIOUS
<1>4. \A x \in 1..n, a \in St : op[<<x, a>>] \in St
    BY <1>3
<1>5. PICK fold \in [SUBSET (1..n) -> St] : IsIndexFold(fold, n, st, op)
  <2> HIDE DEF op
  <2> QED BY <1>4, IndexFoldExists
<1>6. ASSUME NEW T \in SUBSET (1..n)
      PROVE  fold[T] = IF T = {} THEN st ELSE PlaceUntil(d, fold[T \ {Max(T)}], phases[Max(T)], explain)
  <2>1. CASE T = {}
    BY <1>5, <2>1 DEF IsIndexFold
  <2>2. CASE T # {}
    <3>1. Max(T) \in 1..n /\ fold[T \ {Max(T)}] \in St
      BY <1>2, <1>5, <2>2
    <3> HIDE DEF op
    <3> QED BY <1>3, <1>5, <2>2, <3>1 DEF IsIndexFold
  <2> QED BY <2>1, <2>2
<1>7. fold = Raw(fold)
    BY <1>1, <1>5, <1>6
<1>8. it = Raw(it)
    BY <1>7
<1>9. \A T \in SUBSET (1..n) :
         it[T] = IF T = {} THEN st ELSE PlaceUntil(d, it[T \ {Max(T)}], phases[Max(T)], explain)
    BY <1>1, <1>8
<1> HIDE DEF it
<1>10. IsPhases(it, d, st, phases, explain, n)
    BY <1>1, <1>9 DEF IsPhases
<1> QED BY <1>10

\* A set that the phases do not leave holds their end.
LEMMA PhasesFold ==
    ASSUME NEW St, NEW d, NEW n \in Nat, NEW phases, DOMAIN phases = 1..n, NEW explain, NEW st \in St,
           \A a \in St, k \in 1..n : PlaceUntil(d, a, phases[k], explain) \in St
    PROVE  PlacePhases(d, st, phases, explain) \in St
<1>1. PICK it : IsPhases(it, d, st, phases, explain, n)
    BY PhasesRun
<1>2. it[{}] = st
    BY <1>1 DEF IsPhases
<1>3. ASSUME NEW T \in SUBSET (1..n), T # {}, it[T \ {Max(T)}] \in St PROVE it[T] \in St
  <2>1. Max(T) \in 1..n
    BY <1>3, MaxInSet
  <2> QED BY <1>1, <1>3, <2>1 DEF IsPhases
<1>4. \A k \in 0..n : it[1..k] \in St
    BY <1>2, <1>3, FoldPrefixes
<1> QED BY <1>1, <1>4 DEF IsPhases

\* The marks of draining copies, in the order of the plan.
LEMMA MarkFold ==
    ASSUME NEW St, NEW protected, NEW items, NEW st \in St, NEW n \in Nat, Len(st) = n,
           NEW order, order = [i \in 1..n |-> i],
           \A a \in St, k \in 1..n : MarkOne(a, protected, items, order[k]) \in St
    PROVE  MarkAll(st, protected, items) \in St
<1> DEFINE seq == order
           Raw(it) == [T \in SUBSET DOMAIN seq |-> IF T = {} THEN st
                          ELSE LET x == Max(T) IN MarkOne(it[T \ {x}], protected, items, order[x])]
           it == CHOOSE f : f = Raw(f)
           op == [q \in (1..n) \X St |-> MarkOne(q[2], protected, items, order[q[1]])]
<1>1. MarkAll(st, protected, items) = it[DOMAIN seq] /\ DOMAIN seq = 1..n
    BY DEF MarkAll, FoldLeft, MapThenFoldSet
<1>2. \A T \in SUBSET (1..n) : T # {} => Max(T) \in T
    BY MaxInSet
<1>3. \A x \in 1..n, a \in St : op[<<x, a>>] = MarkOne(a, protected, items, order[x])
    OBVIOUS
<1>4. \A x \in 1..n, a \in St : op[<<x, a>>] \in St
    BY <1>3
<1>5. PICK fold \in [SUBSET (1..n) -> St] : IsIndexFold(fold, n, st, op)
  <2> HIDE DEF op
  <2> QED BY <1>4, IndexFoldExists
<1>6. ASSUME NEW T \in SUBSET (1..n)
      PROVE  fold[T] = IF T = {} THEN st ELSE MarkOne(fold[T \ {Max(T)}], protected, items, order[Max(T)])
  <2>1. CASE T = {}
    BY <1>5, <2>1 DEF IsIndexFold
  <2>2. CASE T # {}
    <3>1. Max(T) \in 1..n /\ fold[T \ {Max(T)}] \in St
      BY <1>2, <1>5, <2>2
    <3> HIDE DEF op
    <3>2. fold[T] = op[<<Max(T), fold[T \ {Max(T)}]>>]
      BY <1>5, <2>2 DEF IsIndexFold
    <3>3. fold[T] = MarkOne(fold[T \ {Max(T)}], protected, items, order[Max(T)])
      BY <1>3, <3>1, <3>2, Zenon
    <3> QED BY <2>2, <3>3, Zenon
  <2> QED BY <2>1, <2>2
<1>7. fold = Raw(fold)
    BY <1>1, <1>5, <1>6
<1>8. it = Raw(it)
    BY <1>7
<1>9. \A T \in SUBSET (1..n) :
         it[T] = IF T = {} THEN st ELSE MarkOne(it[T \ {Max(T)}], protected, items, order[Max(T)])
    BY <1>1, <1>8
<1> HIDE DEF it
<1>10. it[{}] = st
    BY <1>9
<1>11. ASSUME NEW T \in SUBSET (1..n), T # {}, it[T \ {Max(T)}] \in St PROVE it[T] \in St
  <2>1. Max(T) \in 1..n
    BY <1>2, <1>11
  <2>2. MarkOne(it[T \ {Max(T)}], protected, items, order[Max(T)]) \in St
    BY <1>11, <2>1
  <2> QED BY <1>9, <1>11, <2>2
<1>12. \A k \in 0..n : it[1..k] \in St
    BY <1>10, <1>11, FoldPrefixes
<1> QED BY <1>1, <1>12

-----------------------------------------------------------------------------
(* Orders *)

Below(S, R, x) == {y \in S : <<y, x>> \in R}

\* R is a strict total order of S.
StrictOrder(S, R) ==
    /\ \A x \in S : <<x, x>> \notin R
    /\ \A x, y, z \in S : <<x, y>> \in R /\ <<y, z>> \in R => <<x, z>> \in R
    /\ \A x, y \in S : x = y \/ <<x, y>> \in R \/ <<y, x>> \in R

\* The number of elements below one tells its place.
LEMMA RankGrows ==
    ASSUME NEW S, IsFiniteSet(S), NEW R, StrictOrder(S, R), NEW x \in S, NEW y \in S, <<x, y>> \in R
    PROVE  Cardinality(Below(S, R, x)) < Cardinality(Below(S, R, y))
<1> DEFINE X == Below(S, R, x)
           Y == Below(S, R, y)
<1>1. X \subseteq Y /\ x \in Y /\ x \notin X /\ X \in SUBSET S /\ Y \in SUBSET S
    BY DEF Below, StrictOrder
<1> HIDE DEF X, Y
<1>2. IsFiniteSet(Y) /\ IsFiniteSet(X)
    BY <1>1, FS_Subset
<1>3. Cardinality(X) \in Nat /\ Cardinality(Y) \in Nat
    BY <1>2, FS_CardinalityType
<1>4. Cardinality(X) <= Cardinality(Y) /\ (Cardinality(Y) = Cardinality(X) => Y = X)
    BY <1>1, <1>2, FS_Subset
<1>5. Cardinality(X) < Cardinality(Y)
    BY <1>1, <1>3, <1>4
<1> QED BY <1>5 DEF X, Y

\* Every place is taken.
LEMMA RankExists ==
    ASSUME NEW S, IsFiniteSet(S), NEW R, StrictOrder(S, R), NEW k \in 1..Cardinality(S)
    PROVE  \E x \in S : Cardinality(Below(S, R, x)) = k - 1
<1> DEFINE N == Cardinality(S)
           rank == [x \in S |-> Cardinality(Below(S, R, x))]
<1>1. N \in Nat
    BY FS_CardinalityType
<1>2. ASSUME NEW x \in S PROVE rank[x] \in 0..(N - 1)
  <2>1. Below(S, R, x) \in SUBSET (S \ {x})
    BY DEF Below, StrictOrder
  <2>2. IsFiniteSet(S \ {x}) /\ Cardinality(S \ {x}) = N - 1
    BY FS_RemoveElement
  <2>3. IsFiniteSet(Below(S, R, x)) /\ Cardinality(Below(S, R, x)) <= N - 1
    BY <2>1, <2>2, FS_Subset
  <2>4. Cardinality(Below(S, R, x)) \in Nat
    BY <2>3, FS_CardinalityType
  <2> QED BY <1>1, <2>3, <2>4
<1>3. ASSUME NEW x \in S, NEW y \in S, rank[x] = rank[y] PROVE x = y
  <2>1. rank[x] \in Nat /\ rank[y] \in Nat
    BY <1>1, <1>2
  <2>2. <<x, y>> \in R => rank[x] < rank[y]
    BY RankGrows
  <2>3. <<y, x>> \in R => rank[y] < rank[x]
    BY RankGrows
  <2> QED BY <1>3, <2>1, <2>2, <2>3 DEF StrictOrder
<1>4. rank \in Injection(S, 0..(N - 1))
    BY <1>2, <1>3 DEF Injection, IsInjective
<1>5. IsFiniteSet(0..(N - 1)) /\ Cardinality(0..(N - 1)) = N
  <2> HIDE DEF N
  <2>1. N - 1 \in Int /\ 0 \in Int
    BY <1>1
  <2>2. Cardinality(0..(N - 1)) = IF 0 > N - 1 THEN 0 ELSE (N - 1) - 0 + 1
    BY <2>1, FS_Interval
  <2>3. IsFiniteSet(0..(N - 1))
    BY <2>1, FS_Interval
  <2> QED BY <1>1, <2>2, <2>3
<1>6. rank \in Surjection(S, 0..(N - 1))
  <2> HIDE DEF N, rank
  <2> QED BY <1>4, <1>5, FS_Injection DEF N
<1>7. k - 1 \in 0..(N - 1)
    BY <1>1
<1> QED BY <1>6, <1>7 DEF Surjection

\* seq lists S in the order of R.
Lists(seq, S, R) ==
    /\ seq \in [1..Cardinality(S) -> S]
    /\ \A k \in 1..Cardinality(S) : Cardinality(Below(S, R, seq[k])) = k - 1

\* Such a list has every element, once, and in ascending order.
LEMMA ListsAll ==
    ASSUME NEW S, IsFiniteSet(S), NEW R, StrictOrder(S, R), NEW seq, Lists(seq, S, R)
    PROVE  /\ Cardinality(S) \in Nat /\ DOMAIN seq = 1..Cardinality(S)
           /\ \A k \in DOMAIN seq : seq[k] \in S
           /\ \A x \in S : \E k \in DOMAIN seq : seq[k] = x
           /\ \A i, j \in DOMAIN seq : (i < j <=> <<seq[i], seq[j]>> \in R) /\ (seq[i] = seq[j] => i = j)
<1> DEFINE N == Cardinality(S)
<1>1. N \in Nat /\ DOMAIN seq = 1..N /\ \A k \in 1..N : seq[k] \in S
    BY FS_CardinalityType DEF Lists
<1>2. \A k \in 1..N : Cardinality(Below(S, R, seq[k])) = k - 1
    BY DEF Lists
<1>3. ASSUME NEW i \in 1..N, NEW j \in 1..N, <<seq[i], seq[j]>> \in R PROVE i < j
  <2>1. Cardinality(Below(S, R, seq[i])) < Cardinality(Below(S, R, seq[j]))
    BY <1>1, <1>3, RankGrows
  <2> QED BY <1>1, <1>2, <2>1
<1>4. ASSUME NEW i \in 1..N, NEW j \in 1..N, seq[i] = seq[j] PROVE i = j
  <2>1. i - 1 = j - 1
    BY <1>2, <1>4
  <2> QED BY <1>1, <2>1
<1>5. ASSUME NEW i \in 1..N, NEW j \in 1..N, i < j PROVE <<seq[i], seq[j]>> \in R
  <2>1. seq[i] # seq[j]
    BY <1>1, <1>4, <1>5
  <2>2. ~(<<seq[j], seq[i]>> \in R)
    BY <1>1, <1>3, <1>5
  <2> QED BY <1>1, <2>1, <2>2 DEF StrictOrder
<1>6. ASSUME NEW x \in S PROVE \E k \in 1..N : seq[k] = x
  <2> DEFINE b == Cardinality(Below(S, R, x))
  <2>1. b \in 0..(N - 1)
    <3>1. Below(S, R, x) \in SUBSET (S \ {x})
      BY DEF Below, StrictOrder
    <3>2. IsFiniteSet(S \ {x}) /\ Cardinality(S \ {x}) = N - 1
      BY FS_RemoveElement
    <3>3. IsFiniteSet(Below(S, R, x)) /\ b <= N - 1
      BY <3>1, <3>2, FS_Subset
    <3>4. b \in Nat
      BY <3>3, FS_CardinalityType
    <3> QED BY <1>1, <3>3, <3>4
  <2>2. b + 1 \in 1..N
    BY <1>1, <2>1
  <2>3. Cardinality(Below(S, R, seq[b + 1])) = b
    BY <1>1, <1>2, <2>1, <2>2
  <2>4. seq[b + 1] \in S
    BY <1>1, <2>2
  <2>5. ~(<<seq[b + 1], x>> \in R)
    <3>1. SUFFICES ASSUME <<seq[b + 1], x>> \in R PROVE FALSE
      OBVIOUS
    <3>2. Cardinality(Below(S, R, seq[b + 1])) < b
      BY <2>4, <3>1, RankGrows
    <3> QED BY <1>1, <2>1, <2>3, <3>2
  <2>6. ~(<<x, seq[b + 1]>> \in R)
    <3>1. SUFFICES ASSUME <<x, seq[b + 1]>> \in R PROVE FALSE
      OBVIOUS
    <3>2. b < Cardinality(Below(S, R, seq[b + 1]))
      BY <2>4, <3>1, RankGrows
    <3> QED BY <1>1, <2>1, <2>3, <3>2
  <2>7. seq[b + 1] = x
    BY <2>4, <2>5, <2>6 DEF StrictOrder
  <2> QED BY <2>2, <2>7
<1> QED BY <1>1, <1>3, <1>4, <1>5, <1>6

\* Integers in their order.
Smaller(S) == {q \in S \X S : q[1] < q[2]}

\* sortSlots lists a finite set of integers in this order.
LEMMA AscendingLists ==
    ASSUME NEW S, IsFiniteSet(S), S \subseteq Int
    PROVE  StrictOrder(S, Smaller(S)) /\ Lists(Ascending(S), S, Smaller(S))
<1> DEFINE R == Smaller(S)
           seq == Ascending(S)
<1>1. StrictOrder(S, R)
    BY DEF Smaller, StrictOrder
<1>2. \A x \in S : {y \in S : y < x} = Below(S, R, x)
    BY DEF Smaller, Below
<1>3. ASSUME NEW k \in 1..Cardinality(S)
      PROVE  seq[k] \in S /\ Cardinality(Below(S, R, seq[k])) = k - 1
  <2>1. seq[k] = CHOOSE x \in S : Cardinality({y \in S : y < x}) = k - 1
    BY DEF Ascending, Sorted
  <2>2. \E x \in S : Cardinality(Below(S, R, x)) = k - 1
    BY <1>1, RankExists
  <2>3. \E x \in S : Cardinality({y \in S : y < x}) = k - 1
    BY <1>2, <2>2
  <2>4. seq[k] \in S /\ Cardinality({y \in S : y < seq[k]}) = k - 1
    BY <2>1, <2>3
  <2> QED BY <1>2, <2>4
<1>4. seq = [k \in 1..Cardinality(S) |-> seq[k]]
  <2>1. seq = [k \in 1..Cardinality(S) |-> CHOOSE x \in S : Cardinality({y \in S : y < x}) = k - 1]
    BY Zenon DEF Ascending, Sorted
  <2> HIDE DEF seq
  <2>2. DOMAIN seq = 1..Cardinality(S) /\ \A k \in 1..Cardinality(S) : seq[k] \in S
    BY <1>3, <2>1
  <2>3. seq \in [1..Cardinality(S) -> S]
    BY <2>1, <2>2
  <2> QED BY <2>3
<1> QED BY <1>1, <1>3, <1>4 DEF Lists

\* An ascending sequence is one of the elements of its set, all of them.
LEMMA AscendingIs ==
    ASSUME NEW S, IsFiniteSet(S), S \subseteq Int
    PROVE  /\ Cardinality(S) \in Nat /\ DOMAIN Ascending(S) = 1..Cardinality(S)
           /\ \A k \in DOMAIN Ascending(S) : Ascending(S)[k] \in S
           /\ \A x \in S : \E k \in DOMAIN Ascending(S) : Ascending(S)[k] = x
           /\ \A i, j \in DOMAIN Ascending(S) : Ascending(S)[i] = Ascending(S)[j] => i = j
<1>1. StrictOrder(S, Smaller(S)) /\ Lists(Ascending(S), S, Smaller(S))
    BY AscendingLists
<1> DEFINE seq == Ascending(S)
           R == Smaller(S)
<1>2. StrictOrder(S, R) /\ Lists(seq, S, R)
    BY <1>1
<1> HIDE DEF seq, R
<1>3. /\ Cardinality(S) \in Nat /\ DOMAIN seq = 1..Cardinality(S)
      /\ \A k \in DOMAIN seq : seq[k] \in S
      /\ \A x \in S : \E k \in DOMAIN seq : seq[k] = x
      /\ \A i, j \in DOMAIN seq : (i < j <=> <<seq[i], seq[j]>> \in R) /\ (seq[i] = seq[j] => i = j)
    BY <1>2, ListsAll
<1> QED BY <1>3 DEF seq

\* The lexicographic order of triples and of quadruples.
LEMMA Lex3 ==
    ASSUME NEW a1, NEW a2, NEW a3, NEW b1, NEW b2, NEW b3
    PROVE  LexLess(<<a1, a2, a3>>, <<b1, b2, b3>>)
             <=> a1 < b1 \/ (a1 = b1 /\ (a2 < b2 \/ (a2 = b2 /\ a3 < b3)))
<1> DEFINE x == <<a1, a2, a3>>
           y == <<b1, b2, b3>>
<1>1. DOMAIN x = {1, 2, 3} /\ x[1] = a1 /\ x[2] = a2 /\ x[3] = a3 /\ y[1] = b1 /\ y[2] = b2 /\ y[3] = b3
    OBVIOUS
<1>2. 1..(1 - 1) = {} /\ 1..(2 - 1) = {1} /\ 1..(3 - 1) = {1, 2}
    OBVIOUS
<1> HIDE DEF x, y
<1>3. LexLess(x, y) <=> \E i \in {1, 2, 3} : x[i] < y[i] /\ \A j \in 1..(i - 1) : x[j] = y[j]
    BY <1>1 DEF LexLess
<1>4. LexLess(x, y) <=> \/ x[1] < y[1]
                        \/ x[2] < y[2] /\ x[1] = y[1]
                        \/ x[3] < y[3] /\ x[1] = y[1] /\ x[2] = y[2]
    BY <1>2, <1>3
<1>5. LexLess(x, y) <=> a1 < b1 \/ (a1 = b1 /\ (a2 < b2 \/ (a2 = b2 /\ a3 < b3)))
    BY <1>1, <1>4
<1> QED BY <1>5 DEF x, y

\* LexLess on four numbers, the rank of a candidate.
LEMMA Lex4 ==
    ASSUME NEW a1, NEW a2, NEW a3, NEW a4, NEW b1, NEW b2, NEW b3, NEW b4
    PROVE  LexLess(<<a1, a2, a3, a4>>, <<b1, b2, b3, b4>>)
             <=> a1 < b1 \/ (a1 = b1 /\ (a2 < b2 \/ (a2 = b2 /\ (a3 < b3 \/ (a3 = b3 /\ a4 < b4)))))
<1> DEFINE x == <<a1, a2, a3, a4>>
           y == <<b1, b2, b3, b4>>
<1>1. /\ DOMAIN x = {1, 2, 3, 4} /\ x[1] = a1 /\ x[2] = a2 /\ x[3] = a3 /\ x[4] = a4
      /\ y[1] = b1 /\ y[2] = b2 /\ y[3] = b3 /\ y[4] = b4
    OBVIOUS
<1>2. 1..(1 - 1) = {} /\ 1..(2 - 1) = {1} /\ 1..(3 - 1) = {1, 2} /\ 1..(4 - 1) = {1, 2, 3}
    OBVIOUS
<1> HIDE DEF x, y
<1>3. LexLess(x, y) <=> \E i \in {1, 2, 3, 4} : x[i] < y[i] /\ \A j \in 1..(i - 1) : x[j] = y[j]
    BY <1>1 DEF LexLess
<1>4. LexLess(x, y) <=> \/ x[1] < y[1]
                        \/ x[2] < y[2] /\ x[1] = y[1]
                        \/ x[3] < y[3] /\ x[1] = y[1] /\ x[2] = y[2]
                        \/ x[4] < y[4] /\ x[1] = y[1] /\ x[2] = y[2] /\ x[3] = y[3]
    BY <1>2, <1>3
<1>5. LexLess(x, y)
        <=> a1 < b1 \/ (a1 = b1 /\ (a2 < b2 \/ (a2 = b2 /\ (a3 < b3 \/ (a3 = b3 /\ a4 < b4)))))
    BY <1>1, <1>4
<1> QED BY <1>5 DEF x, y

\* The elements of S in the lexicographic order of their ranks, quadruples of
\* integers that no two elements share.
ByRank(S, rk) == {q \in S \X S : LexLess(rk[q[1]], rk[q[2]])}
Ranks(S, rk) == /\ \A x \in S : \E a, b, c, e \in Int : rk[x] = <<a, b, c, e>>
                /\ \A x, y \in S : rk[x] = rk[y] => x = y
Ranks3(S, rk) == /\ \A x \in S : \E a, b, c \in Int : rk[x] = <<a, b, c>>
                 /\ \A x, y \in S : rk[x] = rk[y] => x = y

\* Ranks of four numbers that differ order a set strictly.
LEMMA RankOrder ==
    ASSUME NEW S, NEW rk, Ranks(S, rk)
    PROVE  StrictOrder(S, ByRank(S, rk))
<1> DEFINE R == ByRank(S, rk)
<1>1. \A x, y \in S : <<x, y>> \in R <=> LexLess(rk[x], rk[y])
    BY DEF ByRank
<1> HIDE DEF R
<1>2. ASSUME NEW x \in S, NEW y \in S PROVE x = y \/ <<x, y>> \in R \/ <<y, x>> \in R
  <2>1. PICK a, b, c, e \in Int : rk[x] = <<a, b, c, e>>
    BY DEF Ranks
  <2>2. PICK a2, b2, c2, e2 \in Int : rk[y] = <<a2, b2, c2, e2>>
    BY DEF Ranks
  <2>3. x = y \/ a # a2 \/ b # b2 \/ c # c2 \/ e # e2
    BY <2>1, <2>2 DEF Ranks
  <2>4. x = y \/ LexLess(rk[x], rk[y]) \/ LexLess(rk[y], rk[x])
    BY <2>1, <2>2, <2>3, Lex4
  <2> QED BY <1>1, <2>4
<1>3. ASSUME NEW x \in S PROVE <<x, x>> \notin R
  <2>1. PICK a, b, c, e \in Int : rk[x] = <<a, b, c, e>>
    BY DEF Ranks
  <2>2. ~LexLess(rk[x], rk[x])
    BY <2>1, Lex4
  <2> QED BY <1>1, <2>2
<1>4. ASSUME NEW x \in S, NEW y \in S, NEW z \in S, <<x, y>> \in R, <<y, z>> \in R PROVE <<x, z>> \in R
  <2>1. PICK a, b, c, e \in Int : rk[x] = <<a, b, c, e>>
    BY DEF Ranks
  <2>2. PICK a2, b2, c2, e2 \in Int : rk[y] = <<a2, b2, c2, e2>>
    BY DEF Ranks
  <2>3. PICK a3, b3, c3, e3 \in Int : rk[z] = <<a3, b3, c3, e3>>
    BY DEF Ranks
  <2>4. a < a2 \/ (a = a2 /\ (b < b2 \/ (b = b2 /\ (c < c2 \/ (c = c2 /\ e < e2)))))
    BY <1>1, <1>4, <2>1, <2>2, Lex4
  <2>5. a2 < a3 \/ (a2 = a3 /\ (b2 < b3 \/ (b2 = b3 /\ (c2 < c3 \/ (c2 = c3 /\ e2 < e3)))))
    BY <1>1, <1>4, <2>2, <2>3, Lex4
  <2>6. a < a3 \/ (a = a3 /\ (b < b3 \/ (b = b3 /\ (c < c3 \/ (c = c3 /\ e < e3)))))
    BY <2>4, <2>5
  <2> QED BY <1>1, <2>1, <2>3, <2>6, Lex4
<1>5. StrictOrder(S, R)
    BY <1>2, <1>3, <1>4 DEF StrictOrder
<1> QED BY <1>5 DEF R

\* The same for ranks of three numbers.
LEMMA RankOrder3 ==
    ASSUME NEW S, NEW rk, Ranks3(S, rk)
    PROVE  StrictOrder(S, ByRank(S, rk))
<1> DEFINE R == ByRank(S, rk)
<1>1. \A x, y \in S : <<x, y>> \in R <=> LexLess(rk[x], rk[y])
    BY DEF ByRank
<1> HIDE DEF R
<1>2. ASSUME NEW x \in S, NEW y \in S PROVE x = y \/ <<x, y>> \in R \/ <<y, x>> \in R
  <2>1. PICK a, b, c \in Int : rk[x] = <<a, b, c>>
    BY DEF Ranks3
  <2>2. PICK a2, b2, c2 \in Int : rk[y] = <<a2, b2, c2>>
    BY DEF Ranks3
  <2>3. x = y \/ a # a2 \/ b # b2 \/ c # c2
    BY <2>1, <2>2 DEF Ranks3
  <2>4. x = y \/ LexLess(rk[x], rk[y]) \/ LexLess(rk[y], rk[x])
    BY <2>1, <2>2, <2>3, Lex3
  <2> QED BY <1>1, <2>4
<1>3. ASSUME NEW x \in S PROVE <<x, x>> \notin R
  <2>1. PICK a, b, c \in Int : rk[x] = <<a, b, c>>
    BY DEF Ranks3
  <2>2. ~LexLess(rk[x], rk[x])
    BY <2>1, Lex3
  <2> QED BY <1>1, <2>2
<1>4. ASSUME NEW x \in S, NEW y \in S, NEW z \in S, <<x, y>> \in R, <<y, z>> \in R PROVE <<x, z>> \in R
  <2>1. PICK a, b, c \in Int : rk[x] = <<a, b, c>>
    BY DEF Ranks3
  <2>2. PICK a2, b2, c2 \in Int : rk[y] = <<a2, b2, c2>>
    BY DEF Ranks3
  <2>3. PICK a3, b3, c3 \in Int : rk[z] = <<a3, b3, c3>>
    BY DEF Ranks3
  <2>4. a < a2 \/ (a = a2 /\ (b < b2 \/ (b = b2 /\ c < c2)))
    BY <1>1, <1>4, <2>1, <2>2, Lex3
  <2>5. a2 < a3 \/ (a2 = a3 /\ (b2 < b3 \/ (b2 = b3 /\ c2 < c3)))
    BY <1>1, <1>4, <2>2, <2>3, Lex3
  <2>6. a < a3 \/ (a = a3 /\ (b < b3 \/ (b = b3 /\ c < c3)))
    BY <2>4, <2>5
  <2> QED BY <1>1, <2>1, <2>3, <2>6, Lex3
<1>5. StrictOrder(S, R)
    BY <1>2, <1>3, <1>4 DEF StrictOrder
<1> QED BY <1>5 DEF R


-----------------------------------------------------------------------------
(* Extremes and sums *)

\* The larger of two numbers.
LEMMA MaxOfTwo ==
    ASSUME NEW a \in Int, NEW b \in Int
    PROVE  Max({a, b}) \in Int /\ Max({a, b}) >= a /\ Max({a, b}) >= b /\ Max({a, b}) \in {a, b}
<1>1. \E x \in {a, b} : \A y \in {a, b} : x >= y
  <2>1. CASE a >= b
    BY <2>1
  <2>2. CASE ~(a >= b)
    BY <2>2
  <2> QED BY <2>1, <2>2
<1>2. Max({a, b}) \in {a, b} /\ \A y \in {a, b} : Max({a, b}) >= y
    BY <1>1 DEF Max
<1> QED BY <1>2

\* A finite set of integers has a largest element.
LEMMA MaxOfFinite ==
    ASSUME NEW S, IsFiniteSet(S), S \subseteq Int, S # {}
    PROVE  Max(S) \in S /\ \A x \in S : Max(S) >= x
<1> DEFINE Has(T) == \E x \in T : \A y \in T : x >= y
           Bad == {T \in SUBSET S : T # {} /\ ~Has(T)}
<1>1. Bad = {}
  <2>1. SUFFICES ASSUME Bad # {} PROVE FALSE
    OBVIOUS
  <2>2. PICK T \in Bad : \A x \in T : T \ {x} \notin Bad
    BY <2>1, SmallestSubset
  <2>3. T \in SUBSET S /\ T # {} /\ ~Has(T)
    OBVIOUS
  <2>4. PICK x \in T : TRUE
    BY <2>3
  <2>5. T \ {x} = {} \/ Has(T \ {x})
    BY <2>2, <2>3
  <2>6. CASE T \ {x} = {}
    <3>1. \A y \in T : y = x
      BY <2>6
    <3>2. x \in Int
      BY <2>3
    <3> QED BY <2>3, <3>1, <3>2
  <2>7. CASE Has(T \ {x})
    <3>1. PICK z \in T \ {x} : \A y \in T \ {x} : z >= y
      BY <2>7
    <3>2. z \in Int /\ x \in Int /\ \A y \in T : y \in Int
      BY <2>3
    <3>3. CASE z >= x
      <4>1. \A y \in T : z >= y
        BY <3>1, <3>3
      <4> QED BY <2>3, <3>1, <4>1
    <3>4. CASE ~(z >= x)
      <4>1. \A y \in T : x >= y
        BY <3>1, <3>2, <3>4
      <4> QED BY <2>3, <4>1
    <3> QED BY <3>3, <3>4
  <2> QED BY <2>5, <2>6, <2>7
<1>2. S \in SUBSET S
    OBVIOUS
<1>3. Has(S)
    BY <1>1, <1>2
<1> QED BY <1>3 DEF Max

\* A set of naturals has a least element.
LEMMA MinOfNat ==
    ASSUME NEW S, S \subseteq Nat, S # {}
    PROVE  Min(S) \in S /\ \A x \in S : Min(S) <= x
<1>1. \E x \in S : \A y \in S : x <= y
    BY LeastNatural
<1> QED BY <1>1 DEF Min

\* The sum of a function is a total.
LEMMA SumIsTotal ==
    ASSUME NEW f, NEW S, IsFiniteSet(S)
    PROVE  IsTotal(SumFunctionOnSet(f, S), S, f)
<1> DEFINE Raw(it) == [s \in SUBSET S |-> IF s = {} THEN 0
              ELSE LET x == CHOOSE y \in s : TRUE IN f[x] + it[s \ {x}]]
           it == CHOOSE g : g = Raw(g)
<1>1. SumFunctionOnSet(f, S) = it[S]
    BY DEF SumFunctionOnSet, FoldFunctionOnSet, MapThenFoldSet
<1>2. PICK sum : IsSum(sum, S, AnyOf(S), f)
    BY AnyOfPicks, SumExists
<1>3. ASSUME NEW g PROVE Raw(g) = SumOf(g, S, AnyOf(S), f)
  <2>1. ASSUME NEW s \in SUBSET S PROVE Raw(g)[s] = SumOf(g, S, AnyOf(S), f)[s]
    <3>1. AnyOf(S)[s] = CHOOSE y \in s : TRUE
      BY DEF AnyOf
    <3>2. CASE s = {}
      BY <3>2 DEF SumOf
    <3>3. CASE s # {}
      BY <3>1, <3>3 DEF SumOf
    <3> QED BY <3>2, <3>3
  <2>2. Raw(g) = [s \in SUBSET S |-> Raw(g)[s]]
    OBVIOUS
  <2>3. SumOf(g, S, AnyOf(S), f) = [s \in SUBSET S |-> SumOf(g, S, AnyOf(S), f)[s]]
    BY DEF SumOf
  <2> HIDE DEF Raw
  <2> QED BY <2>1, <2>2, <2>3
<1>4. \E g : g = Raw(g)
    BY <1>2, <1>3 DEF IsSum
<1>5. it = Raw(it)
    BY <1>4
<1>6. IsSum(it, S, AnyOf(S), f)
    BY <1>3, <1>5 DEF IsSum
<1> HIDE DEF it
<1> QED BY <1>1, <1>6 DEF IsTotal

\* A sum of naturals is a natural.
LEMMA SumIsNat ==
    ASSUME NEW f, NEW S, IsFiniteSet(S), \A x \in S : f[x] \in Nat
    PROVE  SumFunctionOnSet(f, S) \in Nat
BY SumIsTotal, TotalNat


\* A nonempty sequence has a first element.
LEMMA EmptySeq ==
    ASSUME NEW T, NEW s \in Seq(T)
    PROVE  s # <<>> => Len(s) \in Nat \ {0}
OBVIOUS

\* What a function makes of a finite set is finite.
LEMMA ImageFinite ==
    ASSUME NEW S, IsFiniteSet(S), NEW f
    PROVE  IsFiniteSet({f[x] : x \in S})
<1> DEFINE Im(T) == {f[x] : x \in T}
           Bad == {T \in SUBSET S : ~IsFiniteSet(Im(T))}
<1>1. Bad = {}
  <2>1. SUFFICES ASSUME Bad # {} PROVE FALSE
    OBVIOUS
  <2>2. PICK T \in Bad : \A x \in T : T \ {x} \notin Bad
    BY <2>1, SmallestSubset
  <2>3. T \in SUBSET S /\ ~IsFiniteSet(Im(T))
    OBVIOUS
  <2>4. T # {}
    <3>1. Im({}) = {} /\ IsFiniteSet({})
      BY FS_EmptySet
    <3> QED BY <2>3, <3>1
  <2>5. PICK x \in T : TRUE
    BY <2>4
  <2>6. IsFiniteSet(Im(T \ {x}))
    BY <2>2, <2>3
  <2>7. Im(T) = Im(T \ {x}) \cup {f[x]}
    OBVIOUS
  <2>8. IsFiniteSet(Im(T \ {x}) \cup {f[x]})
    <3> DEFINE I == Im(T \ {x})
    <3>1. IsFiniteSet(I)
      BY <2>6
    <3> HIDE DEF I
    <3>2. IsFiniteSet(I \cup {f[x]})
      BY <3>1, FS_AddElement
    <3> QED BY <3>2 DEF I
  <2> QED BY <2>3, <2>7, <2>8
<1>2. S \in SUBSET S
    OBVIOUS
<1> QED BY <1>1, <1>2


-----------------------------------------------------------------------------
(* Numbers of the catalogue, the nodes and the policies *)

\* A variant has an id of its own, files, and sizes that are naturals.
LEMMA VariantFacts ==
    ASSUME NEW p \in Profiles, NEW v \in Variants(p)
    PROVE  /\ v.id \in Nat \ {0} /\ VariantOf(p, v.id) = v
           /\ ToSet(v.artifacts) \in SUBSET Artifacts /\ ConcreteModel(v) \in Artifacts
           /\ ProfileMemory(v) \in Nat /\ ProfileDisk(v) \in Nat
<1>1. /\ v.id \in Nat \ {0} /\ v.needs \in ResourceCounts
      /\ v.artifacts \in Seq(Artifacts) /\ v.artifacts # <<>>
    BY CatalogueConstants DEF Variants
<1>2. VariantOf(p, v.id) = v
  <2>1. ASSUME NEW w \in Variants(p), w.id = v.id PROVE w = v
    <3>1. PICK i \in DOMAIN Catalogue[p] : v = Catalogue[p][i]
      BY DEF Variants, ToSet
    <3>2. PICK j \in DOMAIN Catalogue[p] : w = Catalogue[p][j]
      BY DEF Variants, ToSet
    <3>3. i = j
      BY <2>1, <3>1, <3>2, CatalogueConstants
    <3> QED BY <3>1, <3>2, <3>3
  <2> QED BY <2>1 DEF VariantOf
<1>3. DOMAIN v.artifacts = 1..Len(v.artifacts) /\ Len(v.artifacts) \in Nat \ {0}
    BY <1>1, EmptySeq
<1>4. ToSet(v.artifacts) \in SUBSET Artifacts /\ ConcreteModel(v) \in Artifacts
    BY <1>1, <1>3 DEF ToSet, ConcreteModel
<1>5. IsFiniteSet(ToSet(v.artifacts)) /\ \A a \in ToSet(v.artifacts) : SizeOf[a] \in Nat
    BY <1>4, CatalogueConstants, FS_Subset
<1>6. SumFunctionOnSet(SizeOf, ToSet(v.artifacts)) \in Nat
    BY <1>5, SumIsNat
<1>7. ProfileMemory(v) \in Nat /\ ProfileDisk(v) \in Nat
    BY <1>1, <1>6 DEF ProfileMemory, ProfileDisk, ResourceCounts
<1> QED BY <1>1, <1>2, <1>4, <1>7

\* What a node announced.
LEMMA NodeFacts ==
    ASSUME NEW n \in Nodes
    PROVE  NodeMemory(n) \in Nat /\ Hardware[n].budget.disk \in Nat /\ NodePlacementBudget(n) \in Int
<1>1. NodeMemory(n) \in Nat /\ Hardware[n].budget.disk \in Nat
    BY PlanConstants DEF ResourceCounts, NodeMemory
<1>2. NodeMemory(n) \in Int /\ Hardware[n].budget.disk \in Int
    BY <1>1
<1>3. Max({NodeMemory(n), Hardware[n].budget.disk}) \in Int
    BY ONLY <1>2, MaxOfTwo
<1> QED BY <1>1, <1>3 DEF NodePlacementBudget

\* A profile has finitely many variants, one at least.
LEMMA CatalogueFacts ==
    ASSUME NEW p \in Profiles
    PROVE  /\ Len(Catalogue[p]) \in Nat \ {0} /\ DOMAIN Catalogue[p] = 1..Len(Catalogue[p])
           /\ \A i \in DOMAIN Catalogue[p] : Catalogue[p][i] \in Variants(p)
           /\ IsFiniteSet(Variants(p)) /\ Variants(p) # {}
<1>1. Catalogue[p] \in Seq(ToSet(Catalogue[p])) /\ Catalogue[p] # <<>>
    BY CatalogueConstants
<1>2. Len(Catalogue[p]) \in Nat \ {0} /\ DOMAIN Catalogue[p] = 1..Len(Catalogue[p])
    BY <1>1, EmptySeq
<1>3. \A i \in DOMAIN Catalogue[p] : Catalogue[p][i] \in Variants(p)
    BY DEF Variants, ToSet
<1>4. Variants(p) = {Catalogue[p][i] : i \in 1..Len(Catalogue[p])}
    BY <1>2 DEF Variants, ToSet
<1>5. IsFiniteSet(Variants(p))
  <2>1. IsFiniteSet(1..Len(Catalogue[p]))
    BY <1>2, FS_Interval
  <2> QED BY <1>4, <2>1, ImageFinite
<1> QED BY <1>2, <1>3, <1>5

\* The size that ranks a profile.
LEMMA SizeFact ==
    ASSUME NEW p \in Profiles
    PROVE  ProfileSize(p) \in Int
<1> DEFINE S == {ProfileMemory(v) + ProfileDisk(v) : v \in Variants(p)}
           f == [v \in Variants(p) |-> ProfileMemory(v) + ProfileDisk(v)]
<1>1. S = {f[v] : v \in Variants(p)}
    OBVIOUS
<1>2. IsFiniteSet(S)
  <2> HIDE DEF f, S
  <2> QED BY <1>1, CatalogueFacts, ImageFinite
<1>3. S \subseteq Int /\ S # {}
    BY CatalogueFacts, VariantFacts
<1> HIDE DEF S
<1>4. Max(S) \in Int
    BY <1>2, <1>3, MaxOfFinite
<1> QED BY <1>4 DEF S, ProfileSize


\* The tasks that a demand counts are numbers.
LEMMA DemandFacts ==
    ASSUME NEW d, IsFiniteSet(DOMAIN d.task), NEW p
    PROVE  /\ \A back \in Int : SmoothedDemand(d, p, back) \in Int
           /\ Demand(d, p) \in Int /\ CooldownDemand(d, p) \in Int
<1>1. \A T : T \subseteq DOMAIN d.task => IsFiniteSet(T) /\ Cardinality(T) \in Int
  <2>1. ASSUME NEW T, T \subseteq DOMAIN d.task PROVE IsFiniteSet(T) /\ Cardinality(T) \in Int
    <3>1. IsFiniteSet(T)
      BY <2>1, FS_Subset
    <3>2. Cardinality(T) \in Nat
      BY <3>1, FS_CardinalityType
    <3> QED BY <3>1, <3>2
  <2> QED BY <2>1
<1>2. ASSUME NEW a \in Int, NEW b \in Nat \ {0} PROVE CeilDiv(a, b) \in Int
    BY DEF CeilDiv
<1>3. 4 * Buckets \in Nat \ {0}
    BY PlanConstants
<1>4. ASSUME NEW back \in Int PROVE SmoothedDemand(d, p, back) \in Int
  <2> DEFINE recent == Recent(d, p, back)
             f == [t \in recent |-> (d.task[t].age - back) \div BucketSize]
             active == {(d.task[t].age - back) \div BucketSize : t \in recent}
  <2>1. recent \subseteq DOMAIN d.task
    BY DEF Recent
  <2>2. active = {f[t] : t \in recent}
    OBVIOUS
  <2>3. IsFiniteSet(recent) /\ Cardinality(recent) \in Int
    BY <1>1, <2>1
  <2>4. IsFiniteSet(active)
    <3> HIDE DEF f, recent, active
    <3> QED BY <2>2, <2>3, ImageFinite
  <2>5. Cardinality(active) \in Int
    <3> HIDE DEF active
    <3>1. Cardinality(active) \in Nat
      BY <2>4, FS_CardinalityType
    <3> QED BY <3>1
  <2>6. SmoothedDemand(d, p, back) = CeilDiv(Cardinality(recent) * Cardinality(active), 4 * Buckets)
    BY DEF SmoothedDemand
  <2> HIDE DEF recent, active
  <2>7. Cardinality(recent) * Cardinality(active) \in Int
    BY <2>3, <2>5
  <2> QED BY <1>2, <1>3, <2>6, <2>7
<1>5. Demand(d, p) \in Int
  <2>1. SmoothedDemand(d, p, 0) \in Int
    BY <1>4
  <2>2. \A status : WithStatus(d, p, status) \in Int
    BY <1>1 DEF WithStatus
  <2> QED BY <2>1, <2>2 DEF Demand
<1>6. CooldownDemand(d, p) \in Int
  <2>1. SmoothedDemand(d, p, Cooldown) \in Int /\ RecentlyFinished(d, p) \in Int
    <3>1. Cooldown \in Int
      BY PlanConstants
    <3>2. RecentlyFinished(d, p) \in Int
      BY <1>1 DEF RecentlyFinished
    <3> QED BY <1>4, <3>1, <3>2
  <2>2. Max({SmoothedDemand(d, p, Cooldown), RecentlyFinished(d, p)}) \in Int
    BY ONLY <2>1, MaxOfTwo
  <2> QED BY <2>2 DEF CooldownDemand
<1> QED BY <1>4, <1>5, <1>6

\* The counts that the phases work towards are numbers.
LEMMA CapacityFacts ==
    ASSUME NEW d, IsFiniteSet(DOMAIN d.task), NEW p, GoodPolicy(d.policy[p])
    PROVE  /\ EffectiveCapacity(d, p).warm \in Int /\ EffectiveCapacity(d, p).cached \in Int
           /\ EffectiveCapacity(d, p).minWarm \in Int /\ EffectiveCapacity(d, p).minCached \in Int
<1> DEFINE policy == d.policy[p]
<1>1. /\ policy.warm \in Int /\ policy.cached \in Int /\ policy.minWarm \in Int
      /\ policy.maxWarm \in Int /\ policy.minCached \in Int /\ policy.maxCached \in Int
    BY DEF GoodPolicy
<1>2. ASSUME NEW a \in Int, NEW b \in Int, NEW c \in Int PROVE ClampCount(a, b, c) \in Int
  <2>1. Max({a, b}) \in Int
    BY MaxOfTwo
  <2> QED BY <2>1 DEF ClampCount
<1> HIDE DEF policy
<1>3. CASE ~d.policy[p].auto
  <2>1. Max({policy.warm, policy.cached}) \in Int
    BY <1>1, MaxOfTwo
  <2>2. EffectiveCapacity(d, p) = FixedCapacity(policy)
    BY <1>3 DEF EffectiveCapacity, policy
  <2> QED BY <1>1, <2>1, <2>2 DEF FixedCapacity
<1>4. CASE d.policy[p].auto
  <2> DEFINE minWarm == IF policy.minWarm = 0 THEN policy.warm ELSE policy.minWarm
             floor == Max({policy.minCached, minWarm})
             minCached == IF floor = 0 THEN policy.cached ELSE floor
             warm == ClampCount(Max({Demand(d, p), CooldownDemand(d, p)}), minWarm, policy.maxWarm)
             cached == ClampCount(Max({warm, minCached}), minCached, policy.maxCached)
  <2>1. EffectiveCapacity(d, p)
          = [warm |-> warm, cached |-> Max({cached, warm}), minWarm |-> minWarm, minCached |-> minCached]
    BY <1>4 DEF EffectiveCapacity, AutoCapacity, policy
  <2>2. minWarm \in Int
    BY <1>1
  <2> HIDE DEF minWarm
  <2>3. floor \in Int
    BY <1>1, <2>2, MaxOfTwo
  <2> HIDE DEF floor
  <2>4. minCached \in Int
    BY <1>1, <2>3
  <2> HIDE DEF minCached
  <2>5. Max({Demand(d, p), CooldownDemand(d, p)}) \in Int
    BY DemandFacts, MaxOfTwo
  <2>6. warm \in Int
    BY <1>1, <1>2, <2>2, <2>5
  <2> HIDE DEF warm
  <2>7. Max({warm, minCached}) \in Int
    BY <2>4, <2>6, MaxOfTwo
  <2>8. cached \in Int
    BY <1>1, <1>2, <2>4, <2>7
  <2> HIDE DEF cached
  <2>9. Max({cached, warm}) \in Int
    BY <2>6, <2>8, MaxOfTwo
  <2> QED BY <2>1, <2>2, <2>4, <2>6, <2>9
<1> QED BY <1>3, <1>4


-----------------------------------------------------------------------------
(* Candidates, in their order *)

Fitting(d, p) ==
    {c \in AllCandidates(d, p) :
        NodeUsable(d, NodeOf[c.slot], d.policy[p]) /\ Fits(d, c.variant, c.slot)}

\* The candidates of a profile are finitely many, and each is a known slot with a
\* variant.
LEMMA CandidateFacts ==
    ASSUME NEW d, PlanDatabase(d), NEW p \in Profiles
    PROVE  /\ IsFiniteSet(AllCandidates(d, p))
           /\ \A c \in AllCandidates(d, p) :
                /\ c.slot \in KnownSlots(d) /\ c.slot \in Slots /\ c.variant \in Variants(p)
                /\ c.score \in Int /\ c.place \in DOMAIN Catalogue[p] /\ c.variant = Catalogue[p][c.place]
                /\ c = [slot |-> c.slot, variant |-> c.variant, place |-> c.place, score |-> c.score]
                /\ c.score = PlacementScore(d, p, c.slot, c.variant)
           /\ \A s \in KnownSlots(d), v \in Variants(p) :
                \E c \in AllCandidates(d, p) : c.slot = s /\ c.variant = v
<1> DEFINE K == KnownSlots(d)
           D == DOMAIN Catalogue[p]
           f == [q \in K \X D |-> [slot |-> q[1], variant |-> Catalogue[p][q[2]], place |-> q[2],
                                   score |-> PlacementScore(d, p, q[1], Catalogue[p][q[2]])]]
<1>1. IsFiniteSet(K) /\ K \subseteq Slots
    BY PlanConstants, FS_Subset DEF KnownSlots
<1>2. IsFiniteSet(D)
    BY CatalogueFacts, FS_Interval
<1>3. IsFiniteSet(K \X D)
  <2> HIDE DEF K, D
  <2> QED BY <1>1, <1>2, FS_Product
<1>4. AllCandidates(d, p) = {f[q] : q \in K \X D}
  <2>1. \A c : c \in AllCandidates(d, p) => \E q \in K \X D : c = f[q]
    <3>1. SUFFICES ASSUME NEW c \in AllCandidates(d, p) PROVE \E q \in K \X D : c = f[q]
      OBVIOUS
    <3>2. PICK s \in K, i \in D :
             c = [slot |-> s, variant |-> Catalogue[p][i], place |-> i,
                  score |-> PlacementScore(d, p, s, Catalogue[p][i])]
      BY DEF AllCandidates
    <3>3. <<s, i>> \in K \X D /\ c = f[<<s, i>>]
      BY <3>2
    <3> HIDE DEF f
    <3> QED BY <3>3
  <2>2. \A q \in K \X D : f[q] \in AllCandidates(d, p)
    BY DEF AllCandidates
  <2> HIDE DEF f
  <2> QED BY <2>1, <2>2
<1>5. IsFiniteSet(AllCandidates(d, p))
  <2> HIDE DEF f, K, D
  <2> QED BY <1>3, <1>4, ImageFinite
<1>6. ASSUME NEW s \in K, NEW i \in D
      PROVE  PlacementScore(d, p, s, Catalogue[p][i]) \in Int
  <2>1. NodePlacementBudget(NodeOf[s]) \in Int
    BY <1>1, PlanConstants, NodeFacts
  <2>2. d.slot[s].failures \in Nat
    BY <1>1 DEF PlanDatabase
  <2> QED BY <2>1, <2>2 DEF PlacementScore
<1>7. ASSUME NEW c \in AllCandidates(d, p)
      PROVE  /\ c.slot \in K /\ c.slot \in Slots /\ c.variant \in Variants(p)
             /\ c.score \in Int /\ c.place \in D /\ c.variant = Catalogue[p][c.place]
             /\ c = [slot |-> c.slot, variant |-> c.variant, place |-> c.place, score |-> c.score]
             /\ c.score = PlacementScore(d, p, c.slot, c.variant)
  <2>1. PICK s \in K, i \in D :
           c = [slot |-> s, variant |-> Catalogue[p][i], place |-> i,
                score |-> PlacementScore(d, p, s, Catalogue[p][i])]
    BY DEF AllCandidates
  <2>2. Catalogue[p][i] \in Variants(p) /\ s \in Slots
    BY <1>1, CatalogueFacts
  <2> QED BY <1>6, <2>1, <2>2
<1>8. ASSUME NEW s \in K, NEW v \in Variants(p)
      PROVE  \E c \in AllCandidates(d, p) : c.slot = s /\ c.variant = v
  <2>1. PICK i \in D : v = Catalogue[p][i]
    BY DEF Variants, ToSet
  <2>2. f[<<s, i>>].slot = s /\ f[<<s, i>>].variant = v /\ <<s, i>> \in K \X D
    BY <2>1
  <2> QED BY <1>4, <2>2
<1> QED BY <1>5, <1>7, <1>8

\* seq lists the elements of S, all of them.
Enumerates(seq, S) ==
    /\ \E n \in Nat : DOMAIN seq = 1..n
    /\ \A k \in DOMAIN seq : seq[k] \in S
    /\ \A x \in S : \E k \in DOMAIN seq : seq[k] = x

\* A list in an order holds every element and no other.
LEMMA ListsEnumerate ==
    ASSUME NEW S, IsFiniteSet(S), NEW R, StrictOrder(S, R), NEW seq, Lists(seq, S, R)
    PROVE  Enumerates(seq, S)
BY ListsAll DEF Enumerates

\* The order of the planner's candidates and the order of the explainer's.
CandidateOrder(S) == ByRank(S, [c \in S |-> <<-c.score, c.slot, c.place>>])
ExplainOrder(S) == ByRank(S, [c \in S |-> <<-c.score, c.slot, c.variant.id>>])

\* A candidate is known by its slot and the place of its variant, or the variant's id.
LEMMA CandidateNamed ==
    ASSUME NEW d, PlanDatabase(d), NEW p \in Profiles, NEW c \in AllCandidates(d, p), NEW e \in AllCandidates(d, p),
           c.slot = e.slot, c.place = e.place \/ c.variant.id = e.variant.id
    PROVE  c = e
<1>1. /\ c.place \in DOMAIN Catalogue[p] /\ c.variant = Catalogue[p][c.place]
      /\ e.place \in DOMAIN Catalogue[p] /\ e.variant = Catalogue[p][e.place]
    BY CandidateFacts
<1>2. c.place = e.place
    BY <1>1, CatalogueConstants
<1>3. c.variant = e.variant
    BY <1>1, <1>2
<1>4. c.score = e.score
    BY <1>3, CandidateFacts
<1>5. /\ c = [slot |-> c.slot, variant |-> c.variant, place |-> c.place, score |-> c.score]
      /\ e = [slot |-> e.slot, variant |-> e.variant, place |-> e.place, score |-> e.score]
    BY CandidateFacts
<1> QED BY <1>2, <1>3, <1>4, <1>5

\* placementCandidates lists the candidates that fit in the first order.
LEMMA CandidatesListed ==
    ASSUME NEW d, PlanDatabase(d), NEW p \in Profiles
    PROVE  /\ Fitting(d, p) \subseteq AllCandidates(d, p) /\ IsFiniteSet(Fitting(d, p))
           /\ StrictOrder(Fitting(d, p), CandidateOrder(Fitting(d, p)))
           /\ Lists(PlacementCandidates(d, p), Fitting(d, p), CandidateOrder(Fitting(d, p)))
<1> DEFINE S == Fitting(d, p)
           rk == [c \in S |-> <<-c.score, c.slot, c.place>>]
           R == ByRank(S, rk)
           seq == PlacementCandidates(d, p)
<1>1. S \subseteq AllCandidates(d, p) /\ IsFiniteSet(S)
  <2>1. S \subseteq AllCandidates(d, p)
    BY DEF Fitting
  <2> HIDE DEF S
  <2> QED BY <2>1, CandidateFacts, FS_Subset
<1>2. Ranks3(S, rk)
  <2>1. ASSUME NEW c \in S PROVE \E x, y, z \in Int : rk[c] = <<x, y, z>>
    <3>1. c.score \in Int /\ c.slot \in Slots /\ c.place \in DOMAIN Catalogue[p]
      BY <1>1, CandidateFacts
    <3>2. -c.score \in Int /\ c.slot \in Int /\ c.place \in Int
      BY <3>1, PlanConstants, CatalogueFacts
    <3>3. rk[c] = <<-c.score, c.slot, c.place>>
      OBVIOUS
    <3> HIDE DEF rk
    <3> QED BY <3>2, <3>3
  <2>2. ASSUME NEW c \in S, NEW e \in S, rk[c] = rk[e] PROVE c = e
    <3>1. c \in AllCandidates(d, p) /\ e \in AllCandidates(d, p)
      BY <1>1
    <3>2. c.slot = e.slot /\ c.place = e.place
      BY <2>2
    <3> HIDE DEF S, rk
    <3> QED BY <3>1, <3>2, CandidateNamed
  <2> HIDE DEF rk, S
  <2> QED BY <2>1, <2>2 DEF Ranks3
<1>3. StrictOrder(S, R)
  <2> HIDE DEF rk, S
  <2> QED BY <1>2, RankOrder3
<1>4. \A x \in S : {y \in S : LexLess(<<-y.score, y.slot, y.place>>, <<-x.score, x.slot, x.place>>)} = Below(S, R, x)
    BY DEF ByRank, Below
<1>5. seq = [k \in 1..Cardinality(S) |-> CHOOSE x \in S :
                Cardinality({y \in S : LexLess(<<-y.score, y.slot, y.place>>, <<-x.score, x.slot, x.place>>)}) = k - 1]
    BY DEF PlacementCandidates, Sorted, Fitting
<1>6. R = CandidateOrder(S)
    BY DEF CandidateOrder
<1> HIDE DEF S, R, rk
<1>7. ASSUME NEW k \in 1..Cardinality(S)
      PROVE  seq[k] \in S /\ Cardinality(Below(S, R, seq[k])) = k - 1
  <2>1. \E x \in S : Cardinality(Below(S, R, x)) = k - 1
    BY <1>1, <1>3, RankExists
  <2>2. \E x \in S : Cardinality({y \in S : LexLess(<<-y.score, y.slot, y.place>>, <<-x.score, x.slot, x.place>>)}) = k - 1
    BY <1>4, <2>1
  <2>3. /\ seq[k] \in S
        /\ Cardinality({y \in S : LexLess(<<-y.score, y.slot, y.place>>,
                                          <<-seq[k].score, seq[k].slot, seq[k].place>>)}) = k - 1
    BY <1>5, <2>2
  <2> QED BY <1>4, <2>3
<1>8. seq = [k \in 1..Cardinality(S) |-> seq[k]]
    BY <1>5
<1> HIDE DEF seq
<1>9. Lists(seq, S, R)
    BY <1>7, <1>8 DEF Lists
<1> QED BY <1>1, <1>3, <1>6, <1>9 DEF seq, S

\* The candidates of a plan are all that fit.
LEMMA CandidatesAre ==
    ASSUME NEW d, PlanDatabase(d), NEW p \in Profiles
    PROVE  Enumerates(PlacementCandidates(d, p), Fitting(d, p))
BY CandidatesListed, ListsEnumerate

\* A function on 1..n is a sequence.
LEMMA IsASeq ==
    ASSUME NEW T, NEW n \in Nat, NEW s, s = [k \in 1..n |-> s[k]], \A k \in 1..n : s[k] \in T
    PROVE  s \in Seq(T)
<1>1. s \in [1..n -> T]
    OBVIOUS
<1> QED BY <1>1


-----------------------------------------------------------------------------
(* The policy items and the phases of a plan *)

PlannedProfiles(d) == {p \in Profiles : d.version[p] > 0 /\ d.policy[p] # NoPolicy}
ItemSet(d) == {PolicyItem(d, p, FALSE) : p \in PlannedProfiles(d)}

\* What the planner knows of a policy.
LEMMA ItemFacts ==
    ASSUME NEW d, PlanDatabase(d), NEW item \in ItemSet(d)
    PROVE  /\ item.profile \in PlannedProfiles(d) /\ item.profile \in Profiles
           /\ item = PolicyItem(d, item.profile, FALSE)
           /\ item.policy = d.policy[item.profile] /\ GoodPolicy(item.policy)
           /\ item.capacity.warm \in Int /\ item.capacity.cached \in Int
           /\ item.capacity.minWarm \in Int /\ item.capacity.minCached \in Int
           /\ Enumerates(item.candidates, Fitting(d, item.profile))
           /\ item.scarcity \in Int /\ item.size \in Int /\ item.demand \in Int
<1>1. PICK p \in PlannedProfiles(d) : item = PolicyItem(d, p, FALSE)
    BY DEF ItemSet
<1>2. p \in Profiles /\ GoodPolicy(d.policy[p]) /\ IsFiniteSet(DOMAIN d.task)
    BY DEF PlannedProfiles, PlanDatabase
<1>3. /\ item.profile = p /\ item.policy = d.policy[p] /\ item.capacity = EffectiveCapacity(d, p)
      /\ item.candidates = PlacementCandidates(d, p) /\ item.scarcity = Scarcity(d, p)
      /\ item.size = ProfileSize(p) /\ item.demand = IF d.policy[p].auto THEN Demand(d, p) ELSE 0
    BY <1>1 DEF PolicyItem
<1>4. Enumerates(item.candidates, Fitting(d, p))
    BY <1>2, <1>3, CandidatesAre
<1>5. item.scarcity \in Int
  <2> DEFINE C == PlacementCandidates(d, p)
             nodes == {NodeOf[c.slot] : c \in ToSet(C)}
  <2>1. nodes \subseteq Nodes
    <3>1. \A c \in Fitting(d, p) : c.slot \in Slots
      BY <1>2, CandidateFacts DEF Fitting
    <3>2. \A c \in ToSet(C) : c \in Fitting(d, p)
      BY <1>3, <1>4 DEF ToSet, Enumerates
    <3> QED BY <3>1, <3>2, PlanConstants
  <2>2. IsFiniteSet(nodes)
    <3> HIDE DEF nodes
    <3> QED BY <2>1, PlanConstants, FS_Subset
  <2>3. Cardinality(nodes) \in Int
    <3> HIDE DEF nodes
    <3>1. Cardinality(nodes) \in Nat
      BY <2>2, FS_CardinalityType
    <3> QED BY <3>1
  <2>4. Scarcity(d, p) = IF nodes = {} THEN 1073741824 ELSE Cardinality(nodes)
    BY DEF Scarcity
  <2> HIDE DEF nodes
  <2> QED BY <1>3, <2>3, <2>4
<1>6. item.size \in Int /\ item.demand \in Int
    BY <1>2, <1>3, SizeFact, DemandFacts
<1>7. /\ item.capacity.warm \in Int /\ item.capacity.cached \in Int
      /\ item.capacity.minWarm \in Int /\ item.capacity.minCached \in Int
    BY <1>2, <1>3, CapacityFacts
<1> QED BY <1>1, <1>2, <1>3, <1>4, <1>5, <1>6, <1>7

\* Every planned profile has an item, and the items are finitely many.
LEMMA ItemsAre ==
    ASSUME NEW d, PlanDatabase(d)
    PROVE  Enumerates(PolicyItems(d, FALSE), ItemSet(d)) /\ IsFiniteSet(ItemSet(d))
<1> DEFINE S == PlannedProfiles(d)
           order == Ascending(S)
           items == PolicyItems(d, FALSE)
           f == [p \in S |-> PolicyItem(d, p, FALSE)]
<1>1. IsFiniteSet(S) /\ S \subseteq Int
    BY PlanConstants, FS_Subset DEF PlannedProfiles
<1>2. /\ Cardinality(S) \in Nat /\ DOMAIN order = 1..Cardinality(S)
      /\ \A k \in DOMAIN order : order[k] \in S
      /\ \A x \in S : \E k \in DOMAIN order : order[k] = x
  <2> HIDE DEF S
  <2> QED BY <1>1, AscendingIs
<1>3. items = [i \in DOMAIN order |-> PolicyItem(d, order[i], FALSE)]
    BY DEF PolicyItems, PlannedProfiles
<1>4. ItemSet(d) = {f[p] : p \in S}
    BY DEF ItemSet
<1>5. IsFiniteSet(ItemSet(d))
  <2> HIDE DEF S, f
  <2>1. IsFiniteSet({f[p] : p \in S})
    BY <1>1, ImageFinite
  <2> QED BY <1>4, <2>1
<1>6. \A k \in DOMAIN items : items[k] \in ItemSet(d)
    BY <1>2, <1>3 DEF ItemSet
<1>7. ASSUME NEW x \in ItemSet(d) PROVE \E k \in DOMAIN items : items[k] = x
  <2>1. PICK p \in S : x = PolicyItem(d, p, FALSE)
    BY DEF ItemSet
  <2>2. PICK k \in DOMAIN order : order[k] = p
    BY <1>2
  <2> HIDE DEF order, items
  <2> QED BY <1>3, <2>1, <2>2
<1>8. DOMAIN items = 1..Cardinality(S)
    BY <1>2, <1>3
<1> HIDE DEF items, S
<1>9. Enumerates(items, ItemSet(d))
    BY <1>2, <1>6, <1>7, <1>8 DEF Enumerates
<1> QED BY <1>5, <1>9 DEF items

\* The order of sortPolicyItems.
ItemKey(i, extras) == <<IF extras THEN -i.demand ELSE 0, i.scarcity, -i.size, i.profile>>
ItemOrder(S, extras) == ByRank(S, [i \in S |-> ItemKey(i, extras)])

\* sortPolicyItems lists a set of items with different profiles in this order.
LEMMA ItemsSorted ==
    ASSUME NEW S, IsFiniteSet(S),
           \A c \in S : c.demand \in Int /\ c.scarcity \in Int /\ c.size \in Int /\ c.profile \in Int,
           \A c, e \in S : c.profile = e.profile => c = e,
           NEW items, ToSet(items) = S, NEW extras \in BOOLEAN
    PROVE  /\ StrictOrder(S, ItemOrder(S, extras))
           /\ Lists(SortPolicyItems(items, extras), S, ItemOrder(S, extras))
<1> DEFINE rk == [i \in S |-> ItemKey(i, extras)]
           R == ByRank(S, rk)
           seq == SortPolicyItems(items, extras)
<1>1. R = ItemOrder(S, extras)
    BY DEF ItemOrder
<1>2. Ranks(S, rk)
  <2>1. ASSUME NEW c \in S PROVE \E w, x, y, z \in Int : rk[c] = <<w, x, y, z>>
    <3> DEFINE w == IF extras THEN -c.demand ELSE 0
    <3>1. w \in Int /\ c.scarcity \in Int /\ -c.size \in Int /\ c.profile \in Int
      OBVIOUS
    <3>2. rk[c] = <<w, c.scarcity, -c.size, c.profile>>
      BY DEF ItemKey
    <3> HIDE DEF rk, w
    <3> QED BY <3>1, <3>2
  <2>2. ASSUME NEW c \in S, NEW e \in S, rk[c] = rk[e] PROVE c = e
    <3>1. c.profile = e.profile
      BY <2>2 DEF ItemKey
    <3> QED BY <3>1
  <2> HIDE DEF rk
  <2> QED BY <2>1, <2>2 DEF Ranks
<1>3. StrictOrder(S, R)
  <2> HIDE DEF rk
  <2> QED BY <1>2, RankOrder
<1>4. \A x \in S : {y \in S : LexLess(ItemKey(y, extras), ItemKey(x, extras))} = Below(S, R, x)
    BY DEF ByRank, Below
<1>5. seq = [k \in 1..Cardinality(S) |-> CHOOSE x \in S :
                Cardinality({y \in S : LexLess(ItemKey(y, extras), ItemKey(x, extras))}) = k - 1]
    BY DEF SortPolicyItems, Sorted, ItemKey
<1> HIDE DEF R, rk
<1>6. ASSUME NEW k \in 1..Cardinality(S)
      PROVE  seq[k] \in S /\ Cardinality(Below(S, R, seq[k])) = k - 1
  <2>1. \E x \in S : Cardinality(Below(S, R, x)) = k - 1
    BY <1>3, RankExists
  <2>2. \E x \in S : Cardinality({y \in S : LexLess(ItemKey(y, extras), ItemKey(x, extras))}) = k - 1
    BY <1>4, <2>1
  <2>3. seq[k] \in S /\ Cardinality({y \in S : LexLess(ItemKey(y, extras), ItemKey(seq[k], extras))}) = k - 1
    BY <1>5, <2>2
  <2> QED BY <1>4, <2>3
<1>7. seq = [k \in 1..Cardinality(S) |-> seq[k]]
    BY <1>5
<1> HIDE DEF seq
<1>8. Lists(seq, S, R)
    BY <1>6, <1>7 DEF Lists
<1> QED BY <1>1, <1>3, <1>8 DEF seq

\* So they are, ranked for the minimum or for what demand asks.
LEMMA RankedItems ==
    ASSUME NEW d, PlanDatabase(d), NEW items, Enumerates(items, ItemSet(d)), NEW extras \in BOOLEAN
    PROVE  Enumerates(SortPolicyItems(items, extras), ItemSet(d))
<1> DEFINE S == ItemSet(d)
<1>1. IsFiniteSet(S) /\ ToSet(items) = S
    BY ItemsAre DEF Enumerates, ToSet
<1>2. ASSUME NEW c \in S PROVE c.demand \in Int /\ c.scarcity \in Int /\ c.size \in Int /\ c.profile \in Int
  <2>1. c.demand \in Int /\ c.scarcity \in Int /\ c.size \in Int /\ c.profile \in Profiles
    BY ItemFacts
  <2> QED BY <2>1, PlanConstants
<1>3. ASSUME NEW c \in S, NEW e \in S, c.profile = e.profile PROVE c = e
  <2>1. c = PolicyItem(d, c.profile, FALSE) /\ e = PolicyItem(d, e.profile, FALSE)
    BY ItemFacts
  <2> QED BY <1>3, <2>1
<1> HIDE DEF S
<1>4. StrictOrder(S, ItemOrder(S, extras)) /\ Lists(SortPolicyItems(items, extras), S, ItemOrder(S, extras))
    BY <1>1, <1>2, <1>3, ItemsSorted
<1>5. Enumerates(SortPolicyItems(items, extras), S)
    BY <1>1, <1>4, ListsEnumerate
<1> QED BY <1>5 DEF S

PhaseSet(d) == [item : ItemSet(d), warm : BOOLEAN, target : Int]

\* The phases are finitely many, each of an item and with a number as its target.
LEMMA PhasesAre ==
    ASSUME NEW d, PlanDatabase(d), NEW items, Enumerates(items, ItemSet(d))
    PROVE  \E n \in Nat : /\ DOMAIN Phases(items) = 1..n
                          /\ \A k \in 1..n : Phases(items)[k] \in PhaseSet(d)
<1> DEFINE ranked == SortPolicyItems(items, FALSE)
           wanted == SortPolicyItems(items, TRUE)
           a == [k \in DOMAIN ranked |-> Phase(ranked[k], TRUE, ranked[k].capacity.minWarm)]
           b == [k \in DOMAIN ranked |-> Phase(ranked[k], FALSE, ranked[k].capacity.minCached)]
           c == [k \in DOMAIN wanted |-> Phase(wanted[k], TRUE, wanted[k].capacity.warm)]
           e == [k \in DOMAIN wanted |-> Phase(wanted[k], FALSE, wanted[k].capacity.cached)]
<1>1. Enumerates(ranked, ItemSet(d)) /\ Enumerates(wanted, ItemSet(d))
    BY RankedItems
<1>2. \A k \in DOMAIN ranked : ranked[k] \in ItemSet(d)
    BY <1>1 DEF Enumerates
<1>3. \A k \in DOMAIN wanted : wanted[k] \in ItemSet(d)
    BY <1>1 DEF Enumerates
<1>4. PICK m \in Nat : DOMAIN ranked = 1..m
    BY <1>1 DEF Enumerates
<1>5. PICK w \in Nat : DOMAIN wanted = 1..w
    BY <1>1 DEF Enumerates
<1>6. Phases(items) = a \o b \o c \o e
    BY DEF Phases
<1> HIDE DEF ranked, wanted
<1>7. \A k \in 1..m : a[k] \in PhaseSet(d)
  <2>1. ASSUME NEW k \in 1..m PROVE a[k] \in PhaseSet(d)
    <3>1. ranked[k] \in ItemSet(d) /\ a[k] = Phase(ranked[k], TRUE, ranked[k].capacity.minWarm)
      BY <1>2, <1>4
    <3>2. ranked[k].capacity.minWarm \in Int
      BY <3>1, ItemFacts
    <3> HIDE DEF a
    <3> QED BY <3>1, <3>2 DEF PhaseSet, Phase
  <2> QED BY <2>1
<1>8. \A k \in 1..m : b[k] \in PhaseSet(d)
  <2>1. ASSUME NEW k \in 1..m PROVE b[k] \in PhaseSet(d)
    <3>1. ranked[k] \in ItemSet(d) /\ b[k] = Phase(ranked[k], FALSE, ranked[k].capacity.minCached)
      BY <1>2, <1>4
    <3>2. ranked[k].capacity.minCached \in Int
      BY <3>1, ItemFacts
    <3> HIDE DEF b
    <3> QED BY <3>1, <3>2 DEF PhaseSet, Phase
  <2> QED BY <2>1
<1>9. \A k \in 1..w : c[k] \in PhaseSet(d)
  <2>1. ASSUME NEW k \in 1..w PROVE c[k] \in PhaseSet(d)
    <3>1. wanted[k] \in ItemSet(d) /\ c[k] = Phase(wanted[k], TRUE, wanted[k].capacity.warm)
      BY <1>3, <1>5
    <3>2. wanted[k].capacity.warm \in Int
      BY <3>1, ItemFacts
    <3> HIDE DEF c
    <3> QED BY <3>1, <3>2 DEF PhaseSet, Phase
  <2> QED BY <2>1
<1>10. \A k \in 1..w : e[k] \in PhaseSet(d)
  <2>1. ASSUME NEW k \in 1..w PROVE e[k] \in PhaseSet(d)
    <3>1. wanted[k] \in ItemSet(d) /\ e[k] = Phase(wanted[k], FALSE, wanted[k].capacity.cached)
      BY <1>3, <1>5
    <3>2. wanted[k].capacity.cached \in Int
      BY <3>1, ItemFacts
    <3> HIDE DEF e
    <3> QED BY <3>1, <3>2 DEF PhaseSet, Phase
  <2> QED BY <2>1
<1>11. a = [k \in 1..m |-> a[k]] /\ b = [k \in 1..m |-> b[k]]
    BY <1>4
<1>12. c = [k \in 1..w |-> c[k]] /\ e = [k \in 1..w |-> e[k]]
    BY <1>5
<1> HIDE DEF a, b, c, e
<1>13. a \in Seq(PhaseSet(d)) /\ b \in Seq(PhaseSet(d)) /\ c \in Seq(PhaseSet(d)) /\ e \in Seq(PhaseSet(d))
  <2>1. a \in Seq(PhaseSet(d))
    BY <1>7, <1>11, IsASeq
  <2>2. b \in Seq(PhaseSet(d))
    BY <1>8, <1>11, IsASeq
  <2>3. c \in Seq(PhaseSet(d))
    BY <1>9, <1>12, IsASeq
  <2>4. e \in Seq(PhaseSet(d))
    BY <1>10, <1>12, IsASeq
  <2> QED BY <2>1, <2>2, <2>3, <2>4
<1>14. a \o b \o c \o e \in Seq(PhaseSet(d))
    BY <1>13
<1> DEFINE all == a \o b \o c \o e
<1>15. all \in Seq(PhaseSet(d))
    BY <1>14
<1> HIDE DEF all
<1>16. Len(all) \in Nat /\ DOMAIN all = 1..Len(all) /\ \A k \in 1..Len(all) : all[k] \in PhaseSet(d)
    BY <1>15
<1> QED BY <1>6, <1>16 DEF all


-----------------------------------------------------------------------------
(* The planner's tables *)

Places == {"slot", "cache", "missing"} \X Nat
PlanEntry(d) ==
    [profile : PlannedProfiles(d), node : Nodes \cup {0}, place : Places, variant : Nat,
     warm : BOOLEAN, actualCached : BOOLEAN, actualWarm : BOOLEAN, mismatch : BOOLEAN,
     draining : BOOLEAN]

\* A copy is on a slot of its node or in its cache, in a variant of its profile.
GoodEntry(a) ==
    /\ a.place[1] = "slot" => a.place[2] \in Slots /\ a.node = NodeOf[a.place[2]] /\ a.warm
    /\ a.place[1] = "cache" => a.node \in Nodes /\ ~a.warm
    /\ a.place[1] = "missing" => a.node = 0 /\ a.mismatch
    /\ a.node # 0 => \E v \in Variants(a.profile) : a.variant = v.id
Entries(d) == {a \in PlanEntry(d) : GoodEntry(a)}

PlannerState(d) ==
    [plan : Seq(Entries(d)), protected : SUBSET (Profiles \X Places), used : SUBSET Slots,
     warm : [Profiles -> Int], cached : [Profiles -> Int], missing : [Profiles -> Nat],
     memory : [Nodes -> Nat], disk : [Nodes -> Nat],
     nodeWarm : [Nodes -> SUBSET Profiles], nodeCache : [Nodes -> SUBSET Profiles],
     rejected : SUBSET {}]

\* The assignments that the planner adds.
LEMMA SlotEntry ==
    ASSUME NEW d, NEW p \in PlannedProfiles(d), NEW s \in Slots, NEW v \in Variants(p),
           NEW refused \in BOOLEAN
    PROVE  /\ AssignmentFromFit(d, p, s, v, refused) \in Entries(d)
           /\ AssignmentFromFit(d, p, s, v, refused).profile = p
           /\ AssignmentFromFit(d, p, s, v, refused).node = NodeOf[s]
           /\ AssignmentFromFit(d, p, s, v, refused).place = <<"slot", s>>
           /\ AssignmentFromFit(d, p, s, v, refused).variant = v.id
           /\ AssignmentFromFit(d, p, s, v, refused).warm
           /\ AssignmentFromFit(d, p, s, v, refused).mismatch = refused
<1> DEFINE a == AssignmentFromFit(d, p, s, v, refused)
           ac == SlotProfileCurrent(d, s, p, v) /\ d.slot[s].state \in {"cached", "warming", "ready", "serving"}
           aw == SlotProfileCurrent(d, s, p, v) /\ d.slot[s].state \in {"ready", "serving"}
<1>1. p \in Profiles
    BY DEF PlannedProfiles
<1>2. v.id \in Nat /\ NodeOf[s] \in Nodes /\ s \in Nat /\ NodeOf[s] # 0
    BY <1>1, VariantFacts, PlanConstants
<1>3. ac \in BOOLEAN /\ aw \in BOOLEAN
    OBVIOUS
<1>4. a = [profile |-> p, node |-> NodeOf[s], place |-> <<"slot", s>>, variant |-> v.id,
           warm |-> TRUE, actualCached |-> ac, actualWarm |-> aw, mismatch |-> refused, draining |-> FALSE]
    BY DEF AssignmentFromFit
<1> HIDE DEF a, ac, aw
<1>5. a \in PlanEntry(d)
    BY <1>2, <1>3, <1>4 DEF PlanEntry, Places
<1>6. /\ a.profile = p /\ a.node = NodeOf[s] /\ a.place = <<"slot", s>> /\ a.variant = v.id
      /\ a.warm = TRUE /\ a.mismatch = refused
    BY <1>4
<1>7. a.place[1] = "slot" /\ a.place[2] = s
    BY <1>6
<1>8. GoodEntry(a)
    BY <1>6, <1>7 DEF GoodEntry
<1>9. a \in Entries(d)
    BY <1>5, <1>8 DEF Entries
<1> QED BY <1>6, <1>9 DEF a

\* cacheAssignmentFromCandidate makes an entry of a plan, for the node of the
\* candidate.
LEMMA CacheEntry ==
    ASSUME NEW d, NEW p \in PlannedProfiles(d), NEW c, c.slot \in Slots, c.variant \in Variants(p)
    PROVE  /\ CacheAssignment(d, p, c) \in Entries(d)
           /\ CacheAssignment(d, p, c).profile = p /\ CacheAssignment(d, p, c).node = NodeOf[c.slot]
           /\ CacheAssignment(d, p, c).place = <<"cache", NodeOf[c.slot]>>
           /\ CacheAssignment(d, p, c).variant = c.variant.id
           /\ ~CacheAssignment(d, p, c).warm /\ ~CacheAssignment(d, p, c).mismatch
<1> DEFINE a == CacheAssignment(d, p, c)
           n == NodeOf[c.slot]
           ac == ToSet(c.variant.artifacts) \subseteq d.node[n].cached
<1>1. p \in Profiles
    BY DEF PlannedProfiles
<1>2. c.variant.id \in Nat /\ n \in Nodes /\ n \in Nat /\ n # 0
    BY <1>1, VariantFacts, PlanConstants
<1>3. ac \in BOOLEAN
    OBVIOUS
<1>4. a = [profile |-> p, node |-> n, place |-> <<"cache", n>>, variant |-> c.variant.id,
           warm |-> FALSE, actualCached |-> ac, actualWarm |-> FALSE, mismatch |-> FALSE, draining |-> FALSE]
    BY DEF CacheAssignment
<1> HIDE DEF a, ac, n
<1>5. a \in PlanEntry(d)
    BY <1>2, <1>3, <1>4 DEF PlanEntry, Places
<1>6. /\ a.profile = p /\ a.node = n /\ a.place = <<"cache", n>> /\ a.variant = c.variant.id
      /\ a.warm = FALSE /\ a.mismatch = FALSE
    BY <1>4
<1>7. a.place[1] = "cache"
    BY <1>6
<1>8. GoodEntry(a)
    BY <1>2, <1>6, <1>7 DEF GoodEntry
<1>9. a \in Entries(d)
    BY <1>5, <1>8 DEF Entries
<1> QED BY <1>6, <1>9 DEF a, n

\* missingPlacementAssignment makes an entry for no node.
LEMMA MissingEntry ==
    ASSUME NEW d, NEW p \in PlannedProfiles(d), NEW k \in Nat, NEW warm \in BOOLEAN
    PROVE  /\ MissingAssignment(p, k, warm) \in Entries(d)
           /\ MissingAssignment(p, k, warm).profile = p /\ MissingAssignment(p, k, warm).node = 0
           /\ MissingAssignment(p, k, warm).place = <<"missing", k>>
           /\ MissingAssignment(p, k, warm).warm = warm /\ MissingAssignment(p, k, warm).mismatch
<1> DEFINE a == MissingAssignment(p, k, warm)
<1>1. a = [profile |-> p, node |-> 0, place |-> <<"missing", k>>, variant |-> 0, warm |-> warm,
           actualCached |-> FALSE, actualWarm |-> FALSE, mismatch |-> TRUE, draining |-> FALSE]
    BY DEF MissingAssignment
<1> HIDE DEF a
<1>2. a \in PlanEntry(d)
    BY <1>1 DEF PlanEntry, Places
<1>3. /\ a.profile = p /\ a.node = 0 /\ a.place = <<"missing", k>> /\ a.warm = warm /\ a.mismatch = TRUE
    BY <1>1
<1>4. a.place[1] = "missing"
    BY <1>3
<1>5. GoodEntry(a)
    BY <1>3, <1>4 DEF GoodEntry
<1>6. a \in Entries(d)
    BY <1>2, <1>5 DEF Entries
<1> QED BY <1>3, <1>6 DEF a

\* st2 has one assignment more than st, and the same bookings.
Adds(st, st2, a) ==
    /\ st2.plan = Append(st.plan, a) /\ st2.used = st.used
    /\ st2.memory = st.memory /\ st2.disk = st.disk /\ st2.nodeCache = st.nodeCache

\* addAssignment, with what its callers note of protected and missing copies, makes
\* a planner's state with one entry more.
LEMMA AddFields ==
    ASSUME NEW d, NEW st \in PlannerState(d), NEW a \in Entries(d)
    PROVE  /\ Add(st, a) \in PlannerState(d) /\ Adds(st, Add(st, a), a)
           /\ \A q \in SUBSET (Profiles \X Places) :
                /\ [Add(st, a) EXCEPT !.protected = q] \in PlannerState(d)
                /\ Adds(st, [Add(st, a) EXCEPT !.protected = q], a)
           /\ \A q \in [Profiles -> Nat] :
                /\ [Add(st, a) EXCEPT !.missing = q] \in PlannerState(d)
                /\ Adds(st, [Add(st, a) EXCEPT !.missing = q], a)
<1>1. Append(st.plan, a) \in Seq(Entries(d))
  <2>1. st.plan \in Seq(Entries(d))
    BY DEF PlannerState
  <2> QED BY <2>1
<1>2. Add(st, a) = [st EXCEPT !.plan = Append(st.plan, a)]
    BY DEF Add
<1> DEFINE pl == Append(st.plan, a)
<1> HIDE DEF pl
<1>3. [st EXCEPT !.plan = pl] \in PlannerState(d)
    BY <1>1 DEF PlannerState, pl
<1>4. Adds(st, [st EXCEPT !.plan = pl], a)
    BY DEF PlannerState, Adds, pl
<1> DEFINE s1 == [st EXCEPT !.plan = pl]
<1> HIDE DEF s1
<1>5. s1 \in PlannerState(d) /\ Adds(st, s1, a)
    BY <1>3, <1>4 DEF s1
<1>6. ASSUME NEW q \in SUBSET (Profiles \X Places)
      PROVE  [s1 EXCEPT !.protected = q] \in PlannerState(d) /\ Adds(st, [s1 EXCEPT !.protected = q], a)
    BY <1>5 DEF PlannerState, Adds
<1>7. ASSUME NEW q \in [Profiles -> Nat]
      PROVE  [s1 EXCEPT !.missing = q] \in PlannerState(d) /\ Adds(st, [s1 EXCEPT !.missing = q], a)
    BY <1>5 DEF PlannerState, Adds
<1> QED BY <1>2, <1>5, <1>6, <1>7 DEF s1, pl


\* A copy that is missing is counted as if it were there.
LEMMA AddMissingFields ==
    ASSUME NEW d, NEW st \in PlannerState(d), NEW p \in PlannedProfiles(d), NEW warm \in BOOLEAN
    PROVE  LET a == MissingAssignment(p, st.missing[p], warm)
           IN  AddMissing(st, p, warm) \in PlannerState(d) /\ Adds(st, AddMissing(st, p, warm), a)
<1> DEFINE a == MissingAssignment(p, st.missing[p], warm)
           s1 == Add(st, a)
           m == [st.missing EXCEPT ![p] = @ + 1]
           c == [st.cached EXCEPT ![p] = @ + 1]
           w == [st.warm EXCEPT ![p] = @ + (IF warm THEN 1 ELSE 0)]
<1>1. p \in Profiles /\ st.missing[p] \in Nat
    BY DEF PlannedProfiles, PlannerState
<1>2. a \in Entries(d)
    BY <1>1, MissingEntry
<1>3. s1 \in PlannerState(d) /\ Adds(st, s1, a)
  <2> HIDE DEF a
  <2> QED BY <1>2, AddFields
<1>4. m \in [Profiles -> Nat] /\ c \in [Profiles -> Int] /\ w \in [Profiles -> Int]
    BY <1>1 DEF PlannerState
<1>5. s1.missing = st.missing /\ s1.cached = st.cached /\ s1.warm = st.warm
    BY DEF PlannerState, Add
<1>6. AddMissing(st, p, warm) = [s1 EXCEPT !.missing = m, !.cached = c, !.warm = w]
    BY <1>3, <1>5 DEF AddMissing, PlannerState
<1> HIDE DEF a, s1, m, c, w
<1>7. [s1 EXCEPT !.missing = m, !.cached = c, !.warm = w] \in PlannerState(d)
    BY <1>3, <1>4 DEF PlannerState
<1>8. Adds(st, [s1 EXCEPT !.missing = m, !.cached = c, !.warm = w], a)
    BY <1>3, <1>4 DEF PlannerState, Adds
<1> QED BY <1>6, <1>7, <1>8 DEF a

\* What a cached copy books.
LEMMA MarkCacheFields ==
    ASSUME NEW d, NEW st \in PlannerState(d), NEW p \in Profiles, NEW c, c.slot \in Slots, c.variant \in Variants(p)
    PROVE  LET n == NodeOf[c.slot]
               st2 == MarkCache(st, p, c)
           IN  /\ st2 \in PlannerState(d) /\ st2.plan = st.plan /\ st2.used = st.used /\ st2.memory = st.memory
               /\ st2.nodeCache = [st.nodeCache EXCEPT ![n] = @ \cup {p}]
               /\ st2.disk = IF p \in st.nodeCache[n] THEN st.disk
                             ELSE [st.disk EXCEPT ![n] = @ + ProfileDisk(c.variant)]
<1> DEFINE n == NodeOf[c.slot]
           X == [st.disk EXCEPT ![n] = @ + ProfileDisk(c.variant)]
           Y == [st.nodeCache EXCEPT ![n] = @ \cup {p}]
           Z == [st.cached EXCEPT ![p] = @ + 1]
<1>1. n \in Nodes /\ ProfileDisk(c.variant) \in Nat
    BY PlanConstants, VariantFacts
<1>2. X \in [Nodes -> Nat] /\ Y \in [Nodes -> SUBSET Profiles] /\ Z \in [Profiles -> Int]
    BY <1>1 DEF PlannerState
<1>3. CASE p \in st.nodeCache[n]
  <2>1. MarkCache(st, p, c) = st
    BY <1>3 DEF MarkCache
  <2>2. Y = st.nodeCache
    BY <1>1, <1>3 DEF PlannerState
  <2> QED BY <1>3, <2>1, <2>2
<1>4. CASE p \notin st.nodeCache[n]
  <2>1. MarkCache(st, p, c) = [st EXCEPT !.disk = X, !.nodeCache = Y, !.cached = Z]
    BY <1>4 DEF MarkCache, PlannerState
  <2> HIDE DEF X, Y, Z, n
  <2>2. [st EXCEPT !.disk = X, !.nodeCache = Y, !.cached = Z] \in PlannerState(d)
    BY <1>2 DEF PlannerState
  <2> DEFINE s2 == [st EXCEPT !.disk = X, !.nodeCache = Y, !.cached = Z]
  <2>3. /\ s2.plan = st.plan /\ s2.used = st.used /\ s2.memory = st.memory
        /\ s2.nodeCache = Y /\ s2.disk = X
    BY DEF PlannerState
  <2> HIDE DEF s2
  <2> QED BY <1>4, <2>1, <2>2, <2>3 DEF X, Y, s2, n
<1> QED BY <1>3, <1>4

\* What a warm copy books.
LEMMA MarkWarmFields ==
    ASSUME NEW d, NEW st \in PlannerState(d), NEW p \in Profiles, NEW c, c.slot \in Slots, c.variant \in Variants(p)
    PROVE  LET n == NodeOf[c.slot]
               st2 == MarkWarm(st, p, c)
           IN  /\ st2 \in PlannerState(d) /\ st2.plan = st.plan /\ st2.used = st.used \cup {c.slot}
               /\ st2.memory = [st.memory EXCEPT ![n] = @ + ProfileMemory(c.variant)]
               /\ st2.nodeCache = [st.nodeCache EXCEPT ![n] = @ \cup {p}]
               /\ st2.disk = IF p \in st.nodeCache[n] THEN st.disk
                             ELSE [st.disk EXCEPT ![n] = @ + ProfileDisk(c.variant)]
<1> DEFINE n == NodeOf[c.slot]
           U == st.used \cup {c.slot}
           X == [st.memory EXCEPT ![n] = @ + ProfileMemory(c.variant)]
           Y == [st.nodeWarm EXCEPT ![n] = @ \cup {p}]
           Z == [st.warm EXCEPT ![p] = @ + 1]
           s1 == [st EXCEPT !.used = U, !.memory = X, !.nodeWarm = Y, !.warm = Z]
<1>1. n \in Nodes /\ ProfileMemory(c.variant) \in Nat
    BY PlanConstants, VariantFacts
<1>2. X \in [Nodes -> Nat] /\ Y \in [Nodes -> SUBSET Profiles] /\ Z \in [Profiles -> Int] /\ U \in SUBSET Slots
    BY <1>1, SMTT(60) DEF PlannerState
<1>3. MarkWarm(st, p, c) = MarkCache(s1, p, c)
    BY DEF MarkWarm, PlannerState
<1> HIDE DEF U, X, Y, Z, n
<1>4. s1 \in PlannerState(d)
    BY <1>2 DEF PlannerState
<1>5. /\ s1.plan = st.plan /\ s1.used = U /\ s1.memory = X /\ s1.disk = st.disk
      /\ s1.nodeCache = st.nodeCache
    BY DEF PlannerState
<1> HIDE DEF s1
<1>6. LET st2 == MarkCache(s1, p, c)
      IN  /\ st2 \in PlannerState(d) /\ st2.plan = s1.plan /\ st2.used = s1.used /\ st2.memory = s1.memory
          /\ st2.nodeCache = [s1.nodeCache EXCEPT ![NodeOf[c.slot]] = @ \cup {p}]
          /\ st2.disk = IF p \in s1.nodeCache[NodeOf[c.slot]] THEN s1.disk
                        ELSE [s1.disk EXCEPT ![NodeOf[c.slot]] = @ + ProfileDisk(c.variant)]
    BY <1>4, MarkCacheFields
<1> QED BY <1>3, <1>5, <1>6 DEF U, X, n


-----------------------------------------------------------------------------
(* What a plan needs of a node, as it grows *)

\* plan2 is plan with a at its new place k.
IsNext(plan, plan2, a, k) ==
    /\ DOMAIN plan2 = DOMAIN plan \cup {k} /\ k \notin DOMAIN plan /\ plan2[k] = a
    /\ \A i \in DOMAIN plan : plan2[i] = plan[i]

\* The plans are of entries, and finite.
IsPlan(d, plan) == IsFiniteSet(DOMAIN plan) /\ \A i \in DOMAIN plan : plan[i] \in Entries(d)

\* An entry that is appended is the only new one.
LEMMA AppendIsNext ==
    ASSUME NEW d, NEW plan \in Seq(Entries(d)), NEW a \in Entries(d)
    PROVE  /\ IsPlan(d, plan) /\ IsPlan(d, Append(plan, a))
           /\ IsNext(plan, Append(plan, a), a, Len(plan) + 1)
<1>1. /\ Len(plan) \in Nat /\ DOMAIN plan = 1..Len(plan)
      /\ Append(plan, a) \in Seq(Entries(d)) /\ DOMAIN Append(plan, a) = 1..(Len(plan) + 1)
      /\ Append(plan, a)[Len(plan) + 1] = a
      /\ \A i \in 1..Len(plan) : Append(plan, a)[i] = plan[i]
    OBVIOUS
<1>2. IsFiniteSet(1..Len(plan)) /\ IsFiniteSet(1..(Len(plan) + 1))
    BY <1>1, FS_Interval
<1>3. IsPlan(d, plan) /\ IsPlan(d, Append(plan, a))
    BY <1>1, <1>2 DEF IsPlan
<1>4. 1..(Len(plan) + 1) = (1..Len(plan)) \cup {Len(plan) + 1} /\ Len(plan) + 1 \notin 1..Len(plan)
    BY <1>1
<1>5. IsNext(plan, Append(plan, a), a, Len(plan) + 1)
    BY <1>1, <1>4 DEF IsNext
<1> QED BY <1>3, <1>5

\* A copy is in a variant of its profile.
LEMMA CopyVariant ==
    ASSUME NEW d, NEW plan, IsPlan(d, plan), NEW n \in Nodes, NEW i \in Copies(plan, n)
    PROVE  /\ i \in DOMAIN plan /\ plan[i].profile \in Profiles
           /\ VariantAt(plan, i) \in Variants(plan[i].profile)
           /\ ProfileMemory(VariantAt(plan, i)) \in Nat /\ ProfileDisk(VariantAt(plan, i)) \in Nat
<1>1. i \in DOMAIN plan /\ plan[i] \in Entries(d) /\ plan[i].node = n
    BY DEF Copies, IsPlan
<1>2. plan[i].profile \in Profiles /\ GoodEntry(plan[i])
    BY <1>1 DEF Entries, PlanEntry, PlannedProfiles
<1>3. PICK v \in Variants(plan[i].profile) : plan[i].variant = v.id
    BY <1>1, <1>2, PlanConstants DEF GoodEntry
<1>4. VariantAt(plan, i) = v
    BY <1>2, <1>3, VariantFacts DEF VariantAt
<1> QED BY <1>1, <1>2, <1>4, VariantFacts

\* Copies and profiles of a node stay, and the new entry may be one more.
LEMMA CopiesGrow ==
    ASSUME NEW plan, NEW plan2, NEW a, NEW k, IsNext(plan, plan2, a, k), NEW n
    PROVE  /\ Copies(plan2, n) = Copies(plan, n) \cup IF a.node = n /\ ~a.mismatch THEN {k} ELSE {}
           /\ k \notin Copies(plan, n)
           /\ WarmCopies(plan2, n)
                = WarmCopies(plan, n) \cup IF a.node = n /\ ~a.mismatch /\ a.warm THEN {k} ELSE {}
           /\ Held(plan2, n) = Held(plan, n) \cup IF a.node = n /\ ~a.mismatch THEN {a.profile} ELSE {}
           /\ \A i \in Copies(plan, n) : VariantAt(plan2, i) = VariantAt(plan, i)
           /\ \A p : p # a.profile => DiskNeeds(plan2, n, p) = DiskNeeds(plan, n, p)
           /\ ~(a.node = n /\ ~a.mismatch) => DiskNeeds(plan2, n, a.profile) = DiskNeeds(plan, n, a.profile)
           /\ a.node = n /\ ~a.mismatch
                => DiskNeeds(plan2, n, a.profile)
                     = DiskNeeds(plan, n, a.profile) \cup {ProfileDisk(VariantOf(a.profile, a.variant))}
<1>1. Copies(plan2, n) = Copies(plan, n) \cup IF a.node = n /\ ~a.mismatch THEN {k} ELSE {}
    BY DEF Copies, IsNext
<1>2. k \notin Copies(plan, n) /\ \A i \in Copies(plan, n) : plan2[i] = plan[i]
    BY DEF Copies, IsNext
<1>3. plan2[k] = a
    BY DEF IsNext
<1>4. WarmCopies(plan2, n)
        = WarmCopies(plan, n) \cup IF a.node = n /\ ~a.mismatch /\ a.warm THEN {k} ELSE {}
    BY <1>1, <1>2, <1>3 DEF WarmCopies
<1>5. Held(plan2, n) = Held(plan, n) \cup IF a.node = n /\ ~a.mismatch THEN {a.profile} ELSE {}
    BY <1>1, <1>2, <1>3 DEF Held
<1>6. \A i \in Copies(plan, n) : VariantAt(plan2, i) = VariantAt(plan, i)
    BY <1>2 DEF VariantAt
<1>7. VariantAt(plan2, k) = VariantOf(a.profile, a.variant)
    BY <1>3 DEF VariantAt
<1> DEFINE Of(pl, p) == {i \in Copies(pl, n) : pl[i].profile = p}
<1>8. \A p : Of(plan2, p) = Of(plan, p) \cup IF a.node = n /\ ~a.mismatch /\ p = a.profile THEN {k} ELSE {}
    BY <1>1, <1>2, <1>3
<1>9. \A pl, p : DiskNeeds(pl, n, p) = {ProfileDisk(VariantAt(pl, i)) : i \in Of(pl, p)}
    BY DEF DiskNeeds
<1>10. \A p : \A i \in Of(plan, p) : VariantAt(plan2, i) = VariantAt(plan, i)
    BY <1>6
<1> HIDE DEF Of
<1>11. ASSUME NEW p, Of(plan2, p) = Of(plan, p) PROVE DiskNeeds(plan2, n, p) = DiskNeeds(plan, n, p)
  <2>1. \A i \in Of(plan, p) : ProfileDisk(VariantAt(plan2, i)) = ProfileDisk(VariantAt(plan, i))
    BY <1>10
  <2>2. {ProfileDisk(VariantAt(plan2, i)) : i \in Of(plan, p)} = {ProfileDisk(VariantAt(plan, i)) : i \in Of(plan, p)}
    BY <2>1
  <2>3. DiskNeeds(plan2, n, p) = {ProfileDisk(VariantAt(plan2, i)) : i \in Of(plan2, p)}
    BY <1>9
  <2>4. DiskNeeds(plan, n, p) = {ProfileDisk(VariantAt(plan, i)) : i \in Of(plan, p)}
    BY <1>9
  <2> QED BY <1>11, <2>2, <2>3, <2>4
<1>12. ASSUME a.node = n /\ ~a.mismatch
       PROVE  DiskNeeds(plan2, n, a.profile)
                = DiskNeeds(plan, n, a.profile) \cup {ProfileDisk(VariantOf(a.profile, a.variant))}
  <2>1. Of(plan2, a.profile) = Of(plan, a.profile) \cup {k}
    BY <1>8, <1>12
  <2> QED BY <1>7, <1>9, <1>10, <2>1
<1>13. \A p : p # a.profile => DiskNeeds(plan2, n, p) = DiskNeeds(plan, n, p)
    BY <1>8, <1>11
<1>14. ~(a.node = n /\ ~a.mismatch) => DiskNeeds(plan2, n, a.profile) = DiskNeeds(plan, n, a.profile)
    BY <1>8, <1>11
<1> QED BY <1>1, <1>2, <1>4, <1>5, <1>6, <1>12, <1>13, <1>14

\* The memory that a plan needs of a node is a number, and grows by the new copy.
MemoryOf(plan, n) == [i \in WarmCopies(plan, n) |-> ProfileMemory(VariantAt(plan, i))]

\* The memory of the warm copies on a node is a sum, and a number.
LEMMA MemoryTotal ==
    ASSUME NEW d, NEW plan, IsPlan(d, plan), NEW n \in Nodes
    PROVE  /\ IsFiniteSet(WarmCopies(plan, n)) /\ \A i \in WarmCopies(plan, n) : MemoryOf(plan, n)[i] \in Nat
           /\ IsTotal(MemoryUse(plan, n), WarmCopies(plan, n), MemoryOf(plan, n)) /\ MemoryUse(plan, n) \in Nat
<1> DEFINE S == WarmCopies(plan, n)
           h == MemoryOf(plan, n)
<1>1. S \subseteq DOMAIN plan /\ S \subseteq Copies(plan, n)
    BY DEF WarmCopies, Copies
<1>2. IsFiniteSet(S)
    BY <1>1, FS_Subset DEF IsPlan
<1>3. \A i \in S : h[i] \in Nat
    BY <1>1, CopyVariant DEF MemoryOf
<1>4. MemoryUse(plan, n) = SumFunctionOnSet(h, S)
    BY DEF MemoryUse, SumFunction, MemoryOf
<1>5. IsTotal(MemoryUse(plan, n), S, h)
    BY <1>2, <1>4, SumIsTotal
<1>6. MemoryUse(plan, n) \in Nat
    BY <1>2, <1>3, <1>4, SumIsNat
<1> QED BY <1>2, <1>3, <1>5, <1>6

\* A new entry adds the memory of its variant on its node if it is a warm copy there,
\* and nothing otherwise.
LEMMA MemoryGrows ==
    ASSUME NEW d, NEW plan, IsPlan(d, plan), NEW plan2, IsPlan(d, plan2), NEW a, NEW k,
           IsNext(plan, plan2, a, k), NEW n \in Nodes
    PROVE  MemoryUse(plan2, n) = MemoryUse(plan, n) +
              (IF a.node = n /\ ~a.mismatch /\ a.warm THEN ProfileMemory(VariantOf(a.profile, a.variant)) ELSE 0)
<1> DEFINE S == WarmCopies(plan, n)
           h == MemoryOf(plan, n)
           g == MemoryOf(plan2, n)
<1>1. /\ IsFiniteSet(S) /\ IsTotal(MemoryUse(plan, n), S, h) /\ MemoryUse(plan, n) \in Nat
    BY MemoryTotal
<1>2. /\ IsTotal(MemoryUse(plan2, n), WarmCopies(plan2, n), g)
      /\ \A i \in WarmCopies(plan2, n) : g[i] \in Nat
    BY MemoryTotal
<1>3. \A i \in S : g[i] = h[i]
  <2>1. \A i \in S : i \in Copies(plan, n) /\ i \in WarmCopies(plan2, n)
    BY CopiesGrow DEF WarmCopies
  <2>2. \A i \in S : VariantAt(plan2, i) = VariantAt(plan, i)
    BY <2>1, CopiesGrow
  <2> QED BY <2>1, <2>2 DEF MemoryOf
<1>4. CASE a.node = n /\ ~a.mismatch /\ a.warm
  <2>1. WarmCopies(plan2, n) = S \cup {k} /\ k \notin S
    BY <1>4, CopiesGrow DEF WarmCopies
  <2>2. g[k] = ProfileMemory(VariantOf(a.profile, a.variant))
    BY <2>1 DEF MemoryOf, VariantAt, IsNext
  <2>3. \A i \in S \cup {k} : g[i] \in Int
    BY <1>2, <2>1
  <2>4. IsTotal(MemoryUse(plan2, n), S \cup {k}, g)
    BY <1>2, <2>1
  <2> HIDE DEF S, h, g
  <2>5. MemoryUse(plan2, n) = MemoryUse(plan, n) + g[k]
    BY <1>1, <1>3, <2>1, <2>3, <2>4, TotalInsert
  <2> QED BY <1>4, <2>2, <2>5
<1>5. CASE ~(a.node = n /\ ~a.mismatch /\ a.warm)
  <2>1. WarmCopies(plan2, n) = S
    BY <1>5, CopiesGrow
  <2> HIDE DEF S, h, g
  <2>2. MemoryUse(plan, n) = MemoryUse(plan2, n)
    BY <1>1, <1>2, <1>3, <2>1, TotalSame
  <2> QED BY <1>1, <1>5, <2>2
<1> QED BY <1>4, <1>5


\* So is the disk, between the least and the most that its copies may need.
LEMMA NeedsFacts ==
    ASSUME NEW d, NEW plan, IsPlan(d, plan), NEW n \in Nodes, NEW p \in Held(plan, n)
    PROVE  /\ DiskNeeds(plan, n, p) \subseteq Nat /\ DiskNeeds(plan, n, p) # {} /\ IsFiniteSet(DiskNeeds(plan, n, p))
           /\ Min(DiskNeeds(plan, n, p)) \in DiskNeeds(plan, n, p) /\ Min(DiskNeeds(plan, n, p)) \in Nat
           /\ \A x \in DiskNeeds(plan, n, p) : Min(DiskNeeds(plan, n, p)) <= x
           /\ Max(DiskNeeds(plan, n, p)) \in DiskNeeds(plan, n, p) /\ Max(DiskNeeds(plan, n, p)) \in Nat
           /\ \A x \in DiskNeeds(plan, n, p) : Max(DiskNeeds(plan, n, p)) >= x
<1> DEFINE Of == {i \in Copies(plan, n) : plan[i].profile = p}
           f == [i \in Of |-> ProfileDisk(VariantAt(plan, i))]
           S == DiskNeeds(plan, n, p)
<1>1. S = {ProfileDisk(VariantAt(plan, i)) : i \in Of}
    BY DEF DiskNeeds
<1>2. S \subseteq Nat
    BY <1>1, CopyVariant
<1>3. S # {}
    BY <1>1 DEF Held
<1>4. IsFiniteSet(Of)
  <2>1. Of \subseteq DOMAIN plan
    BY DEF Copies
  <2> HIDE DEF Of
  <2> QED BY <2>1, FS_Subset DEF IsPlan
<1>5. S = {f[i] : i \in Of}
    BY <1>1
<1> HIDE DEF S, f, Of
<1>6. IsFiniteSet(S)
  <2>1. IsFiniteSet({f[i] : i \in Of})
    BY <1>4, ImageFinite
  <2> QED BY <1>5, <2>1
<1>7. Min(S) \in S /\ \A x \in S : Min(S) <= x
    BY <1>2, <1>3, MinOfNat
<1>8. S \subseteq Int
    BY <1>2
<1>9. Max(S) \in S /\ \A x \in S : Max(S) >= x
    BY <1>3, <1>6, <1>8, MaxOfFinite
<1>10. /\ S \subseteq Nat /\ S # {} /\ IsFiniteSet(S) /\ Min(S) \in S /\ Min(S) \in Nat
       /\ \A x \in S : Min(S) <= x
       /\ Max(S) \in S /\ Max(S) \in Nat /\ \A x \in S : Max(S) >= x
    BY <1>2, <1>3, <1>6, <1>7, <1>9
<1> QED BY <1>10 DEF S

LeastOf(plan, n) == [p \in Held(plan, n) |-> Min(DiskNeeds(plan, n, p))]
MostOf(plan, n) == [p \in Held(plan, n) |-> Max(DiskNeeds(plan, n, p))]

\* The least and the most disk that the profiles held by a node need are sums, and
\* numbers.
LEMMA DiskTotal ==
    ASSUME NEW d, NEW plan, IsPlan(d, plan), NEW n \in Nodes
    PROVE  /\ Held(plan, n) \subseteq Profiles /\ IsFiniteSet(Held(plan, n))
           /\ \A p \in Held(plan, n) : LeastOf(plan, n)[p] \in Nat /\ MostOf(plan, n)[p] \in Nat
           /\ IsTotal(LeastDisk(plan, n), Held(plan, n), LeastOf(plan, n)) /\ LeastDisk(plan, n) \in Nat
           /\ IsTotal(MostDisk(plan, n), Held(plan, n), MostOf(plan, n)) /\ MostDisk(plan, n) \in Nat
<1> DEFINE S == Held(plan, n)
<1>1. S \subseteq Profiles
    BY CopyVariant DEF Held
<1>2. IsFiniteSet(S)
    BY <1>1, PlanConstants, FS_Subset
<1>3. \A p \in S : LeastOf(plan, n)[p] \in Nat /\ MostOf(plan, n)[p] \in Nat
    BY NeedsFacts DEF LeastOf, MostOf
<1>4. LeastDisk(plan, n) = SumFunctionOnSet(LeastOf(plan, n), S)
    BY DEF LeastDisk, SumFunction, LeastOf
<1>5. MostDisk(plan, n) = SumFunctionOnSet(MostOf(plan, n), S)
    BY DEF MostDisk, SumFunction, MostOf
<1>6. IsTotal(LeastDisk(plan, n), S, LeastOf(plan, n)) /\ IsTotal(MostDisk(plan, n), S, MostOf(plan, n))
    BY <1>2, <1>4, <1>5, SumIsTotal
<1>7. LeastDisk(plan, n) \in Nat
    BY <1>2, <1>3, <1>4, SumIsNat
<1>8. MostDisk(plan, n) \in Nat
    BY <1>2, <1>3, <1>5, SumIsNat
<1> QED BY <1>1, <1>2, <1>3, <1>6, <1>7, <1>8

\* An entry that is no copy on the node changes nothing there; the first copy of a
\* profile adds its files; another moves the least down and the most up.
LEMMA DiskGrows ==
    ASSUME NEW d, NEW plan, IsPlan(d, plan), NEW plan2, IsPlan(d, plan2), NEW a, NEW k,
           IsNext(plan, plan2, a, k), NEW n \in Nodes
    PROVE  /\ ~(a.node = n /\ ~a.mismatch)
                => LeastDisk(plan2, n) = LeastDisk(plan, n) /\ MostDisk(plan2, n) = MostDisk(plan, n)
           /\ a.node = n /\ ~a.mismatch /\ a.profile \notin Held(plan, n)
                => LET x == ProfileDisk(VariantOf(a.profile, a.variant))
                   IN  LeastDisk(plan2, n) = LeastDisk(plan, n) + x /\ MostDisk(plan2, n) = MostDisk(plan, n) + x
           /\ a.node = n /\ ~a.mismatch /\ a.profile \in Held(plan, n)
                => LeastDisk(plan2, n) <= LeastDisk(plan, n) /\ MostDisk(plan, n) <= MostDisk(plan2, n)
<1> DEFINE S == Held(plan, n)
           S2 == Held(plan2, n)
           p == a.profile
           l == LeastOf(plan, n)
           l2 == LeastOf(plan2, n)
           m == MostOf(plan, n)
           m2 == MostOf(plan2, n)
<1>1. /\ IsFiniteSet(S) /\ \A q \in S : l[q] \in Int /\ m[q] \in Int
      /\ IsTotal(LeastDisk(plan, n), S, l) /\ IsTotal(MostDisk(plan, n), S, m)
    BY DiskTotal
<1>2. /\ IsFiniteSet(S2) /\ \A q \in S2 : l2[q] \in Int /\ m2[q] \in Int
      /\ IsTotal(LeastDisk(plan2, n), S2, l2) /\ IsTotal(MostDisk(plan2, n), S2, m2)
    BY DiskTotal
<1>3. S \subseteq S2 /\ \A q \in S : q # p => l2[q] = l[q] /\ m2[q] = m[q]
  <2>1. S \subseteq S2
    BY CopiesGrow
  <2>2. \A q \in S : q # p => DiskNeeds(plan2, n, q) = DiskNeeds(plan, n, q)
    BY CopiesGrow
  <2> QED BY <2>1, <2>2 DEF LeastOf, MostOf
<1>4. CASE ~(a.node = n /\ ~a.mismatch)
  <2>1. S2 = S /\ DiskNeeds(plan2, n, p) = DiskNeeds(plan, n, p)
    <3>1. S2 = S \cup IF a.node = n /\ ~a.mismatch THEN {a.profile} ELSE {}
      BY CopiesGrow
    <3>2. DiskNeeds(plan2, n, p) = DiskNeeds(plan, n, p)
      BY <1>4, CopiesGrow
    <3> QED BY <1>4, <3>1, <3>2
  <2>2. \A q \in S : l2[q] = l[q] /\ m2[q] = m[q]
    BY <1>3, <2>1 DEF LeastOf, MostOf
  <2> HIDE DEF S, S2, l, l2, m, m2, p
  <2>3. LeastDisk(plan, n) = LeastDisk(plan2, n)
    BY <1>1, <1>2, <2>1, <2>2, TotalSame
  <2>4. MostDisk(plan, n) = MostDisk(plan2, n)
    BY <1>1, <1>2, <2>1, <2>2, TotalSame
  <2> QED BY <1>4, <2>3, <2>4
<1>5. CASE a.node = n /\ ~a.mismatch /\ a.profile \notin Held(plan, n)
  <2> DEFINE x == ProfileDisk(VariantOf(a.profile, a.variant))
  <2>1. S2 = S \cup {p} /\ p \notin S /\ DiskNeeds(plan2, n, p) = DiskNeeds(plan, n, p) \cup {x}
    BY <1>5, CopiesGrow
  <2>2. DiskNeeds(plan, n, p) = {}
    BY <1>5 DEF DiskNeeds, Held
  <2>3. DiskNeeds(plan2, n, p) = {x}
    BY <2>1, <2>2
  <2>4. l2[p] = x /\ m2[p] = x
    <3>1. p \in Held(plan2, n)
      BY <2>1
    <3>2. Min(DiskNeeds(plan2, n, p)) = x /\ Max(DiskNeeds(plan2, n, p)) = x
      BY <2>3, <3>1, NeedsFacts
    <3> QED BY <3>1, <3>2 DEF LeastOf, MostOf
  <2>5. \A q \in S : l2[q] = l[q] /\ m2[q] = m[q]
    BY <1>3, <2>1
  <2>6. \A q \in S \cup {p} : l2[q] \in Int /\ m2[q] \in Int
    BY <1>2, <2>1
  <2>7. IsTotal(LeastDisk(plan2, n), S \cup {p}, l2) /\ IsTotal(MostDisk(plan2, n), S \cup {p}, m2)
    BY <1>2, <2>1
  <2> HIDE DEF S, S2, l, l2, m, m2, p, x
  <2>8. LeastDisk(plan2, n) = LeastDisk(plan, n) + l2[p]
    BY <1>1, <2>1, <2>5, <2>6, <2>7, TotalInsert
  <2>9. MostDisk(plan2, n) = MostDisk(plan, n) + m2[p]
    BY <1>1, <2>1, <2>5, <2>6, <2>7, TotalInsert
  <2> QED BY <1>5, <2>4, <2>8, <2>9 DEF x
<1>6. CASE a.node = n /\ ~a.mismatch /\ a.profile \in Held(plan, n)
  <2> DEFINE x == ProfileDisk(VariantOf(a.profile, a.variant))
  <2>1. S2 = S /\ p \in S /\ DiskNeeds(plan2, n, p) = DiskNeeds(plan, n, p) \cup {x}
    BY <1>6, CopiesGrow
  <2>2. l2[p] <= l[p] /\ m[p] <= m2[p]
    <3>1. p \in Held(plan2, n) /\ p \in Held(plan, n)
      BY <2>1
    <3>2. Min(DiskNeeds(plan, n, p)) \in DiskNeeds(plan2, n, p) /\ Max(DiskNeeds(plan, n, p)) \in DiskNeeds(plan2, n, p)
      BY <2>1, <3>1, NeedsFacts
    <3>3. Min(DiskNeeds(plan2, n, p)) <= Min(DiskNeeds(plan, n, p))
      BY <3>1, <3>2, NeedsFacts
    <3>4. Max(DiskNeeds(plan2, n, p)) >= Max(DiskNeeds(plan, n, p))
      BY <3>1, <3>2, NeedsFacts
    <3>5. Max(DiskNeeds(plan2, n, p)) \in Nat /\ Max(DiskNeeds(plan, n, p)) \in Nat
      BY <3>1, NeedsFacts
    <3>6. Max(DiskNeeds(plan, n, p)) <= Max(DiskNeeds(plan2, n, p))
      BY <3>4, <3>5
    <3> QED BY <3>1, <3>3, <3>6 DEF LeastOf, MostOf
  <2> HIDE DEF S, S2, l, l2, m, m2, p, x
  <2>3. \A q \in S : /\ l[q] \in Int /\ l2[q] \in Int /\ l2[q] <= l[q]
                     /\ m[q] \in Int /\ m2[q] \in Int /\ m[q] <= m2[q]
    BY <1>1, <1>2, <1>3, <2>1, <2>2
  <2>4. IsTotal(LeastDisk(plan2, n), S, l2) /\ IsTotal(MostDisk(plan2, n), S, m2)
    BY <1>2, <2>1
  <2>5. LeastDisk(plan2, n) <= LeastDisk(plan, n)
    BY <1>1, <2>3, <2>4, TotalLess
  <2>6. MostDisk(plan, n) <= MostDisk(plan2, n)
    BY <1>1, <2>3, <2>4, TotalLess
  <2> QED BY <1>6, <2>5, <2>6
<1> QED BY <1>4, <1>5, <1>6


-----------------------------------------------------------------------------
(* The bookings of the planner *)

SlotsUsed(plan) == {plan[i].place[2] : i \in {k \in DOMAIN plan : OnSlot(plan[k])}}
AllPinned(d, plan) == \A i \in DOMAIN plan : OnSlot(plan[i]) => IsPinned(d, plan[i])

\* No slot is left for a warm copy of p, by what is booked.
Refuses(d, st, p) ==
    \A s \in KnownSlots(d) : \A v \in Variants(p) :
        ~(/\ s \notin st.used
          /\ NodeUsable(d, NodeOf[s], d.policy[p]) /\ Fits(d, v, s)
          /\ SlotAvailableForWarm(d, s, p, v) /\ ~Suppressed(d, NodeOf[s])
          /\ ~(d.policy[p].maxWarmPerNode > 0) /\ ~(d.policy[p].maxCachedPerNode > 0)
          /\ FitsBudgets(NodeOf[s], st.memory[NodeOf[s]] + ProfileMemory(v), st.disk[NodeOf[s]] + ProfileDisk(v)))

BookedOn(st, n) ==
    /\ st.memory[n] = MemoryUse(st.plan, n) /\ st.nodeCache[n] = Held(st.plan, n)
    /\ LeastDisk(st.plan, n) <= st.disk[n] /\ st.disk[n] <= MostDisk(st.plan, n)
    /\ FitsBudgets(n, st.memory[n], st.disk[n])

\* The tables agree with the plan so far, and the plan is a good one.
Booked(d, st) ==
    /\ st.used = SlotsUsed(st.plan) /\ OneOwner(d, st.plan)
    /\ \A n \in Nodes : BookedOn(st, n)
    /\ \A p \in ShortOf(d, st.plan) : Refuses(d, st, p)

\* The slots that are taken, with the new entry.
LEMMA SlotsUsedGrow ==
    ASSUME NEW plan, NEW plan2, NEW a, NEW k, IsNext(plan, plan2, a, k)
    PROVE  SlotsUsed(plan2) = SlotsUsed(plan) \cup IF OnSlot(a) THEN {a.place[2]} ELSE {}
<1> DEFINE Of(pl) == {i \in DOMAIN pl : OnSlot(pl[i])}
<1>1. Of(plan2) = Of(plan) \cup IF OnSlot(a) THEN {k} ELSE {}
    BY DEF IsNext
<1>2. plan2[k] = a /\ \A i \in Of(plan) : plan2[i] = plan[i]
    BY DEF IsNext
<1>3. SlotsUsed(plan) = {plan[i].place[2] : i \in Of(plan)} /\ SlotsUsed(plan2) = {plan2[i].place[2] : i \in Of(plan2)}
    BY DEF SlotsUsed
<1> HIDE DEF Of
<1>4. {plan2[i].place[2] : i \in Of(plan)} = {plan[i].place[2] : i \in Of(plan)}
    BY <1>2
<1>5. CASE OnSlot(a)
  <2>1. Of(plan2) = Of(plan) \cup {k}
    BY <1>1, <1>5
  <2> QED BY <1>2, <1>3, <1>4, <1>5, <2>1
<1>6. CASE ~OnSlot(a)
  <2>1. Of(plan2) = Of(plan)
    BY <1>1, <1>6
  <2> QED BY <1>3, <1>4, <1>6, <2>1
<1> QED BY <1>5, <1>6

\* A new owner comes to a slot without one, or is one of the pins.
LEMMA OwnersGrow ==
    ASSUME NEW d, NEW plan, NEW plan2, NEW a, NEW k, IsNext(plan, plan2, a, k), OneOwner(d, plan),
           OnSlot(a) => a.place[2] \notin SlotsUsed(plan) \/ (AllPinned(d, plan) /\ IsPinned(d, a))
    PROVE  /\ OneOwner(d, plan2)
           /\ AllPinned(d, plan) /\ (OnSlot(a) => IsPinned(d, a)) => AllPinned(d, plan2)
<1>1. \A i \in DOMAIN plan2 : i = k \/ (i \in DOMAIN plan /\ plan2[i] = plan[i])
    BY DEF IsNext
<1>2. plan2[k] = a
    BY DEF IsNext
<1>3. ASSUME NEW i \in DOMAIN plan, OnSlot(plan[i]), OnSlot(a), plan[i].place = a.place
      PROVE  IsPinned(d, plan[i]) /\ IsPinned(d, a)
  <2>1. a.place[2] \in SlotsUsed(plan)
    BY <1>3 DEF SlotsUsed
  <2> QED BY <1>3, <2>1 DEF AllPinned
<1>4. OneOwner(d, plan2)
  <2>1. SUFFICES ASSUME NEW i \in DOMAIN plan2, NEW j \in DOMAIN plan2, OnSlot(plan2[i]), OnSlot(plan2[j]),
                        plan2[i].place = plan2[j].place, i # j
                 PROVE  IsPinned(d, plan2[i]) /\ IsPinned(d, plan2[j])
    BY DEF OneOwner
  <2>2. CASE i = k
    <3>1. j \in DOMAIN plan /\ plan2[j] = plan[j] /\ plan2[i] = a
      BY <1>1, <1>2, <2>1, <2>2
    <3> QED BY <1>3, <2>1, <3>1
  <2>3. CASE j = k
    <3>1. i \in DOMAIN plan /\ plan2[i] = plan[i] /\ plan2[j] = a
      BY <1>1, <1>2, <2>1, <2>3
    <3> QED BY <1>3, <2>1, <3>1
  <2>4. CASE i # k /\ j # k
    <3>1. i \in DOMAIN plan /\ plan2[i] = plan[i] /\ j \in DOMAIN plan /\ plan2[j] = plan[j]
      BY <1>1, <2>4
    <3> QED BY <2>1, <3>1 DEF OneOwner
  <2> QED BY <2>2, <2>3, <2>4
<1>5. AllPinned(d, plan) /\ (OnSlot(a) => IsPinned(d, a)) => AllPinned(d, plan2)
    BY <1>1, <1>2 DEF AllPinned
<1> QED BY <1>4, <1>5

\* Only a missing warm copy makes a profile short.
LEMMA ShortGrows ==
    ASSUME NEW d, NEW plan, NEW plan2, NEW a, NEW k, IsNext(plan, plan2, a, k), NEW p \in ShortOf(d, plan2)
    PROVE  \/ p \in ShortOf(d, plan)
           \/ /\ p = a.profile /\ a.warm /\ a.place[1] = "missing"
              /\ ToSet(d.policy[p].pins) \subseteq KnownSlots(d)
<1>1. p \in Profiles /\ ToSet(d.policy[p].pins) \subseteq KnownSlots(d)
    BY DEF ShortOf
<1>2. PICK i \in DOMAIN plan2 : plan2[i].profile = p /\ plan2[i].warm /\ plan2[i].place[1] = "missing"
    BY DEF ShortOf
<1>3. CASE i = k
    BY <1>1, <1>2, <1>3 DEF IsNext
<1>4. CASE i # k
  <2>1. i \in DOMAIN plan /\ plan2[i] = plan[i]
    BY <1>4 DEF IsNext
  <2> QED BY <1>1, <1>2, <2>1 DEF ShortOf
<1> QED BY <1>3, <1>4

\* A slot that was refused stays so, as more is booked.
LEMMA RefusesStays ==
    ASSUME NEW d, NEW st \in PlannerState(d), NEW st2 \in PlannerState(d), NEW p \in Profiles,
           Refuses(d, st, p), st.used \subseteq st2.used,
           \A n \in Nodes : st.memory[n] <= st2.memory[n] /\ st.disk[n] <= st2.disk[n]
    PROVE  Refuses(d, st2, p)
<1>1. SUFFICES ASSUME NEW s \in KnownSlots(d), NEW v \in Variants(p), s \notin st2.used,
                      NodeUsable(d, NodeOf[s], d.policy[p]), Fits(d, v, s),
                      SlotAvailableForWarm(d, s, p, v), ~Suppressed(d, NodeOf[s]),
                      ~(d.policy[p].maxWarmPerNode > 0), ~(d.policy[p].maxCachedPerNode > 0),
                      FitsBudgets(NodeOf[s], st2.memory[NodeOf[s]] + ProfileMemory(v),
                                  st2.disk[NodeOf[s]] + ProfileDisk(v))
               PROVE  FALSE
    BY DEF Refuses
<1> DEFINE n == NodeOf[s]
<1>2. n \in Nodes
    BY PlanConstants DEF KnownSlots
<1>3. /\ st.memory[n] \in Nat /\ st2.memory[n] \in Nat /\ st.disk[n] \in Nat /\ st2.disk[n] \in Nat
      /\ NodeMemory(n) \in Nat /\ Hardware[n].budget.disk \in Nat
      /\ ProfileMemory(v) \in Nat /\ ProfileDisk(v) \in Nat
    BY <1>2, NodeFacts, VariantFacts DEF PlannerState
<1>4. st.memory[n] <= st2.memory[n] /\ st.disk[n] <= st2.disk[n]
    BY <1>2
<1>5. FitsBudgets(n, st2.memory[n] + ProfileMemory(v), st2.disk[n] + ProfileDisk(v))
    BY <1>1
<1> HIDE DEF n
<1>6. FitsBudgets(n, st.memory[n] + ProfileMemory(v), st.disk[n] + ProfileDisk(v))
    BY <1>3, <1>4, <1>5 DEF FitsBudgets
<1>7. s \notin st.used
    BY <1>1
<1> QED BY <1>1, <1>6, <1>7 DEF Refuses, n


\* An entry that asks for nothing: a pin that is refused, or a copy that is missing
\* because no slot is left, or because its pin names no known slot.
LEMMA RefusedStep ==
    ASSUME NEW d, NEW st \in PlannerState(d), Booked(d, st), NEW st2 \in PlannerState(d),
           NEW a \in Entries(d), a.mismatch, Adds(st, st2, a),
           \/ ~(a.warm /\ a.place[1] = "missing") \/ Refuses(d, st, a.profile)
           \/ ~(ToSet(d.policy[a.profile].pins) \subseteq KnownSlots(d))
    PROVE  Booked(d, st2) /\ (AllPinned(d, st.plan) => AllPinned(d, st2.plan))
<1> DEFINE k == Len(st.plan) + 1
<1>1. /\ IsPlan(d, st.plan) /\ IsPlan(d, st2.plan) /\ IsNext(st.plan, st2.plan, a, k)
      /\ st.plan \in Seq(Entries(d))
  <2>1. st.plan \in Seq(Entries(d)) /\ st2.plan = Append(st.plan, a)
    BY DEF PlannerState, Adds
  <2> QED BY <2>1, AppendIsNext
<1> HIDE DEF k
<1>2. ~OnSlot(a)
    BY DEF OnSlot, Effective
<1>3. st2.used = SlotsUsed(st2.plan)
  <2>1. SlotsUsed(st2.plan) = SlotsUsed(st.plan) \cup IF OnSlot(a) THEN {a.place[2]} ELSE {}
    BY <1>1, SlotsUsedGrow
  <2>2. SlotsUsed(st2.plan) = SlotsUsed(st.plan)
    BY <1>2, <2>1
  <2> QED BY <2>2 DEF Booked, Adds
<1>4. OneOwner(d, st2.plan) /\ (AllPinned(d, st.plan) => AllPinned(d, st2.plan))
    BY <1>1, <1>2, OwnersGrow DEF Booked
<1>5. ASSUME NEW n \in Nodes PROVE BookedOn(st2, n)
  <2>1. BookedOn(st, n)
    BY DEF Booked
  <2>2. MemoryUse(st2.plan, n) = MemoryUse(st.plan, n)
    <3>1. MemoryUse(st.plan, n) \in Nat
      BY <1>1, MemoryTotal
    <3> QED BY <1>1, <3>1, MemoryGrows
  <2>3. LeastDisk(st2.plan, n) = LeastDisk(st.plan, n) /\ MostDisk(st2.plan, n) = MostDisk(st.plan, n)
    BY <1>1, DiskGrows
  <2>4. Held(st2.plan, n) = Held(st.plan, n)
    <3>1. Held(st2.plan, n) = Held(st.plan, n) \cup IF a.node = n /\ ~a.mismatch THEN {a.profile} ELSE {}
      BY <1>1, CopiesGrow
    <3> QED BY <3>1
  <2> QED BY <2>1, <2>2, <2>3, <2>4 DEF BookedOn, Adds
<1>6. ASSUME NEW p \in ShortOf(d, st2.plan) PROVE Refuses(d, st2, p)
  <2>1. \/ p \in ShortOf(d, st.plan)
        \/ /\ p = a.profile /\ a.warm /\ a.place[1] = "missing"
           /\ ToSet(d.policy[p].pins) \subseteq KnownSlots(d)
    BY <1>1, ShortGrows
  <2>2. Refuses(d, st, p)
    BY <2>1 DEF Booked
  <2>3. st2.used = st.used /\ st2.memory = st.memory /\ st2.disk = st.disk
    BY DEF Adds
  <2> QED BY <2>2, <2>3 DEF Refuses
<1> QED BY <1>3, <1>4, <1>5, <1>6 DEF Booked

\* What one more copy on node m does to the bookings of a node.
LEMMA CopyBooked ==
    ASSUME NEW d, NEW st \in PlannerState(d), NEW st2 \in PlannerState(d), NEW a \in Entries(d),
           NEW m \in Nodes, NEW v \in Variants(a.profile), a.node = m, a.variant = v.id, ~a.mismatch,
           st2.plan = Append(st.plan, a),
           st2.memory = [st.memory EXCEPT ![m] = @ + IF a.warm THEN ProfileMemory(v) ELSE 0],
           st2.nodeCache = [st.nodeCache EXCEPT ![m] = @ \cup {a.profile}],
           st2.disk = IF a.profile \in st.nodeCache[m] THEN st.disk
                      ELSE [st.disk EXCEPT ![m] = @ + ProfileDisk(v)],
           WithinDiskBudget(st, m, v), a.warm => WithinMemoryBudget(st, m, v),
           NEW n \in Nodes, BookedOn(st, n)
    PROVE  BookedOn(st2, n) /\ st.memory[n] <= st2.memory[n] /\ st.disk[n] <= st2.disk[n]
<1> DEFINE k == Len(st.plan) + 1
<1>1. IsPlan(d, st.plan) /\ IsPlan(d, st2.plan) /\ IsNext(st.plan, st2.plan, a, k)
  <2>1. st.plan \in Seq(Entries(d))
    BY DEF PlannerState
  <2> QED BY <2>1, AppendIsNext
<1> HIDE DEF k
<1>2. a.profile \in Profiles /\ VariantOf(a.profile, a.variant) = v
  <2>1. a.profile \in Profiles
    BY DEF Entries, PlanEntry, PlannedProfiles
  <2> QED BY <2>1, VariantFacts
<1>3. /\ ProfileMemory(v) \in Nat /\ ProfileDisk(v) \in Nat /\ st.memory[n] \in Nat /\ st.disk[n] \in Nat
      /\ NodeMemory(n) \in Nat /\ Hardware[n].budget.disk \in Nat
    BY <1>2, VariantFacts, NodeFacts DEF PlannerState
<1>4. /\ MemoryUse(st.plan, n) \in Nat /\ LeastDisk(st.plan, n) \in Nat /\ MostDisk(st.plan, n) \in Nat
      /\ LeastDisk(st2.plan, n) \in Nat /\ MostDisk(st2.plan, n) \in Nat
    BY <1>1, MemoryTotal, DiskTotal
<1>5. Held(st2.plan, n) = Held(st.plan, n) \cup IF m = n THEN {a.profile} ELSE {}
  <2>1. Held(st2.plan, n) = Held(st.plan, n) \cup IF a.node = n /\ ~a.mismatch THEN {a.profile} ELSE {}
    BY <1>1, CopiesGrow
  <2> QED BY <2>1
<1>6. MemoryUse(st2.plan, n) = MemoryUse(st.plan, n) + (IF m = n /\ a.warm THEN ProfileMemory(v) ELSE 0)
  <2>1. MemoryUse(st2.plan, n) = MemoryUse(st.plan, n) +
           (IF a.node = n /\ ~a.mismatch /\ a.warm THEN ProfileMemory(VariantOf(a.profile, a.variant)) ELSE 0)
    BY <1>1, MemoryGrows
  <2> QED BY <1>2, <2>1
<1>7. CASE m # n
  <2>1. st2.memory[n] = st.memory[n] /\ st2.nodeCache[n] = st.nodeCache[n] /\ st2.disk[n] = st.disk[n]
    BY <1>7 DEF PlannerState
  <2>2. LeastDisk(st2.plan, n) = LeastDisk(st.plan, n) /\ MostDisk(st2.plan, n) = MostDisk(st.plan, n)
    BY <1>1, <1>7, DiskGrows
  <2>3. MemoryUse(st2.plan, n) = MemoryUse(st.plan, n) /\ Held(st2.plan, n) = Held(st.plan, n)
    BY <1>4, <1>5, <1>6, <1>7
  <2> QED BY <1>3, <2>1, <2>2, <2>3 DEF BookedOn
<1>8. CASE m = n
  <2>1. /\ st2.memory[n] = st.memory[n] + (IF a.warm THEN ProfileMemory(v) ELSE 0)
        /\ st2.nodeCache[n] = st.nodeCache[n] \cup {a.profile}
        /\ st2.disk[n] = st.disk[n] + (IF a.profile \in st.nodeCache[n] THEN 0 ELSE ProfileDisk(v))
    BY <1>3, <1>8 DEF PlannerState
  <2>2. st2.memory[n] = MemoryUse(st2.plan, n) /\ st2.nodeCache[n] = Held(st2.plan, n)
    BY <1>3, <1>4, <1>5, <1>6, <1>8, <2>1 DEF BookedOn
  <2>3. st.memory[n] <= st2.memory[n] /\ st.disk[n] <= st2.disk[n]
    BY <1>3, <2>1
  <2>4. LeastDisk(st2.plan, n) <= st2.disk[n] /\ st2.disk[n] <= MostDisk(st2.plan, n)
    <3>1. LeastDisk(st.plan, n) <= st.disk[n] /\ st.disk[n] <= MostDisk(st.plan, n) /\ st.nodeCache[n] = Held(st.plan, n)
      BY DEF BookedOn
    <3>2. CASE a.profile \in Held(st.plan, n)
      <4>1. LeastDisk(st2.plan, n) <= LeastDisk(st.plan, n) /\ MostDisk(st.plan, n) <= MostDisk(st2.plan, n)
        BY <1>1, <1>8, <3>2, DiskGrows
      <4>2. st2.disk[n] = st.disk[n]
        BY <1>3, <2>1, <3>1, <3>2
      <4> QED BY <1>3, <1>4, <3>1, <4>1, <4>2
    <3>3. CASE a.profile \notin Held(st.plan, n)
      <4>1. /\ LeastDisk(st2.plan, n) = LeastDisk(st.plan, n) + ProfileDisk(v)
            /\ MostDisk(st2.plan, n) = MostDisk(st.plan, n) + ProfileDisk(v)
        BY <1>1, <1>2, <1>8, <3>3, DiskGrows
      <4>2. st2.disk[n] = st.disk[n] + ProfileDisk(v)
        BY <1>3, <2>1, <3>1, <3>3
      <4> QED BY <1>3, <1>4, <3>1, <4>1, <4>2
    <3> QED BY <3>2, <3>3
  <2>5. FitsBudgets(n, st2.memory[n], st2.disk[n])
    <3>1. NodeMemory(n) > 0 => st.memory[n] <= NodeMemory(n)
      BY DEF BookedOn, FitsBudgets
    <3>2. Hardware[n].budget.disk > 0 => st.disk[n] <= Hardware[n].budget.disk
      BY DEF BookedOn, FitsBudgets
    <3>3. NodeMemory(n) > 0 => st2.memory[n] <= NodeMemory(n)
      <4>1. a.warm /\ NodeMemory(n) > 0 /\ ProfileMemory(v) > 0 => st.memory[n] + ProfileMemory(v) <= NodeMemory(n)
        BY <1>8 DEF WithinMemoryBudget
      <4> QED BY <1>3, <2>1, <3>1, <4>1
    <3>4. Hardware[n].budget.disk > 0 => st2.disk[n] <= Hardware[n].budget.disk
      <4>1. Hardware[n].budget.disk > 0 => st.disk[n] + ProfileDisk(v) <= Hardware[n].budget.disk
        BY <1>8 DEF WithinDiskBudget
      <4> QED BY <1>3, <2>1, <3>2, <4>1
    <3> QED BY <3>3, <3>4 DEF FitsBudgets
  <2> QED BY <2>2, <2>3, <2>4, <2>5 DEF BookedOn
<1> QED BY <1>7, <1>8


\* A copy that the budgets allow, in a slot nobody has, in one that pins share, or in
\* the cache of a node.
LEMMA CopyStep ==
    ASSUME NEW d, NEW st \in PlannerState(d), Booked(d, st), NEW st2 \in PlannerState(d), NEW a \in Entries(d),
           NEW m \in Nodes, NEW v \in Variants(a.profile), a.node = m, a.variant = v.id, ~a.mismatch,
           a.place[1] # "missing", st2.plan = Append(st.plan, a),
           st2.used = st.used \cup IF OnSlot(a) THEN {a.place[2]} ELSE {},
           st2.memory = [st.memory EXCEPT ![m] = @ + IF a.warm THEN ProfileMemory(v) ELSE 0],
           st2.nodeCache = [st.nodeCache EXCEPT ![m] = @ \cup {a.profile}],
           st2.disk = IF a.profile \in st.nodeCache[m] THEN st.disk
                      ELSE [st.disk EXCEPT ![m] = @ + ProfileDisk(v)],
           WithinDiskBudget(st, m, v), a.warm => WithinMemoryBudget(st, m, v),
           OnSlot(a) => a.place[2] \notin st.used \/ (AllPinned(d, st.plan) /\ IsPinned(d, a))
    PROVE  /\ Booked(d, st2)
           /\ AllPinned(d, st.plan) /\ (OnSlot(a) => IsPinned(d, a)) => AllPinned(d, st2.plan)
<1> DEFINE k == Len(st.plan) + 1
<1>1. IsPlan(d, st.plan) /\ IsPlan(d, st2.plan) /\ IsNext(st.plan, st2.plan, a, k)
  <2>1. st.plan \in Seq(Entries(d))
    BY DEF PlannerState
  <2> QED BY <2>1, AppendIsNext
<1> HIDE DEF k
<1>2. st2.used = SlotsUsed(st2.plan)
  <2>1. SlotsUsed(st2.plan) = SlotsUsed(st.plan) \cup IF OnSlot(a) THEN {a.place[2]} ELSE {}
    BY <1>1, SlotsUsedGrow
  <2> QED BY <2>1 DEF Booked
<1>3. /\ OneOwner(d, st2.plan)
      /\ AllPinned(d, st.plan) /\ (OnSlot(a) => IsPinned(d, a)) => AllPinned(d, st2.plan)
  <2>1. OneOwner(d, st.plan) /\ (OnSlot(a) => a.place[2] \notin SlotsUsed(st.plan) \/ (AllPinned(d, st.plan) /\ IsPinned(d, a)))
    BY DEF Booked
  <2> QED BY <1>1, <2>1, OwnersGrow
<1>4. \A n \in Nodes : BookedOn(st2, n) /\ st.memory[n] <= st2.memory[n] /\ st.disk[n] <= st2.disk[n]
    BY CopyBooked DEF Booked
<1>5. ASSUME NEW p \in ShortOf(d, st2.plan) PROVE Refuses(d, st2, p)
  <2>1. p \in ShortOf(d, st.plan)
    BY <1>1, ShortGrows
  <2>2. Refuses(d, st, p) /\ p \in Profiles
    BY <2>1 DEF Booked, ShortOf
  <2>3. st.used \subseteq st2.used
    OBVIOUS
  <2> QED BY <1>4, <2>2, <2>3, RefusesStays
<1> QED BY <1>2, <1>3, <1>4, <1>5 DEF Booked

\* The entry of a warm copy that is not refused.
LEMMA SlotCopy ==
    ASSUME NEW d, NEW p \in PlannedProfiles(d), NEW s \in Slots, NEW v \in Variants(p),
           NEW refused \in BOOLEAN, ~refused
    PROVE  LET a == AssignmentFromFit(d, p, s, v, refused)
           IN  /\ a \in Entries(d) /\ a.profile = p /\ a.node = NodeOf[s] /\ a.place = <<"slot", s>>
               /\ a.variant = v.id /\ a.warm /\ ~a.mismatch
<1> DEFINE a == AssignmentFromFit(d, p, s, v, refused)
<1>1. a.mismatch = refused /\ a.warm = TRUE
    BY DEF AssignmentFromFit
<1>2. a \in Entries(d)
    BY SlotEntry
<1>3. a.profile = p /\ a.node = NodeOf[s] /\ a.place = <<"slot", s>> /\ a.variant = v.id
    BY DEF AssignmentFromFit
<1> QED BY <1>1, <1>2, <1>3

\* A warm copy is booked.
LEMMA WarmStep ==
    ASSUME NEW d, NEW st \in PlannerState(d), Booked(d, st), NEW p \in PlannedProfiles(d),
           NEW c, c.slot \in Slots, c.variant \in Variants(p),
           NEW a \in Entries(d), a.profile = p, a.node = NodeOf[c.slot], a.place = <<"slot", c.slot>>,
           a.variant = c.variant.id, a.warm, ~a.mismatch,
           NEW st1 \in PlannerState(d), Adds(st, st1, a),
           WithinDiskBudget(st, NodeOf[c.slot], c.variant), WithinMemoryBudget(st, NodeOf[c.slot], c.variant),
           c.slot \notin st.used \/ (AllPinned(d, st.plan) /\ c.slot \in ToSet(d.policy[p].pins))
    PROVE  /\ MarkWarm(st1, p, c) \in PlannerState(d) /\ Booked(d, MarkWarm(st1, p, c))
           /\ AllPinned(d, st.plan) /\ c.slot \in ToSet(d.policy[p].pins)
                => AllPinned(d, MarkWarm(st1, p, c).plan)
<1> DEFINE n == NodeOf[c.slot]
           st2 == MarkWarm(st1, p, c)
<1>1. p \in Profiles /\ n \in Nodes
    BY PlanConstants DEF PlannedProfiles
<1>2. a.profile = p /\ a.node = n /\ a.place = <<"slot", c.slot>> /\ a.variant = c.variant.id /\ a.warm /\ ~a.mismatch
    OBVIOUS
<1>3. /\ st2 \in PlannerState(d) /\ st2.plan = st1.plan /\ st2.used = st1.used \cup {c.slot}
      /\ st2.memory = [st1.memory EXCEPT ![n] = @ + ProfileMemory(c.variant)]
      /\ st2.nodeCache = [st1.nodeCache EXCEPT ![n] = @ \cup {p}]
      /\ st2.disk = IF p \in st1.nodeCache[n] THEN st1.disk
                    ELSE [st1.disk EXCEPT ![n] = @ + ProfileDisk(c.variant)]
    BY <1>1, MarkWarmFields
<1>4. /\ st1.plan = Append(st.plan, a) /\ st1.used = st.used
      /\ st1.memory = st.memory /\ st1.disk = st.disk /\ st1.nodeCache = st.nodeCache
    BY DEF Adds
<1> HIDE DEF n, st2
<1>5. OnSlot(a) /\ a.place[1] # "missing" /\ a.place[2] = c.slot /\ (IsPinned(d, a) <=> c.slot \in ToSet(d.policy[p].pins))
    BY <1>2 DEF OnSlot, Effective, IsPinned
<1>6. /\ st2.plan = Append(st.plan, a)
      /\ st2.used = st.used \cup IF OnSlot(a) THEN {a.place[2]} ELSE {}
      /\ st2.memory = [st.memory EXCEPT ![n] = @ + IF a.warm THEN ProfileMemory(c.variant) ELSE 0]
      /\ st2.nodeCache = [st.nodeCache EXCEPT ![n] = @ \cup {a.profile}]
      /\ st2.disk = IF a.profile \in st.nodeCache[n] THEN st.disk
                    ELSE [st.disk EXCEPT ![n] = @ + ProfileDisk(c.variant)]
    BY <1>2, <1>3, <1>4, <1>5
<1>7. WithinDiskBudget(st, n, c.variant) /\ WithinMemoryBudget(st, n, c.variant)
    BY DEF n
<1>8. /\ Booked(d, st2)
      /\ AllPinned(d, st.plan) /\ (OnSlot(a) => IsPinned(d, a)) => AllPinned(d, st2.plan)
    BY <1>1, <1>2, <1>3, <1>5, <1>6, <1>7, CopyStep
<1> QED BY <1>3, <1>5, <1>8 DEF st2

\* A cached copy is booked.
LEMMA CacheStep ==
    ASSUME NEW d, NEW st \in PlannerState(d), Booked(d, st), NEW p \in PlannedProfiles(d),
           NEW c, c.slot \in Slots, c.variant \in Variants(p),
           WithinDiskBudget(st, NodeOf[c.slot], c.variant)
    PROVE  LET st2 == MarkCache(Add(st, CacheAssignment(d, p, c)), p, c)
           IN  st2 \in PlannerState(d) /\ Booked(d, st2)
<1> DEFINE a == CacheAssignment(d, p, c)
           n == NodeOf[c.slot]
           st1 == Add(st, a)
           st2 == MarkCache(st1, p, c)
<1>1. p \in Profiles /\ n \in Nodes
    BY PlanConstants DEF PlannedProfiles
<1>2. /\ a \in Entries(d) /\ a.profile = p /\ a.node = n /\ a.place = <<"cache", n>>
      /\ a.variant = c.variant.id /\ ~a.warm /\ ~a.mismatch
    BY CacheEntry
<1> HIDE DEF a
<1>3. st1 \in PlannerState(d) /\ Adds(st, st1, a)
    BY <1>2, AddFields
<1> HIDE DEF st1
<1>4. /\ st2 \in PlannerState(d) /\ st2.plan = st1.plan /\ st2.used = st1.used /\ st2.memory = st1.memory
      /\ st2.nodeCache = [st1.nodeCache EXCEPT ![n] = @ \cup {p}]
      /\ st2.disk = IF p \in st1.nodeCache[n] THEN st1.disk
                    ELSE [st1.disk EXCEPT ![n] = @ + ProfileDisk(c.variant)]
    BY <1>1, <1>3, MarkCacheFields
<1>5. /\ st1.plan = Append(st.plan, a) /\ st1.used = st.used
      /\ st1.memory = st.memory /\ st1.disk = st.disk /\ st1.nodeCache = st.nodeCache
    BY <1>3 DEF Adds
<1> HIDE DEF n, st2
<1>6. ~OnSlot(a) /\ a.place[1] # "missing"
    BY <1>2 DEF OnSlot, Effective
<1>7. st2.memory = [st.memory EXCEPT ![n] = @ + IF a.warm THEN ProfileMemory(c.variant) ELSE 0]
  <2>1. st.memory \in [Nodes -> Nat] /\ st2.memory = st.memory
    BY <1>4, <1>5 DEF PlannerState
  <2>2. [st.memory EXCEPT ![n] = @ + IF a.warm THEN ProfileMemory(c.variant) ELSE 0] = st.memory
    BY <1>1, <1>2, <2>1
  <2> QED BY <2>1, <2>2
<1>8. /\ st2.plan = Append(st.plan, a)
      /\ st2.used = st.used \cup IF OnSlot(a) THEN {a.place[2]} ELSE {}
      /\ st2.nodeCache = [st.nodeCache EXCEPT ![n] = @ \cup {a.profile}]
      /\ st2.disk = IF a.profile \in st.nodeCache[n] THEN st.disk
                    ELSE [st.disk EXCEPT ![n] = @ + ProfileDisk(c.variant)]
    BY <1>2, <1>4, <1>5, <1>6
<1>9. WithinDiskBudget(st, n, c.variant)
    BY DEF n
<1>10. Booked(d, st2)
    BY <1>1, <1>2, <1>4, <1>6, <1>7, <1>8, <1>9, CopyStep
<1> QED BY <1>4, <1>10 DEF st2, st1, a


-----------------------------------------------------------------------------
(* The choice of a candidate *)

\* The first of the usable candidates is one of them.
LEMMA FirstIs ==
    ASSUME NEW candidates, NEW usable, NEW n \in Nat, usable \subseteq 1..n
    PROVE  \/ usable = {} /\ FirstOf(candidates, usable) = <<>>
           \/ /\ FirstOf(candidates, usable) # <<>>
              /\ \E k \in usable : FirstOf(candidates, usable)[1] = candidates[k]
<1>1. CASE usable = {}
    BY <1>1 DEF FirstOf
<1>2. CASE usable # {}
  <2>1. usable \subseteq Nat
    OBVIOUS
  <2>2. Min(usable) \in usable
    BY <1>2, <2>1, MinOfNat
  <2>3. FirstOf(candidates, usable) = <<candidates[Min(usable)]>>
    BY <1>2 DEF FirstOf
  <2>4. FirstOf(candidates, usable) # <<>> /\ FirstOf(candidates, usable)[1] = candidates[Min(usable)]
    <3> DEFINE x == candidates[Min(usable)]
    <3> HIDE DEF x
    <3>1. <<x>> # <<>> /\ <<x>>[1] = x
      OBVIOUS
    <3> QED BY <2>3, <3>1 DEF x
  <2> QED BY <2>2, <2>4
<1> QED BY <1>1, <1>2

\* What the next warm candidate is; with none, every slot is refused.
LEMMA NextWarmIs ==
    ASSUME NEW d, PlanDatabase(d), NEW st \in PlannerState(d), NEW item \in ItemSet(d)
    PROVE  \/ NextWarm(d, st, item) = <<>> /\ Refuses(d, st, item.profile)
           \/ /\ NextWarm(d, st, item) # <<>>
              /\ LET c == NextWarm(d, st, item)[1]
                 IN  /\ c.slot \in Slots /\ c.variant \in Variants(item.profile) /\ c.slot \notin st.used
                     /\ WithinDiskBudget(st, NodeOf[c.slot], c.variant)
                     /\ WithinMemoryBudget(st, NodeOf[c.slot], c.variant)
<1> DEFINE p == item.profile
           cs == item.candidates
           Usable(c) == /\ c.slot \notin st.used /\ SlotAvailableForWarm(d, c.slot, p, c.variant)
                        /\ CanUseCandidate(d, st, item, c, TRUE)
           usable == {i \in DOMAIN cs : Usable(cs[i])}
<1>1. NextWarm(d, st, item) = FirstOf(cs, usable)
    BY DEF NextWarm
<1>2. p \in Profiles /\ item.policy = d.policy[p] /\ Enumerates(cs, Fitting(d, p))
    BY ItemFacts
<1>3. PICK n \in Nat : DOMAIN cs = 1..n
    BY <1>2 DEF Enumerates
<1>4. usable \subseteq 1..n
    BY <1>3
<1>5. ASSUME NEW k \in usable
      PROVE  /\ cs[k].slot \in Slots /\ cs[k].variant \in Variants(p) /\ cs[k].slot \notin st.used
             /\ WithinDiskBudget(st, NodeOf[cs[k].slot], cs[k].variant)
             /\ WithinMemoryBudget(st, NodeOf[cs[k].slot], cs[k].variant)
  <2>1. cs[k] \in Fitting(d, p)
    BY <1>2 DEF Enumerates
  <2>2. cs[k] \in AllCandidates(d, p)
    BY <2>1 DEF Fitting
  <2>3. cs[k].slot \in Slots /\ cs[k].variant \in Variants(p)
    BY <1>2, <2>2, CandidateFacts
  <2>4. cs[k].slot \notin st.used /\ CanUseCandidate(d, st, item, cs[k], TRUE)
    OBVIOUS
  <2> QED BY <2>3, <2>4 DEF CanUseCandidate
<1>6. ASSUME usable = {} PROVE Refuses(d, st, p)
  <2>1. SUFFICES ASSUME NEW s \in KnownSlots(d), NEW v \in Variants(p), s \notin st.used,
                        NodeUsable(d, NodeOf[s], d.policy[p]), Fits(d, v, s),
                        SlotAvailableForWarm(d, s, p, v), ~Suppressed(d, NodeOf[s]),
                        ~(d.policy[p].maxWarmPerNode > 0), ~(d.policy[p].maxCachedPerNode > 0),
                        FitsBudgets(NodeOf[s], st.memory[NodeOf[s]] + ProfileMemory(v),
                                    st.disk[NodeOf[s]] + ProfileDisk(v))
                 PROVE  FALSE
    BY DEF Refuses
  <2>2. PICK c \in AllCandidates(d, p) : c.slot = s /\ c.variant = v
    BY <1>2, CandidateFacts
  <2>3. c \in Fitting(d, p)
    BY <2>1, <2>2 DEF Fitting
  <2>4. PICK k \in DOMAIN cs : cs[k] = c
    BY <1>2, <2>3 DEF Enumerates
  <2>5. LimitReasons(st, item, NodeOf[s], TRUE) = {}
    BY <1>2, <2>1 DEF LimitReasons, Reason
  <2>6. WithinDiskBudget(st, NodeOf[s], v) /\ WithinMemoryBudget(st, NodeOf[s], v)
    BY <2>1 DEF FitsBudgets, WithinDiskBudget, WithinMemoryBudget
  <2>7. CanUseCandidate(d, st, item, c, TRUE)
    BY <2>1, <2>2, <2>5, <2>6 DEF CanUseCandidate
  <2>8. Usable(cs[k])
    BY <2>1, <2>2, <2>4, <2>7
  <2> QED BY <1>6, <2>4, <2>8
<1> HIDE DEF usable, Usable, cs, p
<1>7. \/ usable = {} /\ FirstOf(cs, usable) = <<>>
      \/ FirstOf(cs, usable) # <<>> /\ \E k \in usable : FirstOf(cs, usable)[1] = cs[k]
    BY <1>4, FirstIs
<1> QED BY <1>1, <1>5, <1>6, <1>7 DEF p

\* What the next candidate for a cache is.
LEMMA NextCacheIs ==
    ASSUME NEW d, PlanDatabase(d), NEW st \in PlannerState(d), NEW item \in ItemSet(d)
    PROVE  \/ NextCache(d, st, item) = <<>>
           \/ /\ NextCache(d, st, item) # <<>>
              /\ LET c == NextCache(d, st, item)[1]
                 IN  /\ c.slot \in Slots /\ c.variant \in Variants(item.profile)
                     /\ WithinDiskBudget(st, NodeOf[c.slot], c.variant)
<1> DEFINE p == item.profile
           cs == item.candidates
           Uncached(c) == p \notin st.nodeCache[NodeOf[c.slot]]
           nodes == BestOfNode(cs, {i \in DOMAIN cs : Uncached(cs[i])})
           usable == {i \in nodes : CanUseCandidate(d, st, item, cs[i], FALSE)}
<1>1. NextCache(d, st, item) = FirstOf(cs, usable)
    BY DEF NextCache
<1>2. p \in Profiles /\ Enumerates(cs, Fitting(d, p))
    BY ItemFacts
<1>3. PICK n \in Nat : DOMAIN cs = 1..n
    BY <1>2 DEF Enumerates
<1>4. usable \subseteq 1..n
    BY <1>3 DEF BestOfNode
<1>5. ASSUME NEW k \in usable
      PROVE  /\ cs[k].slot \in Slots /\ cs[k].variant \in Variants(p)
             /\ WithinDiskBudget(st, NodeOf[cs[k].slot], cs[k].variant)
  <2>1. cs[k] \in Fitting(d, p)
    BY <1>2, <1>3, <1>4 DEF Enumerates
  <2>2. cs[k] \in AllCandidates(d, p)
    BY <2>1 DEF Fitting
  <2>3. cs[k].slot \in Slots /\ cs[k].variant \in Variants(p)
    BY <1>2, <2>2, CandidateFacts
  <2>4. CanUseCandidate(d, st, item, cs[k], FALSE)
    OBVIOUS
  <2> QED BY <2>3, <2>4 DEF CanUseCandidate
<1> HIDE DEF usable, nodes, Uncached, cs, p
<1>6. \/ usable = {} /\ FirstOf(cs, usable) = <<>>
      \/ FirstOf(cs, usable) # <<>> /\ \E k \in usable : FirstOf(cs, usable)[1] = cs[k]
    BY <1>4, FirstIs
<1> QED BY <1>1, <1>5, <1>6 DEF p

\* The variant a pin takes is one of its profile.
LEMMA BestIs ==
    ASSUME NEW d, NEW p \in Profiles, NEW s
    PROVE  BestVariant(d, p, s) \in Variants(p)
<1> DEFINE fitting == {i \in DOMAIN Catalogue[p] : Fits(d, Catalogue[p][i], s)}
           k == IF fitting = {} THEN Len(Catalogue[p]) ELSE Min(fitting)
<1>1. BestVariant(d, p, s) = Catalogue[p][k]
    BY DEF BestVariant
<1>2. /\ Len(Catalogue[p]) \in Nat \ {0} /\ DOMAIN Catalogue[p] = 1..Len(Catalogue[p])
      /\ \A i \in DOMAIN Catalogue[p] : Catalogue[p][i] \in Variants(p)
    BY CatalogueFacts
<1>3. k \in DOMAIN Catalogue[p]
  <2>1. CASE fitting = {}
    BY <1>2, <2>1
  <2>2. CASE fitting # {}
    <3>1. fitting \subseteq DOMAIN Catalogue[p] /\ fitting \subseteq Nat
      BY <1>2
    <3> HIDE DEF fitting
    <3>2. Min(fitting) \in fitting
      BY <2>2, <3>1, MinOfNat
    <3> QED BY <2>2, <3>1, <3>2
  <2> QED BY <2>1, <2>2
<1> QED BY <1>1, <1>2, <1>3


-----------------------------------------------------------------------------
(* The phases *)

\* The tables that the phases pass on; while pins are placed, only they have slots.
Good(d) == {st \in PlannerState(d) : Booked(d, st)}
GoodPins(d) == {st \in Good(d) : AllPinned(d, st.plan)}

\* A hard pin.
LEMMA PinStep ==
    ASSUME NEW d, PlanDatabase(d), NEW item \in ItemSet(d), NEW st \in GoodPins(d),
           NEW s \in ToSet(item.policy.pins)
    PROVE  PlaceHardPin(d, st, item, s) \in GoodPins(d)
<1> DEFINE p == item.profile
<1>1. p \in Profiles /\ p \in PlannedProfiles(d) /\ item.policy = d.policy[p]
    BY ItemFacts
<1>2. st \in PlannerState(d) /\ Booked(d, st) /\ AllPinned(d, st.plan)
    BY DEF GoodPins, Good
<1>3. CASE s \in KnownSlots(d)
  <2> DEFINE v == BestVariant(d, p, s)
             c == [slot |-> s, variant |-> v]
             refused == Suppressed(d, NodeOf[s]) \/ BaseReasons(d, item, c) \cup BudgetReasons(d, st, item, c, TRUE) # {}
             a == AssignmentFromFit(d, p, c.slot, c.variant, refused)
             st1 == Add(st, a)
  <2>1. PlaceHardPin(d, st, item, s) = IF refused THEN st1 ELSE MarkWarm(st1, p, c)
    BY <1>3 DEF PlaceHardPin, PinCandidate
  <2>2. s \in Slots /\ v \in Variants(p) /\ refused \in BOOLEAN /\ c.slot = s /\ c.variant = v
    BY <1>1, <1>3, BestIs DEF KnownSlots
  <2>3. ~refused => WithinDiskBudget(st, NodeOf[s], v) /\ WithinMemoryBudget(st, NodeOf[s], v)
    <3>1. ~refused => BudgetReasons(d, st, item, c, TRUE) = {}
      OBVIOUS
    <3> HIDE DEF refused, v
    <3>2. BudgetReasons(d, st, item, c, TRUE) = {} => WithinDiskBudget(st, NodeOf[s], v) /\ WithinMemoryBudget(st, NodeOf[s], v)
      BY DEF BudgetReasons, Reason
    <3> QED BY <3>1, <3>2
  <2> HIDE DEF v, c, refused
  <2>4. a \in Entries(d) /\ a.profile = p /\ a.place = <<"slot", s>> /\ a.mismatch = refused
    BY <1>1, <2>2, SlotEntry
  <2>5. ~refused => /\ a.node = NodeOf[c.slot] /\ a.place = <<"slot", c.slot>>
                    /\ a.variant = c.variant.id /\ a.warm /\ ~a.mismatch
    BY <1>1, <2>2, SlotCopy
  <2> HIDE DEF a
  <2>6. st1 \in PlannerState(d) /\ Adds(st, st1, a)
    BY <1>2, <2>4, AddFields
  <2> HIDE DEF st1
  <2>7. CASE refused
    <3>1. a.mismatch /\ a.place[1] # "missing"
      BY <2>4, <2>7
    <3>2. Booked(d, st1) /\ AllPinned(d, st1.plan)
      BY <1>2, <2>4, <2>6, <3>1, RefusedStep
    <3> QED BY <2>1, <2>6, <2>7, <3>2 DEF GoodPins, Good
  <2>8. CASE ~refused
    <3>1. /\ MarkWarm(st1, p, c) \in PlannerState(d) /\ Booked(d, MarkWarm(st1, p, c))
          /\ AllPinned(d, MarkWarm(st1, p, c).plan)
      BY <1>1, <1>2, <2>2, <2>3, <2>4, <2>5, <2>6, <2>8, WarmStep
    <3> QED BY <2>1, <2>8, <3>1 DEF GoodPins, Good
  <2> QED BY <2>7, <2>8
<1>4. CASE s \notin KnownSlots(d)
  <2> DEFINE a == MissingAssignment(p, st.missing[p], TRUE)
             q == [Add(st, a).missing EXCEPT ![p] = @ + 1]
             st1 == [Add(st, a) EXCEPT !.missing = q]
  <2>1. PlaceHardPin(d, st, item, s) = st1
    BY <1>4 DEF PlaceHardPin
  <2>2. st.missing \in [Profiles -> Nat]
    BY <1>2 DEF PlannerState
  <2>3. a \in Entries(d) /\ a.profile = p /\ a.mismatch
    <3>1. st.missing[p] \in Nat /\ TRUE \in BOOLEAN
      BY <1>1, <2>2
    <3>2. a \in Entries(d)
      BY <1>1, <3>1, MissingEntry
    <3>3. a.profile = p /\ a.mismatch = TRUE
      BY DEF MissingAssignment
    <3> QED BY <3>2, <3>3
  <2> HIDE DEF a
  <2>4. q \in [Profiles -> Nat]
    <3>1. Add(st, a) \in PlannerState(d)
      BY <1>2, <2>3, AddFields
    <3>2. Add(st, a).missing \in [Profiles -> Nat]
      BY <3>1 DEF PlannerState
    <3> QED BY <1>1, <3>2
  <2> HIDE DEF q
  <2>5. st1 \in PlannerState(d) /\ Adds(st, st1, a)
    BY <1>2, <2>3, <2>4, AddFields
  <2>6. ~(ToSet(d.policy[a.profile].pins) \subseteq KnownSlots(d))
    BY <1>1, <1>4, <2>3
  <2> HIDE DEF st1
  <2>7. Booked(d, st1) /\ AllPinned(d, st1.plan)
    BY <1>2, <2>3, <2>5, <2>6, RefusedStep
  <2> QED BY <2>1, <2>5, <2>7 DEF GoodPins, Good
<1> QED BY <1>3, <1>4

\* All the pins of a policy, and of all policies.
LEMMA PinsOfStep ==
    ASSUME NEW d, PlanDatabase(d), NEW item \in ItemSet(d), NEW st \in GoodPins(d)
    PROVE  PlacePinsOf(d, st, item) \in GoodPins(d)
<1> DEFINE St == GoodPins(d)
           n == Len(item.policy.pins)
<1>1. item.policy.pins \in Seq(Nat)
    BY ItemFacts DEF GoodPolicy
<1>2. n \in Nat /\ DOMAIN item.policy.pins = 1..n
    BY <1>1
<1>3. \A k \in 1..n : item.policy.pins[k] \in ToSet(item.policy.pins)
    BY <1>2 DEF ToSet
<1>4. \A a \in St, k \in 1..n : PlaceHardPin(d, a, item, item.policy.pins[k]) \in St
    BY <1>3, PinStep
<1> HIDE DEF St, n
<1>5. st \in St
    BY DEF St
<1>6. PlacePinsOf(d, st, item) \in St
    BY <1>2, <1>4, <1>5, PinsFold
<1> QED BY <1>6 DEF St

\* placeHardPins keeps what a planner has promised.
LEMMA PinsStep ==
    ASSUME NEW d, PlanDatabase(d), NEW items, Enumerates(items, ItemSet(d)), NEW st \in GoodPins(d)
    PROVE  PlaceHardPins(d, st, items) \in GoodPins(d)
<1> DEFINE St == GoodPins(d)
<1>1. PICK n \in Nat : DOMAIN items = 1..n
    BY DEF Enumerates
<1>2. \A k \in 1..n : items[k] \in ItemSet(d)
    BY <1>1 DEF Enumerates
<1>3. \A a \in St, k \in 1..n : PlacePinsOf(d, a, items[k]) \in St
    BY <1>2, PinsOfStep
<1> HIDE DEF St
<1>4. st \in St
    BY DEF St
<1>5. PlaceHardPins(d, st, items) \in St
    BY <1>1, <1>3, <1>4, AllPinsFold
<1> QED BY <1>5 DEF St


\* A copy that runs is kept.
LEMMA PreserveStep ==
    ASSUME NEW d, PlanDatabase(d), NEW items, Enumerates(items, ItemSet(d)), NEW st \in Good(d),
           NEW s \in KnownSlots(d)
    PROVE  PreserveCopy(d, st, items, s) \in Good(d)
<1> DEFINE found == ProtectedCandidates(d, st, items, s)
           r == CHOOSE c \in found : TRUE
           item == r.item
           p == item.profile
           c == [slot |-> s, variant |-> r.variant]
           a == AssignmentFromFit(d, p, s, r.variant, FALSE)
           q == Add(st, a).protected \cup {AssignmentID(a)}
           st1 == [Add(st, a) EXCEPT !.protected = q]
<1>1. SUFFICES ASSUME s \notin st.used, found # {} PROVE MarkWarm(st1, p, c) \in Good(d)
  <2>1. \/ PreserveCopy(d, st, items, s) = st
        \/ /\ s \notin st.used /\ found # {}
           /\ PreserveCopy(d, st, items, s) = MarkWarm(st1, p, c)
    BY DEF PreserveCopy, Protect
  <2> HIDE DEF found, st1, p, c
  <2> QED BY <1>1, <2>1
<1>2. r \in found
    BY <1>1, SMTT(60)
<1>3. /\ item \in ToSet(items) /\ r.variant \in Variants(p)
      /\ CanUseCandidate(d, st, item, c, TRUE)
    BY <1>2 DEF ProtectedCandidates
<1> HIDE DEF r, found
<1>4. item \in ItemSet(d)
    BY <1>3 DEF Enumerates, ToSet
<1>5. p \in PlannedProfiles(d) /\ p \in Profiles
    BY <1>4, ItemFacts
<1>6. s \in Slots /\ c.slot = s /\ c.variant = r.variant
    BY DEF KnownSlots
<1>7. WithinDiskBudget(st, NodeOf[c.slot], c.variant) /\ WithinMemoryBudget(st, NodeOf[c.slot], c.variant)
    BY <1>3 DEF CanUseCandidate
<1> HIDE DEF c
<1>8. /\ a \in Entries(d) /\ a.profile = p /\ a.node = NodeOf[c.slot] /\ a.place = <<"slot", c.slot>>
      /\ a.variant = c.variant.id /\ a.warm /\ ~a.mismatch
  <2>1. FALSE \in BOOLEAN
    OBVIOUS
  <2>2. a.mismatch = FALSE /\ a.warm = TRUE
    BY DEF AssignmentFromFit
  <2>3. a \in Entries(d)
    BY <1>3, <1>5, <1>6, <2>1, SlotEntry
  <2>4. a.profile = p /\ a.node = NodeOf[s] /\ a.place = <<"slot", s>> /\ a.variant = r.variant.id
    BY DEF AssignmentFromFit
  <2> QED BY <1>6, <2>2, <2>3, <2>4
<1> HIDE DEF a, p, item
<1>9. st \in PlannerState(d) /\ Booked(d, st)
    BY DEF Good
<1>10. q \in SUBSET (Profiles \X Places)
  <2>1. Add(st, a) \in PlannerState(d)
    BY <1>8, <1>9, AddFields
  <2>2. Add(st, a).protected \in SUBSET (Profiles \X Places)
    BY <2>1 DEF PlannerState
  <2>3. a.place \in Places
    BY <1>8 DEF Entries, PlanEntry
  <2>4. AssignmentID(a) \in Profiles \X Places
    BY <1>5, <1>8, <2>3 DEF AssignmentID
  <2> QED BY <2>2, <2>4
<1> HIDE DEF q
<1>11. st1 \in PlannerState(d) /\ Adds(st, st1, a)
    BY <1>8, <1>9, <1>10, AddFields
<1> HIDE DEF st1
<1>12. c.slot \notin st.used /\ c.slot \in Slots /\ c.variant \in Variants(p)
    BY <1>1, <1>3, <1>6 DEF p, item
<1>13. MarkWarm(st1, p, c) \in PlannerState(d) /\ Booked(d, MarkWarm(st1, p, c))
    BY <1>5, <1>7, <1>8, <1>9, <1>11, <1>12, WarmStep
<1> QED BY <1>13 DEF Good

\* All the copies that run.
LEMMA PreserveAll ==
    ASSUME NEW d, PlanDatabase(d), NEW items, Enumerates(items, ItemSet(d)), NEW st \in Good(d)
    PROVE  PreserveRuntimeCopies(d, st, items) \in Good(d)
<1> DEFINE St == Good(d)
           S == KnownSlots(d)
           n == Cardinality(S)
           order == Ascending(S)
<1>1. IsFiniteSet(S) /\ S \subseteq Int
  <2>1. S \subseteq Slots /\ IsFiniteSet(Slots) /\ Slots \subseteq Int
    BY PlanConstants DEF KnownSlots
  <2> QED BY <2>1, FS_Subset
<1> HIDE DEF S
<1>2. n \in Nat /\ DOMAIN order = 1..n /\ \A k \in DOMAIN order : order[k] \in S
    BY <1>1, AscendingIs
<1>3. order = Ascending(KnownSlots(d))
    BY DEF S
<1>4. \A a \in St, k \in 1..n : PreserveCopy(d, a, items, order[k]) \in St
    BY <1>2, PreserveStep DEF S
<1> HIDE DEF St, n, order
<1>5. st \in St
    BY DEF St
<1>6. PreserveRuntimeCopies(d, st, items) \in St
    BY <1>2, <1>3, <1>4, <1>5, PreserveFold
<1> QED BY <1>6 DEF St

\* A round of placeWarmUntil or placeCacheUntil.
LEMMA CopyRound ==
    ASSUME NEW d, PlanDatabase(d), NEW item \in ItemSet(d), NEW warm \in BOOLEAN, NEW explain, explain = FALSE,
           NEW st \in Good(d)
    PROVE  PlaceCopy(d, st, item, warm, explain) \in Good(d)
<1> DEFINE p == item.profile
<1>1. p \in PlannedProfiles(d) /\ p \in Profiles
    BY ItemFacts
<1>2. st \in PlannerState(d) /\ Booked(d, st)
    BY DEF Good
<1>3. ASSUME NEW w \in BOOLEAN, w => Refuses(d, st, p) PROVE AddMissing(st, p, w) \in Good(d)
  <2> DEFINE a == MissingAssignment(p, st.missing[p], w)
             st2 == AddMissing(st, p, w)
  <2>1. st.missing[p] \in Nat
    BY <1>1, <1>2 DEF PlannerState
  <2>2. a \in Entries(d) /\ a.profile = p /\ a.warm = w /\ a.mismatch
    BY <1>1, <2>1, MissingEntry
  <2>3. st2 \in PlannerState(d) /\ Adds(st, st2, a)
    BY <1>1, <1>2, AddMissingFields
  <2> HIDE DEF a, st2, p
  <2>4. ~(a.warm /\ a.place[1] = "missing") \/ Refuses(d, st, a.profile)
    BY <1>3, <2>2
  <2>5. Booked(d, st2)
    BY <1>2, <2>2, <2>3, <2>4, RefusedStep
  <2> QED BY <2>3, <2>5 DEF Good, st2
<1>4. CASE warm
  <2> DEFINE next == NextWarm(d, st, item)
             c == next[1]
             a == AssignmentFromFit(d, p, c.slot, c.variant, FALSE)
             st1 == Add(st, a)
  <2>1. PlaceCopy(d, st, item, warm, explain) = PlaceWarm(d, st, item, next)
    BY <1>4 DEF PlaceCopy
  <2>2. \/ next = <<>> /\ Refuses(d, st, p)
        \/ /\ next # <<>> /\ c.slot \in Slots /\ c.variant \in Variants(p) /\ c.slot \notin st.used
           /\ WithinDiskBudget(st, NodeOf[c.slot], c.variant)
           /\ WithinMemoryBudget(st, NodeOf[c.slot], c.variant)
    BY <1>2, NextWarmIs
  <2> HIDE DEF next
  <2>3. CASE next = <<>>
    <3>1. PlaceWarm(d, st, item, next) = AddMissing(st, p, TRUE)
      BY <2>3 DEF PlaceWarm
    <3>2. TRUE \in BOOLEAN /\ (TRUE => Refuses(d, st, p))
      BY <2>2, <2>3
    <3>3. AddMissing(st, p, TRUE) \in Good(d)
      BY <1>3, <3>2
    <3> QED BY <2>1, <3>1, <3>3
  <2>4. CASE next # <<>>
    <3>1. PlaceWarm(d, st, item, next) = MarkWarm(st1, p, c)
      BY <2>4 DEF PlaceWarm
    <3> HIDE DEF c
    <3>2. /\ a \in Entries(d) /\ a.profile = p /\ a.node = NodeOf[c.slot] /\ a.place = <<"slot", c.slot>>
          /\ a.variant = c.variant.id /\ a.warm /\ ~a.mismatch
      <4>1. FALSE \in BOOLEAN
        OBVIOUS
      <4>2. a.mismatch = FALSE /\ a.warm = TRUE
        BY DEF AssignmentFromFit
      <4>3. a \in Entries(d)
        BY <1>1, <2>2, <2>4, <4>1, SlotEntry
      <4>4. a.profile = p /\ a.node = NodeOf[c.slot] /\ a.place = <<"slot", c.slot>> /\ a.variant = c.variant.id
        BY DEF AssignmentFromFit
      <4> QED BY <4>2, <4>3, <4>4
    <3> HIDE DEF a, p
    <3>3. st1 \in PlannerState(d) /\ Adds(st, st1, a)
      BY <1>2, <3>2, AddFields
    <3> HIDE DEF st1
    <3>4. MarkWarm(st1, p, c) \in PlannerState(d) /\ Booked(d, MarkWarm(st1, p, c))
      BY <1>1, <1>2, <2>2, <2>4, <3>2, <3>3, WarmStep
    <3> QED BY <2>1, <3>1, <3>4 DEF Good
  <2> QED BY <2>3, <2>4
<1>5. CASE ~warm
  <2> DEFINE next == NextCache(d, st, item)
             c == next[1]
             st2 == MarkCache(Add(st, CacheAssignment(d, p, c)), p, c)
  <2>1. PlaceCopy(d, st, item, warm, explain) = PlaceCache(d, st, item, next)
    BY <1>5 DEF PlaceCopy
  <2>2. \/ next = <<>>
        \/ /\ next # <<>> /\ c.slot \in Slots /\ c.variant \in Variants(p)
           /\ WithinDiskBudget(st, NodeOf[c.slot], c.variant)
    BY <1>2, NextCacheIs
  <2> HIDE DEF next
  <2>3. CASE next = <<>>
    <3>1. PlaceCache(d, st, item, next) = AddMissing(st, p, FALSE)
      BY <2>3 DEF PlaceCache
    <3>2. FALSE \in BOOLEAN
      OBVIOUS
    <3>3. AddMissing(st, p, FALSE) \in Good(d)
      BY <1>3, <3>2
    <3> QED BY <2>1, <3>1, <3>3
  <2>4. CASE next # <<>>
    <3>1. PlaceCache(d, st, item, next) = st2
      BY <2>4 DEF PlaceCache
    <3> HIDE DEF c
    <3>2. st2 \in PlannerState(d) /\ Booked(d, st2)
      BY <1>1, <1>2, <2>2, <2>4, CacheStep
    <3> QED BY <2>1, <3>1, <3>2 DEF Good
  <2> QED BY <2>3, <2>4
<1> QED BY <1>4, <1>5


\* The rounds of a phase, and all phases.
LEMMA UntilStep ==
    ASSUME NEW d, PlanDatabase(d), NEW phase \in PhaseSet(d), NEW explain, explain = FALSE, NEW st \in Good(d)
    PROVE  PlaceUntil(d, st, phase, explain) \in Good(d)
<1> DEFINE p == phase.item.profile
           count == IF phase.warm THEN st.warm[p] ELSE st.cached[p]
           St == Good(d)
<1>1. phase.item \in ItemSet(d) /\ phase.warm \in BOOLEAN /\ phase.target \in Int
    BY DEF PhaseSet
<1>2. st.warm \in [Profiles -> Int] /\ st.cached \in [Profiles -> Int]
    BY DEF Good, PlannerState
<1>3. p \in Profiles
    BY <1>1, ItemFacts
<1>4. count \in Int
    BY <1>2, <1>3
<1> HIDE DEF count
<1>5. PICK n \in Nat : 1..(phase.target - count) = 1..n
  <2>1. CASE phase.target - count >= 0
    BY <1>1, <1>4, <2>1
  <2>2. CASE ~(phase.target - count >= 0)
    <3>1. 1..(phase.target - count) = 1..0
      BY <1>1, <1>4, <2>2
    <3> QED BY <3>1
  <2> QED BY <2>1, <2>2
<1>6. \A a \in St, k \in 1..n : PlaceCopy(d, a, phase.item, phase.warm, explain) \in St
    BY <1>1, CopyRound
<1>7. st \in St
    OBVIOUS
<1> HIDE DEF St
<1>8. PlaceUntil(d, st, phase, explain) \in St
    BY <1>5, <1>6, <1>7, RoundsFold DEF count, p
<1> QED BY <1>8 DEF St

\* The four rounds of placements keep it too.
LEMMA PhasesStep ==
    ASSUME NEW d, PlanDatabase(d), NEW items, Enumerates(items, ItemSet(d)), NEW explain, explain = FALSE,
           NEW st \in Good(d)
    PROVE  PlacePhases(d, st, Phases(items), explain) \in Good(d)
<1> DEFINE St == Good(d)
           phases == Phases(items)
<1>1. PICK n \in Nat : DOMAIN phases = 1..n /\ \A k \in 1..n : phases[k] \in PhaseSet(d)
    BY PhasesAre
<1>2. \A a \in St, k \in 1..n : PlaceUntil(d, a, phases[k], explain) \in St
    BY <1>1, UntilStep
<1>3. st \in St
    OBVIOUS
<1> HIDE DEF St, phases
<1>4. PlacePhases(d, st, phases, explain) \in St
    BY <1>1, <1>2, <1>3, PhasesFold
<1> QED BY <1>4 DEF St, phases

\* An empty plan has booked nothing.
LEMMA NewStep ==
    ASSUME NEW d
    PROVE  NewPlanner \in GoodPins(d)
<1> DEFINE st == NewPlanner
<1>1. st \in PlannerState(d)
    BY DEF NewPlanner, PlannerState
<1>2. st.plan = <<>> /\ st.used = {} /\ DOMAIN st.plan = {}
    BY DEF NewPlanner
<1>3. IsPlan(d, st.plan)
    BY <1>2, FS_EmptySet DEF IsPlan
<1>4. ASSUME NEW n \in Nodes PROVE BookedOn(st, n)
  <2>1. WarmCopies(st.plan, n) = {} /\ Held(st.plan, n) = {}
    BY <1>2 DEF WarmCopies, Copies, Held
  <2>2. st.memory[n] = 0 /\ st.disk[n] = 0 /\ st.nodeCache[n] = {}
    BY DEF NewPlanner
  <2>3. MemoryUse(st.plan, n) = 0
    <3>1. IsTotal(MemoryUse(st.plan, n), {}, MemoryOf(st.plan, n))
      BY <1>3, <2>1, MemoryTotal
    <3> QED BY <3>1, TotalEmpty
  <2>4. LeastDisk(st.plan, n) = 0 /\ MostDisk(st.plan, n) = 0
    <3>1. IsTotal(LeastDisk(st.plan, n), {}, LeastOf(st.plan, n)) /\ IsTotal(MostDisk(st.plan, n), {}, MostOf(st.plan, n))
      BY <1>3, <2>1, DiskTotal
    <3> QED BY <3>1, TotalEmpty
  <2>5. FitsBudgets(n, 0, 0)
    BY NodeFacts DEF FitsBudgets
  <2> QED BY <2>1, <2>2, <2>3, <2>4, <2>5 DEF BookedOn
<1>5. st.used = SlotsUsed(st.plan)
    BY <1>2 DEF SlotsUsed
<1>6. OneOwner(d, st.plan) /\ AllPinned(d, st.plan) /\ ShortOf(d, st.plan) = {}
    BY <1>2 DEF OneOwner, AllPinned, ShortOf
<1>7. Booked(d, st)
    BY <1>4, <1>5, <1>6 DEF Booked
<1> QED BY <1>1, <1>6, <1>7 DEF GoodPins, Good


-----------------------------------------------------------------------------
(* The end of a plan: copies are marked, and the plan is sorted *)

\* What a plan promises, for a database.
Promises(d, plan) == WithinBudgets(plan) /\ OneOwner(d, plan) /\ NoneCouldTake(d, plan)

\* The bookings are a plan's promises.
LEMMA BookedPromises ==
    ASSUME NEW d, NEW st \in PlannerState(d), Booked(d, st)
    PROVE  Promises(d, st.plan)
<1> DEFINE plan == st.plan
<1>1. IsPlan(d, plan)
  <2>1. plan \in Seq(Entries(d))
    BY DEF PlannerState
  <2>2. DOMAIN plan = 1..Len(plan) /\ Len(plan) \in Nat /\ \A i \in DOMAIN plan : plan[i] \in Entries(d)
    BY <2>1
  <2> QED BY <2>2, FS_Interval DEF IsPlan
<1>2. ASSUME NEW n \in Nodes
      PROVE  /\ st.memory[n] = MemoryUse(plan, n) /\ MemoryUse(plan, n) \in Nat
             /\ LeastDisk(plan, n) \in Nat /\ MostDisk(plan, n) \in Nat /\ st.disk[n] \in Nat
             /\ LeastDisk(plan, n) <= st.disk[n] /\ st.disk[n] <= MostDisk(plan, n)
             /\ FitsBudgets(n, st.memory[n], st.disk[n])
             /\ NodeMemory(n) \in Nat /\ Hardware[n].budget.disk \in Nat
  <2>1. MemoryUse(plan, n) \in Nat /\ LeastDisk(plan, n) \in Nat /\ MostDisk(plan, n) \in Nat
    BY <1>1, MemoryTotal, DiskTotal
  <2>2. st.disk[n] \in Nat
    BY DEF PlannerState
  <2> QED BY <2>1, <2>2, NodeFacts DEF Booked, BookedOn
<1> HIDE DEF plan
<1>3. WithinBudgets(plan)
  <2>1. ASSUME NEW n \in Nodes PROVE FitsBudgets(n, MemoryUse(plan, n), LeastDisk(plan, n))
    BY <1>2 DEF FitsBudgets
  <2> QED BY <2>1 DEF WithinBudgets
<1>4. NoneCouldTake(d, plan)
  <2>1. SUFFICES ASSUME NEW p \in ShortOf(d, plan), NEW s \in KnownSlots(d), NEW v \in Variants(p),
                        CouldTake(d, plan, p, s, v)
                 PROVE  FALSE
    BY DEF NoneCouldTake
  <2> DEFINE n == NodeOf[s]
  <2>2. n \in Nodes /\ p \in Profiles
    BY PlanConstants DEF KnownSlots, ShortOf
  <2>3. ProfileMemory(v) \in Nat /\ ProfileDisk(v) \in Nat
    BY <2>2, VariantFacts
  <2>4. s \notin st.used
    BY <2>1 DEF CouldTake, Booked, SlotsUsed, plan
  <2>5. FitsBudgets(n, MemoryUse(plan, n) + ProfileMemory(v), MostDisk(plan, n) + ProfileDisk(v))
    BY <2>1 DEF CouldTake
  <2> HIDE DEF n
  <2>6. FitsBudgets(n, st.memory[n] + ProfileMemory(v), st.disk[n] + ProfileDisk(v))
    BY <1>2, <2>2, <2>3, <2>5 DEF FitsBudgets
  <2>7. Refuses(d, st, p)
    BY DEF Booked, plan
  <2> QED BY <2>1, <2>4, <2>6, <2>7 DEF CouldTake, Refuses, n
<1>5. OneOwner(d, plan)
    BY DEF Booked, plan
<1> QED BY <1>3, <1>4, <1>5 DEF Promises, plan

\* Two entries that differ in the mark of draining alone, and two plans with the same
\* entries in another order.
SameEntry(a, b) ==
    /\ a.profile = b.profile /\ a.node = b.node /\ a.place = b.place /\ a.variant = b.variant
    /\ a.warm = b.warm /\ a.mismatch = b.mismatch
Rearranges(f, plan2, plan) ==
    /\ \A i \in DOMAIN plan2 : f[i] \in DOMAIN plan /\ SameEntry(plan2[i], plan[f[i]])
    /\ \A i \in DOMAIN plan : \E j \in DOMAIN plan2 : f[j] = i
    /\ \A i, j \in DOMAIN plan2 : f[i] = f[j] => i = j

\* The copies of a rearranged plan.
LEMMA RearrangedCopies ==
    ASSUME NEW plan, NEW plan2, NEW f, Rearranges(f, plan2, plan), NEW n
    PROVE  /\ \A i \in DOMAIN plan2 : i \in Copies(plan2, n) <=> f[i] \in Copies(plan, n)
           /\ \A i \in DOMAIN plan2 : i \in WarmCopies(plan2, n) <=> f[i] \in WarmCopies(plan, n)
           /\ \A i \in DOMAIN plan2 : VariantAt(plan2, i) = VariantAt(plan, f[i])
           /\ Held(plan2, n) = Held(plan, n)
           /\ \A p : DiskNeeds(plan2, n, p) = DiskNeeds(plan, n, p)
<1>1. \A i \in DOMAIN plan2 : f[i] \in DOMAIN plan /\ SameEntry(plan2[i], plan[f[i]])
    BY DEF Rearranges
<1>2. \A i \in DOMAIN plan : \E j \in DOMAIN plan2 : f[j] = i
    BY DEF Rearranges
<1>3. \A i \in DOMAIN plan2 : i \in Copies(plan2, n) <=> f[i] \in Copies(plan, n)
    BY <1>1 DEF Copies, SameEntry
<1>4. \A i \in DOMAIN plan2 : i \in WarmCopies(plan2, n) <=> f[i] \in WarmCopies(plan, n)
    BY <1>1, <1>3 DEF WarmCopies, SameEntry
<1>5. \A i \in DOMAIN plan2 : VariantAt(plan2, i) = VariantAt(plan, f[i])
    BY <1>1 DEF VariantAt, SameEntry
<1>6. Copies(plan2, n) \subseteq DOMAIN plan2 /\ Copies(plan, n) \subseteq DOMAIN plan
    BY DEF Copies
<1>7. \A i \in DOMAIN plan2 : plan2[i].profile = plan[f[i]].profile
    BY <1>1 DEF SameEntry
<1>8. Held(plan2, n) = Held(plan, n)
    BY <1>2, <1>3, <1>6, <1>7 DEF Held
<1>9. ASSUME NEW p PROVE DiskNeeds(plan2, n, p) = DiskNeeds(plan, n, p)
    BY <1>2, <1>3, <1>5, <1>6, <1>7 DEF DiskNeeds
<1> QED BY <1>3, <1>4, <1>5, <1>8, <1>9

\* A rearranged plan uses as much.
LEMMA RearrangedUse ==
    ASSUME NEW d, NEW plan, IsPlan(d, plan), NEW plan2, IsPlan(d, plan2), NEW f, Rearranges(f, plan2, plan),
           NEW n \in Nodes
    PROVE  /\ MemoryUse(plan2, n) = MemoryUse(plan, n) /\ LeastDisk(plan2, n) = LeastDisk(plan, n)
           /\ MostDisk(plan2, n) = MostDisk(plan, n)
<1> DEFINE S == WarmCopies(plan, n)
           S2 == WarmCopies(plan2, n)
           h == MemoryOf(plan, n)
           g == MemoryOf(plan2, n)
           H == Held(plan, n)
<1>1. S2 \subseteq DOMAIN plan2 /\ S \subseteq DOMAIN plan
    BY DEF WarmCopies, Copies
<1>2. \A x \in S2 : f[x] \in S
    BY <1>1, RearrangedCopies
<1>3. \A x \in S : \E y \in S2 : f[y] = x
    BY <1>1, RearrangedCopies DEF Rearranges
<1>4. \A x, y \in S2 : f[x] = f[y] => x = y
    BY <1>1 DEF Rearranges
<1>5. \A x \in S2 : g[x] = h[f[x]]
    BY <1>1, <1>2, RearrangedCopies DEF MemoryOf
<1>6. /\ IsFiniteSet(S) /\ IsFiniteSet(S2) /\ \A x \in S : h[x] \in Int
      /\ IsTotal(MemoryUse(plan, n), S, h) /\ IsTotal(MemoryUse(plan2, n), S2, g)
    BY MemoryTotal
<1>7. Held(plan2, n) = H /\ \A p : DiskNeeds(plan2, n, p) = DiskNeeds(plan, n, p)
    BY RearrangedCopies
<1>8. /\ IsFiniteSet(H)
      /\ IsTotal(LeastDisk(plan, n), H, LeastOf(plan, n)) /\ IsTotal(LeastDisk(plan2, n), H, LeastOf(plan2, n))
      /\ IsTotal(MostDisk(plan, n), H, MostOf(plan, n)) /\ IsTotal(MostDisk(plan2, n), H, MostOf(plan2, n))
    BY <1>7, DiskTotal
<1>9. \A p \in H : LeastOf(plan, n)[p] = LeastOf(plan2, n)[p] /\ MostOf(plan, n)[p] = MostOf(plan2, n)[p]
    BY <1>7 DEF LeastOf, MostOf
<1> HIDE DEF S, S2, h, g, H
<1>10. MemoryUse(plan, n) = MemoryUse(plan2, n)
    BY <1>2, <1>3, <1>4, <1>5, <1>6, TotalRename
<1>11. LeastDisk(plan, n) = LeastDisk(plan2, n)
    BY <1>8, <1>9, TotalSame
<1>12. MostDisk(plan, n) = MostDisk(plan2, n)
    BY <1>8, <1>9, TotalSame
<1> QED BY <1>10, <1>11, <1>12

\* A rearranged plan promises as much.
LEMMA RearrangedPromises ==
    ASSUME NEW d, NEW plan, IsPlan(d, plan), NEW plan2, IsPlan(d, plan2), NEW f, Rearranges(f, plan2, plan),
           Promises(d, plan)
    PROVE  Promises(d, plan2)
<1>1. \A n \in Nodes : /\ MemoryUse(plan2, n) = MemoryUse(plan, n) /\ LeastDisk(plan2, n) = LeastDisk(plan, n)
                       /\ MostDisk(plan2, n) = MostDisk(plan, n)
    BY RearrangedUse
<1>2. \A i \in DOMAIN plan2 : /\ f[i] \in DOMAIN plan /\ plan2[i].place = plan[f[i]].place
                              /\ plan2[i].profile = plan[f[i]].profile /\ plan2[i].warm = plan[f[i]].warm
                              /\ OnSlot(plan2[i]) = OnSlot(plan[f[i]])
                              /\ IsPinned(d, plan2[i]) = IsPinned(d, plan[f[i]])
    BY DEF Rearranges, SameEntry, OnSlot, Effective, IsPinned
<1>3. \A i \in DOMAIN plan : \E j \in DOMAIN plan2 : f[j] = i
    BY DEF Rearranges
<1>4. \A i, j \in DOMAIN plan2 : f[i] = f[j] => i = j
    BY DEF Rearranges
<1>5. WithinBudgets(plan2)
    BY <1>1 DEF Promises, WithinBudgets
<1>6. OneOwner(d, plan2)
  <2>1. SUFFICES ASSUME NEW i \in DOMAIN plan2, NEW j \in DOMAIN plan2, OnSlot(plan2[i]), OnSlot(plan2[j]),
                        plan2[i].place = plan2[j].place, i # j
                 PROVE  IsPinned(d, plan2[i]) /\ IsPinned(d, plan2[j])
    BY DEF OneOwner
  <2>2. f[i] # f[j] /\ f[i] \in DOMAIN plan /\ f[j] \in DOMAIN plan
    BY <1>2, <1>4, <2>1
  <2>3. OnSlot(plan[f[i]]) /\ OnSlot(plan[f[j]]) /\ plan[f[i]].place = plan[f[j]].place
    BY <1>2, <2>1
  <2>4. IsPinned(d, plan[f[i]]) /\ IsPinned(d, plan[f[j]])
    BY <2>2, <2>3 DEF Promises, OneOwner
  <2> QED BY <1>2, <2>4
<1>7. NoneCouldTake(d, plan2)
  <2>1. SUFFICES ASSUME NEW p \in ShortOf(d, plan2), NEW s \in KnownSlots(d), NEW v \in Variants(p),
                        CouldTake(d, plan2, p, s, v)
                 PROVE  FALSE
    BY DEF NoneCouldTake
  <2>2. p \in ShortOf(d, plan)
    BY <1>2 DEF ShortOf
  <2>3. \A i \in DOMAIN plan : OnSlot(plan[i]) => plan[i].place[2] # s
    <3>1. SUFFICES ASSUME NEW i \in DOMAIN plan, OnSlot(plan[i]) PROVE plan[i].place[2] # s
      OBVIOUS
    <3>2. PICK j \in DOMAIN plan2 : f[j] = i
      BY <1>3
    <3>3. OnSlot(plan2[j]) /\ plan2[j].place = plan[i].place
      BY <1>2, <3>1, <3>2
    <3> QED BY <2>1, <3>3 DEF CouldTake
  <2>4. NodeOf[s] \in Nodes
    BY PlanConstants DEF KnownSlots
  <2>5. CouldTake(d, plan, p, s, v)
    BY <1>1, <2>1, <2>3, <2>4 DEF CouldTake
  <2> QED BY <2>2, <2>5 DEF Promises, NoneCouldTake
<1> QED BY <1>5, <1>6, <1>7 DEF Promises


\* The marks of draining copies leave the rest of the plan as it is.
LEMMA MarkedPlan ==
    ASSUME NEW d, NEW plan \in Seq(Entries(d)), NEW protected, NEW items
    PROVE  /\ MarkAll(plan, protected, items) \in Seq(Entries(d))
           /\ Rearranges([i \in DOMAIN plan |-> i], MarkAll(plan, protected, items), plan)
<1> DEFINE n == Len(plan)
           St == {q \in Seq(Entries(d)) : Len(q) = n /\ \A i \in 1..n : SameEntry(q[i], plan[i])}
           order == [i \in 1..n |-> i]
           f == [i \in DOMAIN plan |-> i]
<1>1. n \in Nat /\ DOMAIN plan = 1..n
    OBVIOUS
<1>2. plan \in St
    BY <1>1 DEF SameEntry
<1>3. ASSUME NEW q \in St, NEW k \in 1..n PROVE MarkOne(q, protected, items, order[k]) \in St
  <2> DEFINE a == [q[k] EXCEPT !.draining = TRUE]
             q2 == [q EXCEPT ![k] = a]
  <2>1. order[k] = k
    OBVIOUS
  <2>2. MarkOne(q, protected, items, k) = q \/ MarkOne(q, protected, items, k) = q2
    BY DEF MarkOne
  <2>3. q \in Seq(Entries(d)) /\ Len(q) = n /\ \A i \in 1..n : SameEntry(q[i], plan[i])
    OBVIOUS
  <2>4. DOMAIN q = 1..n /\ k \in DOMAIN q /\ q[k] \in Entries(d)
    BY <1>1, <2>3
  <2>5. a \in PlanEntry(d) /\ SameEntry(a, q[k])
    BY <2>4 DEF Entries, PlanEntry, SameEntry
  <2>6. a \in Entries(d)
    BY <2>4, <2>5 DEF Entries, GoodEntry, SameEntry
  <2> HIDE DEF a
  <2>7. q2 \in Seq(Entries(d)) /\ Len(q2) = n
    BY <2>3, <2>4, <2>6
  <2>8. \A i \in 1..n : SameEntry(q2[i], plan[i])
    BY <2>3, <2>4, <2>5 DEF SameEntry
  <2> HIDE DEF q2
  <2>9. q2 \in St
    BY <2>7, <2>8
  <2> QED BY <2>1, <2>2, <2>9
<1> HIDE DEF St, n, order
<1>4. MarkAll(plan, protected, items) \in St
  <2>1. Len(plan) = n /\ order = [i \in 1..n |-> i]
    BY DEF n, order
  <2> QED BY <1>1, <1>2, <1>3, <2>1, MarkFold
<1> DEFINE plan2 == MarkAll(plan, protected, items)
<1>5. /\ plan2 \in Seq(Entries(d)) /\ Len(plan2) = n /\ \A i \in 1..n : SameEntry(plan2[i], plan[i])
    BY <1>4 DEF St
<1> HIDE DEF plan2
<1>6. DOMAIN plan2 = 1..n
    BY <1>5
<1>7. \A i \in 1..n : f[i] = i
    BY <1>1
<1> HIDE DEF f
<1>8. Rearranges(f, plan2, plan)
    BY <1>1, <1>5, <1>6, <1>7 DEF Rearranges
<1> QED BY <1>5, <1>8 DEF plan2, f

SlotIdOf(a) == IF a.place[1] = "slot" THEN a.place[2] ELSE 0

\* The sorted plan is the plan in another order.
LEMMA SortedPlan ==
    ASSUME NEW d, NEW plan \in Seq(Entries(d))
    PROVE  /\ SortAssignments(plan) \in Seq(Entries(d))
           /\ \E f : Rearranges(f, SortAssignments(plan), plan)
<1> DEFINE S == DOMAIN plan
           rk == [i \in S |-> <<plan[i].profile, SlotIdOf(plan[i]), i>>]
           R == ByRank(S, rk)
           seq == [k \in 1..Cardinality(S) |-> CHOOSE x \in S :
                      Cardinality({y \in S : LexLess(<<plan[y].profile, SlotIdOf(plan[y]), y>>,
                                                     <<plan[x].profile, SlotIdOf(plan[x]), x>>)}) = k - 1]
           plan2 == SortAssignments(plan)
<1>1. plan2 = [k \in DOMAIN plan |-> plan[seq[k]]]
    BY DEF SortAssignments, Sorted, SlotIdOf
<1>2. Len(plan) \in Nat /\ S = 1..Len(plan) /\ \A i \in S : plan[i] \in Entries(d)
    OBVIOUS
<1>3. IsFiniteSet(S) /\ Cardinality(S) = Len(plan)
  <2>1. IsFiniteSet(1..Len(plan)) /\ Cardinality(1..Len(plan)) = Len(plan)
    BY <1>2, FS_Interval
  <2> QED BY <1>2, <2>1
<1>4. ASSUME NEW i \in S PROVE plan[i].profile \in Int /\ SlotIdOf(plan[i]) \in Int /\ i \in Int
  <2>1. plan[i] \in PlanEntry(d)
    BY <1>2 DEF Entries
  <2>2. plan[i].profile \in Profiles /\ plan[i].place \in Places
    BY <2>1 DEF PlanEntry, PlannedProfiles
  <2>3. plan[i].place[2] \in Nat
    BY <2>2 DEF Places
  <2> QED BY <1>2, <2>2, <2>3, PlanConstants DEF SlotIdOf
<1>5. Ranks3(S, rk)
  <2>1. ASSUME NEW i \in S PROVE \E x, y, z \in Int : rk[i] = <<x, y, z>>
    <3>1. rk[i] = <<plan[i].profile, SlotIdOf(plan[i]), i>>
      OBVIOUS
    <3> HIDE DEF rk
    <3> QED BY <1>4, <3>1
  <2>2. ASSUME NEW i \in S, NEW j \in S, rk[i] = rk[j] PROVE i = j
    BY <2>2
  <2> HIDE DEF rk, S
  <2> QED BY <2>1, <2>2 DEF Ranks3
<1>6. StrictOrder(S, R)
  <2> HIDE DEF rk, S
  <2> QED BY <1>5, RankOrder3
<1>7. \A x \in S : {y \in S : LexLess(<<plan[y].profile, SlotIdOf(plan[y]), y>>,
                                      <<plan[x].profile, SlotIdOf(plan[x]), x>>)} = Below(S, R, x)
    BY DEF ByRank, Below
<1> HIDE DEF S, R, rk
<1>8. ASSUME NEW k \in 1..Cardinality(S)
      PROVE  seq[k] \in S /\ Cardinality(Below(S, R, seq[k])) = k - 1
  <2>1. \E x \in S : Cardinality(Below(S, R, x)) = k - 1
    BY <1>3, <1>6, RankExists
  <2>2. \E x \in S : Cardinality({y \in S : LexLess(<<plan[y].profile, SlotIdOf(plan[y]), y>>,
                                      <<plan[x].profile, SlotIdOf(plan[x]), x>>)}) = k - 1
    BY <1>7, <2>1
  <2>3. /\ seq[k] \in S
        /\ Cardinality({y \in S : LexLess(<<plan[y].profile, SlotIdOf(plan[y]), y>>,
                                          <<plan[seq[k]].profile, SlotIdOf(plan[seq[k]]), seq[k]>>)}) = k - 1
    BY <2>2
  <2> QED BY <1>7, <2>3
<1>9. seq \in [1..Cardinality(S) -> S]
  <2> DEFINE Nth(k) == CHOOSE x \in S : Cardinality({y \in S : LexLess(<<plan[y].profile, SlotIdOf(plan[y]), y>>,
                                                     <<plan[x].profile, SlotIdOf(plan[x]), x>>)}) = k - 1
  <2>1. \A k \in 1..Cardinality(S) : Nth(k) \in S
    BY <1>8
  <2> HIDE DEF Nth
  <2>2. [k \in 1..Cardinality(S) |-> Nth(k)] \in [1..Cardinality(S) -> S]
    BY <2>1
  <2> QED BY <2>2 DEF Nth
<1> HIDE DEF seq
<1>10. Lists(seq, S, R)
    BY <1>8, <1>9 DEF Lists
<1>11. /\ DOMAIN seq = S /\ \A k \in S : seq[k] \in S
       /\ \A x \in S : \E k \in S : seq[k] = x
       /\ \A i, j \in S : seq[i] = seq[j] => i = j
  <2>1. /\ DOMAIN seq = 1..Cardinality(S) /\ \A k \in DOMAIN seq : seq[k] \in S
        /\ \A x \in S : \E k \in DOMAIN seq : seq[k] = x
        /\ \A i, j \in DOMAIN seq : seq[i] = seq[j] => i = j
    BY <1>3, <1>6, <1>10, ListsAll, ZenonT(60)
  <2>2. DOMAIN seq = S
    BY <1>2, <1>3, <2>1
  <2> QED BY <2>1, <2>2
<1>12. DOMAIN plan2 = S /\ \A k \in S : plan2[k] = plan[seq[k]]
    BY <1>1 DEF S
<1>13. plan2 = [k \in 1..Len(plan) |-> plan2[k]]
    BY <1>1, <1>2 DEF S
<1> HIDE DEF plan2
<1>14. plan2 \in Seq(Entries(d))
  <2>1. \A k \in 1..Len(plan) : plan2[k] \in Entries(d)
    BY <1>2, <1>11, <1>12
  <2> QED BY <1>2, <1>13, <2>1, IsASeq
<1>15. Rearranges(seq, plan2, plan)
    BY <1>11, <1>12 DEF Rearranges, SameEntry, S
<1> QED BY <1>14, <1>15 DEF plan2

-----------------------------------------------------------------------------
(* What is proved of the planner *)

\* Of every database, the planner makes a plan of assignments: of profiles with a
\* policy, to slots, caches and missing copies; and the plan keeps its promises.
THEOREM PlanKeepsPromises ==
    ASSUME NEW d, PlanDatabase(d)
    PROVE  RunPlanner(d, FALSE).plan \in Seq(Entries(d)) /\ Promises(d, RunPlanner(d, FALSE).plan)
<1> DEFINE items == PolicyItems(d, FALSE)
           kept == PreserveRuntimeCopies(d, PlaceHardPins(d, NewPlanner, items), items)
           st == PlacePhases(d, kept, Phases(items), FALSE)
           marked == MarkAll(st.plan, st.protected, items)
           st2 == [st EXCEPT !.plan = marked]
           st3 == [st2 EXCEPT !.plan = SortAssignments(st2.plan)]
<1>1. Enumerates(items, ItemSet(d))
    BY ItemsAre
<1>2. RunPlanner(d, FALSE) = st3
    BY DEF RunPlanner, PlanItems, Planned, MarkDraining
<1> HIDE DEF items
<1>3. kept \in Good(d)
  <2>1. PlaceHardPins(d, NewPlanner, items) \in Good(d)
    BY <1>1, NewStep, PinsStep DEF GoodPins
  <2> QED BY <1>1, <2>1, PreserveAll
<1> HIDE DEF kept
<1>4. st \in Good(d)
    BY <1>1, <1>3, PhasesStep
<1> HIDE DEF st
<1>5. st \in PlannerState(d) /\ Booked(d, st) /\ st.plan \in Seq(Entries(d))
    BY <1>4 DEF Good, PlannerState
<1>6. Promises(d, st.plan)
    BY <1>5, BookedPromises
<1>7. marked \in Seq(Entries(d)) /\ \E f : Rearranges(f, marked, st.plan)
    BY <1>5, MarkedPlan
<1>8. st2.plan = marked /\ st3.plan = SortAssignments(marked)
  <2> HIDE DEF marked
  <2>1. st2.plan = marked
    BY <1>5 DEF PlannerState
  <2> HIDE DEF st2
  <2>2. st3.plan = SortAssignments(st2.plan)
    <3>1. st2 \in [{"plan", "protected", "used", "warm", "cached", "missing", "memory", "disk", "nodeWarm", "nodeCache", "rejected"} -> {st2[x] : x \in DOMAIN st2}]
      BY <1>5 DEF PlannerState, st2
    <3> QED BY <3>1
  <2> QED BY <2>1, <2>2
<1> HIDE DEF marked, st2, st3
<1>9. \A q \in Seq(Entries(d)) : IsPlan(d, q)
  <2>1. \A q \in Seq(Entries(d)) : DOMAIN q = 1..Len(q) /\ Len(q) \in Nat /\ \A i \in DOMAIN q : q[i] \in Entries(d)
    OBVIOUS
  <2> QED BY <2>1, FS_Interval DEF IsPlan
<1>10. Promises(d, marked)
    BY <1>5, <1>6, <1>7, <1>9, RearrangedPromises
<1>11. SortAssignments(marked) \in Seq(Entries(d)) /\ \E f : Rearranges(f, SortAssignments(marked), marked)
    BY <1>7, SortedPlan
<1>12. Promises(d, SortAssignments(marked))
    BY <1>7, <1>9, <1>10, <1>11, RearrangedPromises
<1> QED BY <1>2, <1>8, <1>11, <1>12

-----------------------------------------------------------------------------
(* The explanation of a plan: the planner's choices and the explainer's *)

\* explainPlacementCandidates lists all candidates in the second.
LEMMA ExplainListed ==
    ASSUME NEW d, PlanDatabase(d), NEW p \in Profiles
    PROVE  /\ StrictOrder(AllCandidates(d, p), ExplainOrder(AllCandidates(d, p)))
           /\ Lists(ExplainCandidates(d, p), AllCandidates(d, p), ExplainOrder(AllCandidates(d, p)))
<1> DEFINE S == AllCandidates(d, p)
           rk == [c \in S |-> <<-c.score, c.slot, c.variant.id>>]
           R == ByRank(S, rk)
           seq == ExplainCandidates(d, p)
<1>1. IsFiniteSet(S)
    BY CandidateFacts
<1>2. Ranks3(S, rk)
  <2>1. ASSUME NEW c \in S PROVE \E x, y, z \in Int : rk[c] = <<x, y, z>>
    <3>1. c.score \in Int /\ c.slot \in Slots /\ c.variant \in Variants(p)
      BY CandidateFacts
    <3>2. -c.score \in Int /\ c.slot \in Int /\ c.variant.id \in Int
      BY <3>1, PlanConstants, VariantFacts
    <3>3. rk[c] = <<-c.score, c.slot, c.variant.id>>
      OBVIOUS
    <3> HIDE DEF rk
    <3> QED BY <3>2, <3>3
  <2>2. ASSUME NEW c \in S, NEW e \in S, rk[c] = rk[e] PROVE c = e
    <3>1. c.slot = e.slot /\ c.variant.id = e.variant.id
      BY <2>2
    <3> HIDE DEF rk
    <3> QED BY <3>1, CandidateNamed
  <2> HIDE DEF rk, S
  <2> QED BY <2>1, <2>2 DEF Ranks3
<1>3. StrictOrder(S, R)
  <2> HIDE DEF rk, S
  <2> QED BY <1>2, RankOrder3
<1>4. \A x \in S : {y \in S : LexLess(<<-y.score, y.slot, y.variant.id>>, <<-x.score, x.slot, x.variant.id>>)}
                      = Below(S, R, x)
    BY DEF ByRank, Below
<1>5. seq = [k \in 1..Cardinality(S) |-> CHOOSE x \in S :
                Cardinality({y \in S : LexLess(<<-y.score, y.slot, y.variant.id>>,
                                               <<-x.score, x.slot, x.variant.id>>)}) = k - 1]
    BY DEF ExplainCandidates, Sorted
<1>6. R = ExplainOrder(S)
    BY DEF ExplainOrder
<1> HIDE DEF S, R, rk
<1>7. ASSUME NEW k \in 1..Cardinality(S)
      PROVE  seq[k] \in S /\ Cardinality(Below(S, R, seq[k])) = k - 1
  <2>1. \E x \in S : Cardinality(Below(S, R, x)) = k - 1
    BY <1>1, <1>3, RankExists
  <2>2. \E x \in S : Cardinality({y \in S : LexLess(<<-y.score, y.slot, y.variant.id>>,
                                                    <<-x.score, x.slot, x.variant.id>>)}) = k - 1
    BY <1>4, <2>1
  <2>3. /\ seq[k] \in S
        /\ Cardinality({y \in S : LexLess(<<-y.score, y.slot, y.variant.id>>,
                                          <<-seq[k].score, seq[k].slot, seq[k].variant.id>>)}) = k - 1
    BY <1>5, <2>2
  <2> QED BY <1>4, <2>3
<1>8. seq = [k \in 1..Cardinality(S) |-> seq[k]]
    BY <1>5
<1> HIDE DEF seq
<1>9. Lists(seq, S, R)
    BY <1>7, <1>8 DEF Lists
<1> QED BY <1>3, <1>6, <1>9 DEF seq, S

\* When variants are listed by id, the two orders are one.
LEMMA OrdersAgree ==
    ASSUME VariantsById, NEW d, PlanDatabase(d), NEW p \in Profiles, NEW x \in Fitting(d, p), NEW y \in Fitting(d, p),
           <<x, y>> \in CandidateOrder(Fitting(d, p))
    PROVE  <<x, y>> \in ExplainOrder(AllCandidates(d, p))
<1>1. x \in AllCandidates(d, p) /\ y \in AllCandidates(d, p)
    BY DEF Fitting
<1>2. LexLess(<<-x.score, x.slot, x.place>>, <<-y.score, y.slot, y.place>>)
    BY DEF CandidateOrder, ByRank
<1>3. \/ -x.score < -y.score
      \/ -x.score = -y.score /\ (x.slot < y.slot \/ (x.slot = y.slot /\ x.place < y.place))
    BY <1>2, Lex3
<1>4. x.place < y.place => x.variant.id < y.variant.id
    BY <1>1, CandidateFacts DEF VariantsById
<1>5. LexLess(<<-x.score, x.slot, x.variant.id>>, <<-y.score, y.slot, y.variant.id>>)
    BY <1>3, <1>4, Lex3
<1> QED BY <1>1, <1>5 DEF ExplainOrder, ByRank

\* The first of two lists with the same elements to choose from, in the same order.
LEMMA FirstAgrees ==
    ASSUME NEW S1, IsFiniteSet(S1), NEW R1, StrictOrder(S1, R1), NEW s1, Lists(s1, S1, R1),
           NEW S2, IsFiniteSet(S2), NEW R2, StrictOrder(S2, R2), NEW s2, Lists(s2, S2, R2),
           \A x, y \in S2 : <<x, y>> \in R2 => <<x, y>> \in R1,
           NEW I1 \in SUBSET DOMAIN s1, NEW I2 \in SUBSET DOMAIN s2,
           \A i \in I1 : \E j \in I2 : s2[j] = s1[i],
           \A j \in I2 : \E i \in I1 : s1[i] = s2[j]
    PROVE  FirstOf(s1, I1) = FirstOf(s2, I2)
<1>1. /\ I1 # {} => I2 # {}
      /\ I2 # {} => I1 # {}
    OBVIOUS
<1>2. /\ Cardinality(S1) \in Nat /\ DOMAIN s1 = 1..Cardinality(S1)
      /\ \A i, j \in DOMAIN s1 : i < j <=> <<s1[i], s1[j]>> \in R1
    BY ListsAll
<1>3. /\ Cardinality(S2) \in Nat /\ DOMAIN s2 = 1..Cardinality(S2) /\ \A k \in DOMAIN s2 : s2[k] \in S2
      /\ \A i, j \in DOMAIN s2 : i < j <=> <<s2[i], s2[j]>> \in R2
    BY ListsAll
<1>4. ASSUME I1 # {} PROVE s1[Min(I1)] = s2[Min(I2)]
  <2> DEFINE m1 == Min(I1)
             m2 == Min(I2)
  <2>1. I1 \subseteq Nat /\ I2 \subseteq Nat /\ I2 # {}
    <3>1. 1..Cardinality(S1) \subseteq Nat /\ 1..Cardinality(S2) \subseteq Nat
      BY <1>2, <1>3
    <3> QED BY <1>1, <1>2, <1>3, <1>4, <3>1
  <2>2. m1 \in I1 /\ \A x \in I1 : m1 <= x
    BY <1>4, <2>1, MinOfNat
  <2>3. m2 \in I2 /\ \A x \in I2 : m2 <= x
    BY <2>1, MinOfNat
  <2> HIDE DEF m1, m2
  <2>4. PICK i \in I1 : s1[i] = s2[m2]
    BY <2>3
  <2>5. PICK j \in I2 : s2[j] = s1[m1]
    BY <2>2
  <2>6. ~(m2 < j)
    <3>1. SUFFICES ASSUME m2 < j PROVE FALSE
      OBVIOUS
    <3>2. <<s2[m2], s2[j]>> \in R2 /\ s2[m2] \in S2 /\ s2[j] \in S2
      BY <1>3, <2>3, <3>1
    <3>3. <<s1[i], s1[m1]>> \in R1
      BY <2>4, <2>5, <3>2
    <3>4. i < m1
      BY <1>2, <2>2, <3>3
    <3> QED BY <2>1, <2>2, <3>4
  <2>7. m2 = j
    BY <2>1, <2>3, <2>6
  <2> QED BY <2>5, <2>7 DEF m1, m2
<1> QED BY <1>1, <1>4 DEF FirstOf

\* A reason is given exactly when its condition holds.
LEMMA ReasonEmpty ==
    ASSUME NEW c, NEW name
    PROVE  Reason(c, name) = {} <=> ~c
BY DEF Reason

\* A candidate that nothing speaks against is one that the planner lists.
LEMMA BaseAgrees ==
    ASSUME NEW d, NEW p \in Profiles, NEW item, item.policy = d.policy[p], NEW c \in AllCandidates(d, p)
    PROVE  BaseReasons(d, item, c) = {} <=> c \in Fitting(d, p)
<1> DEFINE n == NodeOf[c.slot]
           policy == d.policy[p]
<1>1. NodeUsable(d, n, policy) /\ Fits(d, c.variant, c.slot) => NodeReasons(d, n, policy) = {}
  <2>1. FitReasons(d, c.variant, c.slot) = {} => Reason(d.node[n].state = "disabled" \/ d.node[n].disabled, "node_disabled") = {}
    BY DEF FitReasons
  <2>2. Fits(d, c.variant, c.slot) => ~(d.node[n].state = "disabled" \/ d.node[n].disabled)
    BY <2>1, ReasonEmpty DEF Fits
  <2> QED BY <2>2 DEF NodeUsable, NodeReasons, Reason
<1>2. NodeReasons(d, n, policy) = {} => NodeUsable(d, n, policy)
  <2>1. SUFFICES ASSUME NodeReasons(d, n, policy) = {} PROVE NodeUsable(d, n, policy)
    OBVIOUS
  <2>2. d.node[n].state # "absent"
    BY <2>1 DEF NodeReasons
  <2>3. /\ Reason(~d.node[n].approved, "node_not_approved") = {}
        /\ Reason(n \in policy.deny, "node_denied") = {}
        /\ Reason(~(policy.tags \subseteq Hardware[n].tags), "missing_required_tags") = {}
        /\ (IF d.node[n].state = "disabled" \/ d.node[n].disabled THEN {"node_disabled"}
            ELSE Reason(d.node[n].state # "online", "node_not_online")) = {}
    BY <2>1, <2>2 DEF NodeReasons
  <2> QED BY <2>3 DEF NodeUsable, Reason
<1>3. BaseReasons(d, item, c) = {} <=> NodeReasons(d, n, policy) = {} /\ FitReasons(d, c.variant, c.slot) = {}
    BY DEF BaseReasons
<1> QED BY <1>1, <1>2, <1>3 DEF Fits, Fitting

\* A candidate without budget reasons is one the planner may use.
LEMMA BudgetAgrees ==
    ASSUME NEW d, NEW st, NEW item, NEW c, NEW warm \in BOOLEAN
    PROVE  BudgetReasons(d, st, item, c, warm) = {} <=> CanUseCandidate(d, st, item, c, warm)
<1> DEFINE n == NodeOf[c.slot]
           R1 == Reason(warm /\ Suppressed(d, n), "worker_flapping")
           R2 == LimitReasons(st, item, n, warm)
           R3 == Reason(~WithinDiskBudget(st, n, c.variant), "resource_exhausted_disk")
           R4 == Reason(warm /\ ~WithinMemoryBudget(st, n, c.variant), "resource_exhausted_memory")
<1>1. BudgetReasons(d, st, item, c, warm) = UNION {R1, R2, R3, R4}
    BY DEF BudgetReasons
<1>2. CanUseCandidate(d, st, item, c, warm) <=> R1 = {} /\ R2 = {} /\ R3 = {} /\ R4 = {}
    BY ReasonEmpty DEF CanUseCandidate
<1> HIDE DEF R1, R2, R3, R4
<1> QED BY <1>1, <1>2

\* A slot that is not available has a reason.
LEMMA SlotAgrees ==
    ASSUME NEW d, NEW s, NEW p, NEW v, ~SlotAvailableForWarm(d, s, p, v)
    PROVE  SlotReasons(d, s, p, v) # {}
<1> DEFINE R1 == Reason(d.slot[s].task, "slot_active_task")
           R2 == Reason(d.slot[s].state = "serving" /\ ~SlotProfileCurrent(d, s, p, v), "slot_serving_other_profile")
           R3 == Reason(d.slot[s].state = "unavailable", "slot_unavailable")
           R4 == Reason(d.slot[s].state = "error", "slot_error")
<1>1. SlotReasons(d, s, p, v) = UNION {R1, R2, R3, R4}
    BY DEF SlotReasons
<1>2. R1 # {} \/ R2 # {} \/ R3 # {} \/ R4 # {}
    BY ReasonEmpty DEF SlotAvailableForWarm
<1> HIDE DEF R1, R2, R3, R4
<1> QED BY <1>1, <1>2

\* The explainer has nothing against a warm copy where the planner may place one.
LEMMA WarmAgrees ==
    ASSUME NEW d, NEW p \in Profiles, NEW st, NEW item, item.policy = d.policy[p], item.profile = p,
           NEW c \in AllCandidates(d, p)
    PROVE  WarmReasons(d, st, item, c) = {}
           <=> /\ c \in Fitting(d, p) /\ c.slot \notin st.used /\ SlotAvailableForWarm(d, c.slot, p, c.variant)
               /\ CanUseCandidate(d, st, item, c, TRUE)
<1> DEFINE R1 == BaseReasons(d, item, c)
           R2 == Reason(c.slot \in st.used, "slot_already_reserved")
           R3 == IF SlotAvailableForWarm(d, c.slot, item.profile, c.variant) THEN {}
                 ELSE SlotReasons(d, c.slot, item.profile, c.variant)
           R4 == BudgetReasons(d, st, item, c, TRUE)
<1>1. WarmReasons(d, st, item, c) = UNION {R1, R2, R3, R4}
    BY DEF WarmReasons
<1>2. R1 = {} <=> c \in Fitting(d, p)
    BY BaseAgrees
<1>3. R2 = {} <=> c.slot \notin st.used
    BY ReasonEmpty
<1>4. R3 = {} <=> SlotAvailableForWarm(d, c.slot, p, c.variant)
    BY SlotAgrees
<1>5. R4 = {} <=> CanUseCandidate(d, st, item, c, TRUE)
    BY BudgetAgrees
<1> HIDE DEF R1, R2, R3, R4
<1> QED BY <1>1, <1>2, <1>3, <1>4, <1>5

\* The limits and budgets look at the tables and the policy alone.
LEMMA UseAgrees ==
    ASSUME NEW d, NEW a, NEW st, a.used = st.used, a.nodeWarm = st.nodeWarm, a.nodeCache = st.nodeCache,
           a.disk = st.disk, a.memory = st.memory,
           NEW e, NEW item, e.profile = item.profile, e.policy = item.policy, NEW c, NEW warm \in BOOLEAN
    PROVE  CanUseCandidate(d, a, e, c, warm) <=> CanUseCandidate(d, st, item, c, warm)
<1>1. LimitReasons(a, e, NodeOf[c.slot], warm) = LimitReasons(st, item, NodeOf[c.slot], warm)
    BY DEF LimitReasons
<1>2. WithinDiskBudget(a, NodeOf[c.slot], c.variant) <=> WithinDiskBudget(st, NodeOf[c.slot], c.variant)
    BY DEF WithinDiskBudget
<1>3. WithinMemoryBudget(a, NodeOf[c.slot], c.variant) <=> WithinMemoryBudget(st, NodeOf[c.slot], c.variant)
    BY DEF WithinMemoryBudget
<1> QED BY <1>1, <1>2, <1>3 DEF CanUseCandidate

\* a has the tables of st.
SameTables(a, st) ==
    /\ a.used = st.used /\ a.nodeWarm = st.nodeWarm /\ a.nodeCache = st.nodeCache
    /\ a.disk = st.disk /\ a.memory = st.memory

\* nextWarmCandidate finds the same candidate by reasons as without.
LEMMA WarmChoice ==
    ASSUME VariantsById, NEW d, PlanDatabase(d), NEW p \in Profiles, NEW a, NEW st, SameTables(a, st)
    PROVE  NextWarmExplain(d, a, PolicyItem(d, p, TRUE)) = NextWarm(d, st, PolicyItem(d, p, FALSE))
<1> DEFINE e == PolicyItem(d, p, TRUE)
           item == PolicyItem(d, p, FALSE)
           s1 == ExplainCandidates(d, p)
           s2 == PlacementCandidates(d, p)
           S1 == AllCandidates(d, p)
           S2 == Fitting(d, p)
           R1 == ExplainOrder(S1)
           R2 == CandidateOrder(S2)
           I1 == {i \in DOMAIN s1 : WarmReasons(d, a, e, s1[i]) = {}}
           Usable(c) == /\ c.slot \notin st.used /\ SlotAvailableForWarm(d, c.slot, p, c.variant)
                        /\ CanUseCandidate(d, st, item, c, TRUE)
           I2 == {i \in DOMAIN s2 : Usable(s2[i])}
<1>1. /\ e.profile = p /\ e.policy = d.policy[p] /\ e.candidates = s1
      /\ item.profile = p /\ item.policy = d.policy[p] /\ item.candidates = s2
    BY DEF PolicyItem
<1> HIDE DEF e, item
<1>2. NextWarmExplain(d, a, e) = FirstOf(s1, I1) /\ NextWarm(d, st, item) = FirstOf(s2, I2)
    BY <1>1 DEF NextWarmExplain, NextWarm
<1>3. /\ IsFiniteSet(S1) /\ StrictOrder(S1, R1) /\ Lists(s1, S1, R1)
      /\ S2 \subseteq S1 /\ IsFiniteSet(S2) /\ StrictOrder(S2, R2) /\ Lists(s2, S2, R2)
    BY ExplainListed, CandidatesListed, CandidateFacts
<1>4. \A x, y \in S2 : <<x, y>> \in R2 => <<x, y>> \in R1
    BY OrdersAgree
<1>5. \A c \in S1 : WarmReasons(d, a, e, c) = {} <=> c \in S2 /\ Usable(c)
  <2>1. ASSUME NEW c \in S1
        PROVE  /\ WarmReasons(d, a, e, c) = {}
                  <=> /\ c \in S2 /\ c.slot \notin a.used /\ SlotAvailableForWarm(d, c.slot, p, c.variant)
                      /\ CanUseCandidate(d, a, e, c, TRUE)
               /\ CanUseCandidate(d, a, e, c, TRUE) <=> CanUseCandidate(d, st, item, c, TRUE)
    <3>1. WarmReasons(d, a, e, c) = {}
              <=> /\ c \in S2 /\ c.slot \notin a.used /\ SlotAvailableForWarm(d, c.slot, p, c.variant)
                  /\ CanUseCandidate(d, a, e, c, TRUE)
      BY <1>1, WarmAgrees
    <3>2. CanUseCandidate(d, a, e, c, TRUE) <=> CanUseCandidate(d, st, item, c, TRUE)
      BY <1>1, UseAgrees DEF SameTables
    <3> QED BY <3>1, <3>2
  <2> QED BY <2>1 DEF SameTables
<1> HIDE DEF s1, s2, S1, S2, R1, R2, Usable
<1>6. /\ \A k \in DOMAIN s1 : s1[k] \in S1
      /\ \A x \in S1 : \E k \in DOMAIN s1 : s1[k] = x
    BY <1>3, ListsAll
<1>7. /\ \A k \in DOMAIN s2 : s2[k] \in S2
      /\ \A x \in S2 : \E k \in DOMAIN s2 : s2[k] = x
    BY <1>3, ListsAll
<1>8. \A i \in I1 : \E j \in I2 : s2[j] = s1[i]
    BY <1>5, <1>6, <1>7
<1>9. \A j \in I2 : \E i \in I1 : s1[i] = s2[j]
    BY <1>3, <1>5, <1>6, <1>7
<1>10. I1 \in SUBSET DOMAIN s1 /\ I2 \in SUBSET DOMAIN s2
    OBVIOUS
<1> HIDE DEF I1, I2
<1>11. FirstOf(s1, I1) = FirstOf(s2, I2)
    BY <1>3, <1>4, <1>8, <1>9, <1>10, FirstAgrees
<1> QED BY <1>2, <1>11 DEF e, item

\* nextCacheCandidate too, which looks at the best candidate of each node.
LEMMA CacheChoice ==
    ASSUME VariantsById, NEW d, PlanDatabase(d), NEW p \in Profiles, NEW a, NEW st, SameTables(a, st)
    PROVE  NextCacheExplain(d, a, PolicyItem(d, p, TRUE)) = NextCache(d, st, PolicyItem(d, p, FALSE))
<1> DEFINE e == PolicyItem(d, p, TRUE)
           item == PolicyItem(d, p, FALSE)
           s1 == ExplainCandidates(d, p)
           s2 == PlacementCandidates(d, p)
           S1 == AllCandidates(d, p)
           S2 == Fitting(d, p)
           R1 == ExplainOrder(S1)
           R2 == CandidateOrder(S2)
           Free(c) == p \notin st.nodeCache[NodeOf[c.slot]]
           E1 == {i \in DOMAIN s1 : BaseReasons(d, e, s1[i]) = {} /\ p \notin a.nodeCache[NodeOf[s1[i].slot]]}
           E2 == {i \in DOMAIN s2 : Free(s2[i])}
           Usable(c) == CanUseCandidate(d, st, item, c, FALSE)
           I1 == {i \in BestOfNode(s1, E1) : BaseReasons(d, e, s1[i]) \cup BudgetReasons(d, a, e, s1[i], FALSE) = {}}
           I2 == {i \in BestOfNode(s2, E2) : Usable(s2[i])}
<1>1. /\ e.profile = p /\ e.policy = d.policy[p] /\ e.candidates = s1
      /\ item.profile = p /\ item.policy = d.policy[p] /\ item.candidates = s2
    BY DEF PolicyItem
<1> HIDE DEF e, item
<1>2. NextCacheExplain(d, a, e) = FirstOf(s1, I1) /\ NextCache(d, st, item) = FirstOf(s2, I2)
    BY <1>1 DEF NextCacheExplain, NextCache
<1>3. /\ IsFiniteSet(S1) /\ StrictOrder(S1, R1) /\ Lists(s1, S1, R1)
      /\ S2 \subseteq S1 /\ IsFiniteSet(S2) /\ StrictOrder(S2, R2) /\ Lists(s2, S2, R2)
    BY ExplainListed, CandidatesListed, CandidateFacts
<1>4. \A x, y \in S2 : <<x, y>> \in R2 => <<x, y>> \in R1
    BY OrdersAgree
<1>5. \A c \in S1 : BaseReasons(d, e, c) = {} <=> c \in S2
    BY <1>1, BaseAgrees
<1>6. \A c : BudgetReasons(d, a, e, c, FALSE) = {} <=> Usable(c)
  <2>1. ASSUME NEW c
        PROVE  BudgetReasons(d, a, e, c, FALSE) = {} <=> CanUseCandidate(d, st, item, c, FALSE)
    <3>1. BudgetReasons(d, a, e, c, FALSE) = {} <=> CanUseCandidate(d, a, e, c, FALSE)
      BY BudgetAgrees
    <3>2. CanUseCandidate(d, a, e, c, FALSE) <=> CanUseCandidate(d, st, item, c, FALSE)
      BY <1>1, UseAgrees DEF SameTables
    <3> QED BY <3>1, <3>2
  <2> QED BY <2>1
<1>7. \A c : p \notin a.nodeCache[NodeOf[c.slot]] <=> Free(c)
    BY DEF SameTables
<1> HIDE DEF s1, s2, S1, S2, R1, R2, Usable, Free
<1>8. /\ DOMAIN s1 = 1..Cardinality(S1) /\ Cardinality(S1) \in Nat
      /\ \A k \in DOMAIN s1 : s1[k] \in S1
      /\ \A x \in S1 : \E k \in DOMAIN s1 : s1[k] = x
      /\ \A i, j \in DOMAIN s1 : i < j <=> <<s1[i], s1[j]>> \in R1
    BY <1>3, ListsAll
<1>9. /\ DOMAIN s2 = 1..Cardinality(S2) /\ Cardinality(S2) \in Nat
      /\ \A k \in DOMAIN s2 : s2[k] \in S2
      /\ \A x \in S2 : \E k \in DOMAIN s2 : s2[k] = x
      /\ \A i, j \in DOMAIN s2 : i < j <=> <<s2[i], s2[j]>> \in R2
    BY <1>3, ListsAll
<1>10. \A i \in DOMAIN s1 : i \in E1 <=> s1[i] \in S2 /\ Free(s1[i])
    BY <1>5, <1>7, <1>8
<1>11. ASSUME NEW i \in DOMAIN s1, NEW j \in DOMAIN s2, s1[i] = s2[j], NEW k \in DOMAIN s1, NEW m \in DOMAIN s2, s1[k] = s2[m]
       PROVE  k < i <=> m < j
  <2>1. m < j => k < i
    BY <1>4, <1>8, <1>9, <1>11
  <2>2. j < m => i < k
    BY <1>4, <1>8, <1>9, <1>11
  <2>3. j = m => ~(k < i)
    <3>1. SUFFICES ASSUME j = m, k < i PROVE FALSE
      OBVIOUS
    <3>2. <<s1[k], s1[i]>> \in R1 /\ s1[k] = s1[i] /\ s1[i] \in S1
      BY <1>8, <1>11, <3>1
    <3> QED BY <1>3, <3>2 DEF StrictOrder
  <2>4. j \in Nat /\ m \in Nat /\ i \in Nat /\ k \in Nat
    <3>1. 1..Cardinality(S1) \subseteq Nat /\ 1..Cardinality(S2) \subseteq Nat
      BY <1>8, <1>9
    <3> QED BY <1>8, <1>9, <3>1
  <2> QED BY <2>1, <2>2, <2>3, <2>4
<1> HIDE DEF E1
<1>12. ASSUME NEW i \in DOMAIN s1, NEW j \in DOMAIN s2, s1[i] = s2[j]
       PROVE  i \in BestOfNode(s1, E1) <=> j \in BestOfNode(s2, E2)
  <2>1. i \in E1 <=> j \in E2
    BY <1>9, <1>10, <1>12
  <2>2. ASSUME i \in BestOfNode(s1, E1), NEW m \in E2, m < j
        PROVE  NodeOf[s2[m].slot] # NodeOf[s2[j].slot]
    <3>1. m \in DOMAIN s2 /\ s2[m] \in S1 /\ s2[m] \in S2 /\ Free(s2[m])
      BY <1>3, <1>9
    <3>2. PICK k \in DOMAIN s1 : s1[k] = s2[m]
      BY <1>8, <3>1
    <3>3. k \in E1 /\ k < i
      BY <1>10, <1>11, <1>12, <2>2, <3>1, <3>2
    <3>4. NodeOf[s1[k].slot] # NodeOf[s1[i].slot]
      BY <2>2, <3>3 DEF BestOfNode
    <3> QED BY <1>12, <3>2, <3>4
  <2>3. ASSUME j \in BestOfNode(s2, E2), NEW k \in E1, k < i
        PROVE  NodeOf[s1[k].slot] # NodeOf[s1[i].slot]
    <3>1. k \in DOMAIN s1 /\ s1[k] \in S2 /\ Free(s1[k])
      BY <1>10 DEF E1
    <3>2. PICK m \in DOMAIN s2 : s2[m] = s1[k]
      BY <1>9, <3>1
    <3>3. m \in E2 /\ m < j
      BY <1>11, <1>12, <2>3, <3>1, <3>2
    <3>4. NodeOf[s2[m].slot] # NodeOf[s2[j].slot]
      BY <2>3, <3>3 DEF BestOfNode
    <3> QED BY <1>12, <3>2, <3>4
  <2> HIDE DEF E2
  <2> QED BY <2>1, <2>2, <2>3 DEF BestOfNode
<1>13. BestOfNode(s1, E1) \subseteq DOMAIN s1 /\ BestOfNode(s2, E2) \subseteq DOMAIN s2
    BY DEF BestOfNode, E1
<1>14. \A i \in BestOfNode(s1, E1) : s1[i] \in S2 /\ BaseReasons(d, e, s1[i]) = {}
  <2>1. BestOfNode(s1, E1) \subseteq E1
    BY DEF BestOfNode
  <2> QED BY <1>10, <1>13, <2>1 DEF E1
<1> HIDE DEF E2
<1>15. \A i \in I1 : \E j \in I2 : s2[j] = s1[i]
  <2>1. SUFFICES ASSUME NEW i \in I1 PROVE \E j \in I2 : s2[j] = s1[i]
    OBVIOUS
  <2>2. i \in DOMAIN s1 /\ s1[i] \in S2
    BY <1>13, <1>14
  <2>3. PICK j \in DOMAIN s2 : s2[j] = s1[i]
    BY <1>9, <2>2
  <2>4. BudgetReasons(d, a, e, s1[i], FALSE) = {}
    OBVIOUS
  <2>5. j \in BestOfNode(s2, E2) /\ Usable(s2[j])
    BY <1>6, <1>12, <2>2, <2>3, <2>4
  <2> QED BY <2>3, <2>5
<1>16. \A j \in I2 : \E i \in I1 : s1[i] = s2[j]
  <2>1. SUFFICES ASSUME NEW j \in I2 PROVE \E i \in I1 : s1[i] = s2[j]
    OBVIOUS
  <2>2. j \in DOMAIN s2 /\ s2[j] \in S1
    BY <1>3, <1>9, <1>13
  <2>3. PICK i \in DOMAIN s1 : s1[i] = s2[j]
    BY <1>8, <2>2
  <2>4. i \in BestOfNode(s1, E1)
    BY <1>12, <2>2, <2>3
  <2>5. BaseReasons(d, e, s1[i]) = {} /\ BudgetReasons(d, a, e, s1[i], FALSE) = {}
    BY <1>6, <1>14, <2>3, <2>4
  <2> QED BY <2>3, <2>4, <2>5
<1>17. I1 \in SUBSET DOMAIN s1 /\ I2 \in SUBSET DOMAIN s2
    BY <1>13
<1> HIDE DEF I1, I2
<1>18. FirstOf(s1, I1) = FirstOf(s2, I2)
    BY <1>3, <1>4, <1>15, <1>16, <1>17, FirstAgrees
<1> QED BY <1>2, <1>18 DEF e, item

\* The two sides of a relation.
LEMMA PairSides ==
    ASSUME NEW X, NEW Y, NEW Rel \in SUBSET (X \X Y)
    PROVE  /\ \A x \in {q[1] : q \in Rel} : \E y \in {q[2] : q \in Rel} : <<x, y>> \in Rel
           /\ \A y \in {q[2] : q \in Rel} : \E x \in {q[1] : q \in Rel} : <<x, y>> \in Rel
           /\ \A x, y : <<x, y>> \in Rel => x \in {q[1] : q \in Rel} /\ y \in {q[2] : q \in Rel}
<1>1. \A q \in Rel : q = <<q[1], q[2]>>
    OBVIOUS
<1>2. ASSUME NEW x, NEW y, <<x, y>> \in Rel PROVE x \in {q[1] : q \in Rel} /\ y \in {q[2] : q \in Rel}
  <2>1. \E q \in Rel : q[1] = x
    BY <1>2
  <2>2. \E q \in Rel : q[2] = y
    BY <1>2
  <2> QED BY <2>1, <2>2
<1>3. ASSUME NEW x \in {q[1] : q \in Rel} PROVE \E y \in {q[2] : q \in Rel} : <<x, y>> \in Rel
  <2>1. PICK q \in Rel : x = q[1]
    OBVIOUS
  <2> QED BY <1>1, <2>1
<1>4. ASSUME NEW y \in {q[2] : q \in Rel} PROVE \E x \in {q[1] : q \in Rel} : <<x, y>> \in Rel
  <2>1. PICK q \in Rel : y = q[2]
    OBVIOUS
  <2> QED BY <1>1, <2>1
<1> QED BY <1>2, <1>3, <1>4

\* The rounds of the explainer and of the planner, side by side.
LEMMA RoundsPair ==
    ASSUME NEW X, NEW Y, NEW Rel \in SUBSET (X \X Y), NEW d, NEW told, NEW phase, NEW a, NEW st, <<a, st>> \in Rel, NEW n \in Nat,
           1..(told.target - (IF told.warm THEN a.warm[told.item.profile] ELSE a.cached[told.item.profile])) = 1..n,
           1..(phase.target - (IF phase.warm THEN st.warm[phase.item.profile] ELSE st.cached[phase.item.profile])) = 1..n,
           \A x, y : <<x, y>> \in Rel => <<PlaceCopy(d, x, told.item, told.warm, TRUE),
                                          PlaceCopy(d, y, phase.item, phase.warm, FALSE)>> \in Rel
    PROVE  <<PlaceUntil(d, a, told, TRUE), PlaceUntil(d, st, phase, FALSE)>> \in Rel
<1> DEFINE A == {q[1] : q \in Rel}
           B == {q[2] : q \in Rel}
<1>1. /\ \A x \in A : \E y \in B : <<x, y>> \in Rel
      /\ \A y \in B : \E x \in A : <<x, y>> \in Rel
      /\ \A x, y : <<x, y>> \in Rel => x \in A /\ y \in B
    BY PairSides
<1> HIDE DEF A, B
<1>2. a \in A /\ st \in B
    BY <1>1
<1>3. \A x \in A, k \in 1..n : PlaceCopy(d, x, told.item, told.warm, TRUE) \in A
    BY <1>1
<1>4. \A y \in B, k \in 1..n : PlaceCopy(d, y, phase.item, phase.warm, FALSE) \in B
    BY <1>1
<1>5. PICK f : IsRounds(f, d, a, told, TRUE, n)
    BY <1>2, <1>3, RoundsRun
<1>6. PICK g : IsRounds(g, d, st, phase, FALSE, n)
    BY <1>2, <1>4, RoundsRun
<1> DEFINE h == [T \in SUBSET (1..n) |-> <<f[T], g[T]>>]
<1>7. \A T \in SUBSET (1..n) : h[T] = <<f[T], g[T]>>
    OBVIOUS
<1> HIDE DEF h
<1>8. h[{}] \in Rel
    BY <1>5, <1>6, <1>7 DEF IsRounds
<1>9. ASSUME NEW T \in SUBSET (1..n), T # {}, h[T \ {Max(T)}] \in Rel PROVE h[T] \in Rel
  <2>1. Max(T) \in 1..n
    BY <1>9, MaxInSet
  <2>2. T \ {Max(T)} \in SUBSET (1..n)
    OBVIOUS
  <2>3. <<f[T \ {Max(T)}], g[T \ {Max(T)}]>> \in Rel
    BY <1>7, <1>9, <2>2
  <2> DEFINE x == f[T \ {Max(T)}]
             y == g[T \ {Max(T)}]
  <2>4. <<PlaceCopy(d, x, told.item, told.warm, TRUE), PlaceCopy(d, y, phase.item, phase.warm, FALSE)>> \in Rel
    <3> HIDE DEF x, y
    <3>1. <<x, y>> \in Rel
      BY <2>3 DEF x, y
    <3> QED BY <2>1, <3>1
  <2> QED BY <1>5, <1>6, <1>7, <1>9, <2>4 DEF IsRounds
<1>10. \A k \in 0..n : h[1..k] \in Rel
    BY <1>8, <1>9, FoldPrefixes
<1>11. 1..n \in SUBSET (1..n) /\ n \in 0..n
    OBVIOUS
<1>12. h[1..n] \in Rel /\ h[1..n] = <<f[1..n], g[1..n]>>
    BY <1>7, <1>10, <1>11
<1> QED BY <1>5, <1>6, <1>12 DEF IsRounds

\* The phases of both.
LEMMA PhasesPair ==
    ASSUME NEW X, NEW Y, NEW Rel \in SUBSET (X \X Y), NEW d, NEW n \in Nat, NEW told, DOMAIN told = 1..n,
           NEW phases, DOMAIN phases = 1..n, NEW a, NEW st, <<a, st>> \in Rel,
           \A x, y : <<x, y>> \in Rel => \A k \in 1..n : <<PlaceUntil(d, x, told[k], TRUE),
                                                          PlaceUntil(d, y, phases[k], FALSE)>> \in Rel
    PROVE  <<PlacePhases(d, a, told, TRUE), PlacePhases(d, st, phases, FALSE)>> \in Rel
<1> DEFINE A == {q[1] : q \in Rel}
           B == {q[2] : q \in Rel}
<1>1. /\ \A x \in A : \E y \in B : <<x, y>> \in Rel
      /\ \A y \in B : \E x \in A : <<x, y>> \in Rel
      /\ \A x, y : <<x, y>> \in Rel => x \in A /\ y \in B
    BY PairSides
<1> HIDE DEF A, B
<1>2. a \in A /\ st \in B
    BY <1>1
<1>3. \A x \in A, k \in 1..n : PlaceUntil(d, x, told[k], TRUE) \in A
    BY <1>1
<1>4. \A y \in B, k \in 1..n : PlaceUntil(d, y, phases[k], FALSE) \in B
    BY <1>1
<1>5. PICK f : IsPhases(f, d, a, told, TRUE, n)
    BY <1>2, <1>3, PhasesRun
<1>6. PICK g : IsPhases(g, d, st, phases, FALSE, n)
    BY <1>2, <1>4, PhasesRun
<1> DEFINE h == [T \in SUBSET (1..n) |-> <<f[T], g[T]>>]
<1>7. \A T \in SUBSET (1..n) : h[T] = <<f[T], g[T]>>
    OBVIOUS
<1> HIDE DEF h
<1>8. h[{}] \in Rel
    BY <1>5, <1>6, <1>7 DEF IsPhases
<1>9. ASSUME NEW T \in SUBSET (1..n), T # {}, h[T \ {Max(T)}] \in Rel PROVE h[T] \in Rel
  <2>1. Max(T) \in 1..n
    BY <1>9, MaxInSet
  <2>2. T \ {Max(T)} \in SUBSET (1..n)
    OBVIOUS
  <2>3. <<f[T \ {Max(T)}], g[T \ {Max(T)}]>> \in Rel
    BY <1>7, <1>9, <2>2
  <2> DEFINE x == f[T \ {Max(T)}]
             y == g[T \ {Max(T)}]
  <2>4. <<PlaceUntil(d, x, told[Max(T)], TRUE), PlaceUntil(d, y, phases[Max(T)], FALSE)>> \in Rel
    <3> HIDE DEF x, y
    <3>1. <<x, y>> \in Rel
      BY <2>3 DEF x, y
    <3> QED BY <2>1, <3>1
  <2> QED BY <1>5, <1>6, <1>7, <1>9, <2>4 DEF IsPhases
<1>10. \A k \in 0..n : h[1..k] \in Rel
    BY <1>8, <1>9, FoldPrefixes
<1>11. 1..n \in SUBSET (1..n) /\ n \in 0..n
    OBVIOUS
<1>12. h[1..n] \in Rel /\ h[1..n] = <<f[1..n], g[1..n]>>
    BY <1>7, <1>10, <1>11
<1> QED BY <1>5, <1>6, <1>12 DEF IsPhases

-----------------------------------------------------------------------------
(* The explainer's tables are the planner's, with what it rejected *)

With(st, r) == [st EXCEPT !.rejected = r]

\* The fields of such a table.
LEMMA WithFields ==
    ASSUME NEW d, NEW st \in PlannerState(d), NEW r
    PROVE  /\ With(st, r).rejected = r /\ With(st, r).plan = st.plan /\ With(st, r).protected = st.protected
           /\ With(st, r).warm = st.warm /\ With(st, r).cached = st.cached /\ With(st, r).missing = st.missing
           /\ SameTables(With(st, r), st)
BY DEF With, PlannerState, SameTables

\* addAssignment does not look at what was rejected.
LEMMA WithAdd ==
    ASSUME NEW d, NEW st \in PlannerState(d), NEW r, NEW a
    PROVE  Add(With(st, r), a) = With(Add(st, a), r)
<1> DEFINE y == Append(st.plan, a)
<1>1. With(st, r).plan = st.plan
    BY WithFields
<1>2. Add(With(st, r), a) = [With(st, r) EXCEPT !["plan"] = y] /\ Add(st, a) = [st EXCEPT !["plan"] = y]
    BY <1>1 DEF Add
<1> HIDE DEF y
<1> QED BY <1>2 DEF With

\* Nor addMissing,
LEMMA WithMissing ==
    ASSUME NEW d, NEW st \in PlannerState(d), NEW r, NEW p \in PlannedProfiles(d), NEW warm \in BOOLEAN
    PROVE  AddMissing(With(st, r), p, warm) = With(AddMissing(st, p, warm), r)
<1> DEFINE a == MissingAssignment(p, st.missing[p], warm)
           s1 == Add(st, a)
           m == [st.missing EXCEPT ![p] = @ + 1]
           c == [st.cached EXCEPT ![p] = @ + 1]
           w == [st.warm EXCEPT ![p] = @ + (IF warm THEN 1 ELSE 0)]
<1>1. With(st, r).missing = st.missing
    BY WithFields
<1>2. Add(With(st, r), MissingAssignment(p, With(st, r).missing[p], warm)) = With(s1, r)
  <2> HIDE DEF a
  <2>1. Add(With(st, r), a) = With(s1, r)
    BY WithAdd
  <2> QED BY <1>1, <2>1 DEF a
<1>3. p \in Profiles /\ st.missing[p] \in Nat
    BY DEF PlannedProfiles, PlannerState
<1>4. a \in Entries(d)
    BY <1>3, MissingEntry
<1>5. s1.missing = st.missing /\ s1.cached = st.cached /\ s1.warm = st.warm
    BY DEF PlannerState, Add
<1>6. s1 \in PlannerState(d)
  <2> HIDE DEF a
  <2> QED BY <1>4, AddFields
<1> HIDE DEF a, s1
<1>7. With(s1, r).missing = st.missing /\ With(s1, r).cached = st.cached /\ With(s1, r).warm = st.warm
    BY <1>5, <1>6, WithFields
<1> DEFINE M == [s1 EXCEPT !["missing"] = m]
           C == [M EXCEPT !["cached"] = c]
           W == [C EXCEPT !["warm"] = w]
<1>8. AddMissing(st, p, warm) = W
  <2>1. AddMissing(st, p, warm) = [s1 EXCEPT !.missing = m, !.cached = c, !.warm = w]
    BY <1>5, <1>6 DEF AddMissing, PlannerState, s1, a
  <2> HIDE DEF m, c, w
  <2> QED BY <2>1
<1>9. AddMissing(With(st, r), p, warm) = [[[With(s1, r) EXCEPT !["missing"] = m] EXCEPT !["cached"] = c] EXCEPT !["warm"] = w]
  <2> DEFINE s2 == With(s1, r)
  <2>1. s2 = [s1 EXCEPT !.rejected = r] /\ s2.missing = st.missing /\ s2.cached = st.cached /\ s2.warm = st.warm
    BY <1>7 DEF With
  <2>2. AddMissing(With(st, r), p, warm) = [s2 EXCEPT !.missing[p] = @ + 1, !.cached[p] = @ + 1, !.warm[p] = @ + (IF warm THEN 1 ELSE 0)]
    BY <1>2 DEF AddMissing
  <2>3. DOMAIN s2 = {"plan", "protected", "used", "warm", "cached", "missing", "memory", "disk", "nodeWarm", "nodeCache", "rejected"}
    BY <1>6 DEF With, PlannerState
  <2> HIDE DEF s2
  <2>4. AddMissing(With(st, r), p, warm) = [s2 EXCEPT !.missing = m, !.cached = c, !.warm = w]
    BY <2>1, <2>2, <2>3
  <2> HIDE DEF m, c, w
  <2> QED BY <2>4 DEF s2
<1> HIDE DEF m, c, w
<1>10. [With(s1, r) EXCEPT !["missing"] = m] = With(M, r)
    BY DEF With
<1> HIDE DEF M
<1>11. [With(M, r) EXCEPT !["cached"] = c] = With(C, r)
    BY DEF With
<1> HIDE DEF C
<1>12. [With(C, r) EXCEPT !["warm"] = w] = With(W, r)
    BY DEF With
<1> QED BY <1>8, <1>9, <1>10, <1>11, <1>12

\* nor markCache,
LEMMA WithCache ==
    ASSUME NEW d, NEW st \in PlannerState(d), NEW r, NEW p \in Profiles, NEW c, c.slot \in Slots
    PROVE  MarkCache(With(st, r), p, c) = With(MarkCache(st, p, c), r)
<1> DEFINE n == NodeOf[c.slot]
           s2 == With(st, r)
           X == [st.disk EXCEPT ![n] = @ + ProfileDisk(c.variant)]
           Y == [st.nodeCache EXCEPT ![n] = @ \cup {p}]
           Z == [st.cached EXCEPT ![p] = @ + 1]
<1>1. s2.disk = st.disk /\ s2.nodeCache = st.nodeCache /\ s2.cached = st.cached
    BY WithFields DEF SameTables
<1>2. DOMAIN s2 = {"plan", "protected", "used", "warm", "cached", "missing", "memory", "disk", "nodeWarm", "nodeCache", "rejected"}
    BY DEF With, PlannerState
<1> HIDE DEF s2
<1>3. CASE p \in st.nodeCache[n]
  <2>1. MarkCache(st, p, c) = st /\ MarkCache(s2, p, c) = s2
    BY <1>1, <1>3 DEF MarkCache
  <2> QED BY <2>1 DEF s2
<1>4. CASE p \notin st.nodeCache[n]
  <2>1. MarkCache(st, p, c) = [st EXCEPT !.disk = X, !.nodeCache = Y, !.cached = Z]
    BY <1>4 DEF MarkCache, PlannerState
  <2>2. MarkCache(s2, p, c) = [s2 EXCEPT !.disk = X, !.nodeCache = Y, !.cached = Z]
    BY <1>1, <1>2, <1>4 DEF MarkCache
  <2> DEFINE D == [st EXCEPT !["disk"] = X]
             N == [D EXCEPT !["nodeCache"] = Y]
             C == [N EXCEPT !["cached"] = Z]
  <2> HIDE DEF X, Y, Z
  <2>3. /\ MarkCache(st, p, c) = C
        /\ MarkCache(s2, p, c) = [[[With(st, r) EXCEPT !["disk"] = X] EXCEPT !["nodeCache"] = Y] EXCEPT !["cached"] = Z]
    BY <2>1, <2>2 DEF s2
  <2>4. [With(st, r) EXCEPT !["disk"] = X] = With(D, r)
    BY DEF With
  <2> HIDE DEF D
  <2>5. [With(D, r) EXCEPT !["nodeCache"] = Y] = With(N, r)
    BY DEF With
  <2> HIDE DEF N
  <2>6. [With(N, r) EXCEPT !["cached"] = Z] = With(C, r)
    BY DEF With
  <2> QED BY <2>3, <2>4, <2>5, <2>6 DEF s2
<1> QED BY <1>3, <1>4

\* nor markWarm.
LEMMA WithWarm ==
    ASSUME NEW d, NEW st \in PlannerState(d), NEW r, NEW p \in Profiles, NEW c, c.slot \in Slots, c.variant \in Variants(p)
    PROVE  MarkWarm(With(st, r), p, c) = With(MarkWarm(st, p, c), r)
<1> DEFINE n == NodeOf[c.slot]
           s2 == With(st, r)
           U == st.used \cup {c.slot}
           X == [st.memory EXCEPT ![n] = @ + ProfileMemory(c.variant)]
           Y == [st.nodeWarm EXCEPT ![n] = @ \cup {p}]
           Z == [st.warm EXCEPT ![p] = @ + 1]
           s1 == [st EXCEPT !.used = U, !.memory = X, !.nodeWarm = Y, !.warm = Z]
<1>1. s2.used = st.used /\ s2.memory = st.memory /\ s2.nodeWarm = st.nodeWarm /\ s2.warm = st.warm
    BY WithFields DEF SameTables
<1>2. DOMAIN s2 = {"plan", "protected", "used", "warm", "cached", "missing", "memory", "disk", "nodeWarm", "nodeCache", "rejected"}
    BY DEF With, PlannerState
<1>3. n \in Nodes /\ ProfileMemory(c.variant) \in Nat
    BY PlanConstants, VariantFacts
<1>4. X \in [Nodes -> Nat] /\ Y \in [Nodes -> SUBSET Profiles] /\ Z \in [Profiles -> Int] /\ U \in SUBSET Slots
    BY <1>3 DEF PlannerState
<1> HIDE DEF s2
<1>5. MarkWarm(st, p, c) = MarkCache(s1, p, c)
    BY DEF MarkWarm, PlannerState
<1>6. MarkWarm(s2, p, c) = MarkCache([s2 EXCEPT !.used = U, !.memory = X, !.nodeWarm = Y, !.warm = Z], p, c)
    BY <1>1, <1>2 DEF MarkWarm
<1> DEFINE A == [st EXCEPT !["used"] = U]
           B == [A EXCEPT !["memory"] = X]
           C == [B EXCEPT !["nodeWarm"] = Y]
           D == [C EXCEPT !["warm"] = Z]
<1> HIDE DEF U, X, Y, Z
<1>7. s1 \in PlannerState(d)
    BY <1>4 DEF PlannerState
<1>8. /\ s1 = D
      /\ [s2 EXCEPT !.used = U, !.memory = X, !.nodeWarm = Y, !.warm = Z]
           = [[[[With(st, r) EXCEPT !["used"] = U] EXCEPT !["memory"] = X] EXCEPT !["nodeWarm"] = Y] EXCEPT !["warm"] = Z]
    BY DEF s2
<1>9. [With(st, r) EXCEPT !["used"] = U] = With(A, r)
    BY DEF With
<1> HIDE DEF A
<1>10. [With(A, r) EXCEPT !["memory"] = X] = With(B, r)
    BY DEF With
<1> HIDE DEF B
<1>11. [With(B, r) EXCEPT !["nodeWarm"] = Y] = With(C, r)
    BY DEF With
<1> HIDE DEF C
<1>12. [With(C, r) EXCEPT !["warm"] = Z] = With(D, r)
    BY DEF With
<1> HIDE DEF D, s1
<1>13. MarkWarm(s2, p, c) = MarkCache(With(s1, r), p, c)
    BY <1>6, <1>8, <1>9, <1>10, <1>11, <1>12
<1>14. MarkCache(With(s1, r), p, c) = With(MarkCache(s1, p, c), r)
    BY <1>7, WithCache
<1> QED BY <1>5, <1>13, <1>14 DEF s2

\* What can be said against the candidates of a profile, and what must be when it is
\* short of warm copies.
Names(d, p) == {<<p, c.slot, c.variant.id>> : c \in AllCandidates(d, p)}
AllNames(d) == UNION {Names(d, p) : p \in Profiles}
IsShort(plan, p) == \E i \in DOMAIN plan : plan[i].profile = p /\ plan[i].warm /\ plan[i].place[1] = "missing"
Explains(d, plan, r) ==
    \A p \in Profiles : IsShort(plan, p) /\ d.policy[p].pins = <<>> => Names(d, p) \subseteq r

\* The states of the explainer and the planner, side by side.
Told(d) ==
    {q \in {With(w[1], w[2]) : w \in Good(d) \X SUBSET AllNames(d)} \X Good(d) :
        \E r \in SUBSET AllNames(d) : q[1] = With(q[2], r) /\ Explains(d, q[2].plan, r)}

\* Two such states.
LEMMA ToldIs ==
    ASSUME NEW d, NEW a, NEW st
    PROVE  <<a, st>> \in Told(d)
           <=> st \in Good(d) /\ \E r \in SUBSET AllNames(d) : a = With(st, r) /\ Explains(d, st.plan, r)
<1> DEFINE W == {With(w[1], w[2]) : w \in Good(d) \X SUBSET AllNames(d)}
<1>1. ASSUME st \in Good(d), NEW r \in SUBSET AllNames(d), a = With(st, r) PROVE a \in W
  <2>1. <<st, r>> \in Good(d) \X SUBSET AllNames(d) /\ <<st, r>>[1] = st /\ <<st, r>>[2] = r
    BY <1>1
  <2> QED BY <1>1, <2>1
<1>2. <<a, st>>[1] = a /\ <<a, st>>[2] = st
    OBVIOUS
<1>3. <<a, st>> \in W \X Good(d) <=> a \in W /\ st \in Good(d)
    OBVIOUS
<1> DEFINE q0 == <<a, st>>
<1>4. q0 \in Told(d) <=> q0 \in W \X Good(d) /\ \E r \in SUBSET AllNames(d) : q0[1] = With(q0[2], r) /\ Explains(d, q0[2].plan, r)
  <2> HIDE DEF q0
  <2> QED BY DEF Told
<1>5. q0[1] = a /\ q0[2] = st /\ (q0 \in W \X Good(d) <=> a \in W /\ st \in Good(d))
    BY <1>2, <1>3
<1> HIDE DEF q0, W
<1>6. q0 \in Told(d) <=> st \in Good(d) /\ \E r \in SUBSET AllNames(d) : a = With(st, r) /\ Explains(d, st.plan, r)
    BY <1>1, <1>4, <1>5
<1> QED BY <1>6 DEF q0

\* A plan with one entry more is explained, when a missing copy is.
LEMMA ExplainsGrow ==
    ASSUME NEW d, NEW plan \in Seq(Entries(d)), NEW e, NEW r, NEW r2, Explains(d, plan, r), r \subseteq r2,
           e.warm /\ e.place[1] = "missing" => Names(d, e.profile) \subseteq r2
    PROVE  Explains(d, Append(plan, e), r2)
<1> DEFINE plan2 == Append(plan, e)
<1>1. /\ Len(plan) \in Nat /\ DOMAIN plan = 1..Len(plan) /\ DOMAIN plan2 = 1..(Len(plan) + 1)
      /\ \A i \in 1..Len(plan) : plan2[i] = plan[i]
      /\ plan2[Len(plan) + 1] = e
    OBVIOUS
<1> HIDE DEF plan2
<1>2. ASSUME NEW p \in Profiles, IsShort(plan2, p) PROVE IsShort(plan, p) \/ (e.profile = p /\ e.warm /\ e.place[1] = "missing")
  <2>1. PICK i \in DOMAIN plan2 : plan2[i].profile = p /\ plan2[i].warm /\ plan2[i].place[1] = "missing"
    BY <1>2 DEF IsShort
  <2>2. i \in 1..Len(plan) \/ i = Len(plan) + 1
    BY <1>1, <2>1
  <2>3. CASE i \in 1..Len(plan)
    <3>1. plan2[i] = plan[i] /\ i \in DOMAIN plan
      BY <1>1, <2>3
    <3> QED BY <2>1, <3>1 DEF IsShort
  <2>4. CASE i = Len(plan) + 1
    BY <1>1, <2>1, <2>4
  <2> QED BY <2>2, <2>3, <2>4
<1>3. Explains(d, plan2, r2)
    BY <1>2 DEF Explains
<1> QED BY <1>3 DEF plan2

\* addRejected names candidates, and all of them when none may be used.
LEMMA Rejected ==
    ASSUME NEW d, PlanDatabase(d), NEW p \in Profiles, NEW st \in PlannerState(d), NEW r \in SUBSET AllNames(d)
    PROVE  \E r2 \in SUBSET AllNames(d) :
              /\ r \subseteq r2
              /\ Reject(d, With(st, r), PolicyItem(d, p, TRUE)) = With(st, r2)
              /\ NextWarmExplain(d, With(st, r), PolicyItem(d, p, TRUE)) = <<>> => Names(d, p) \subseteq r2
<1> DEFINE e == PolicyItem(d, p, TRUE)
           a == With(st, r)
           s1 == ExplainCandidates(d, p)
           S1 == AllCandidates(d, p)
           Bad(c) == WarmReasons(d, a, e, c) # {}
           new == {<<p, c.slot, c.variant.id>> : c \in {x \in S1 : Bad(x)}}
           r2 == r \cup new
           I1 == {i \in DOMAIN s1 : ~Bad(s1[i])}
<1>1. e.profile = p /\ e.candidates = s1
    BY DEF PolicyItem
<1>2. StrictOrder(S1, ExplainOrder(S1)) /\ Lists(s1, S1, ExplainOrder(S1)) /\ IsFiniteSet(S1)
    BY ExplainListed, CandidateFacts
<1>3. /\ DOMAIN s1 = 1..Cardinality(S1) /\ Cardinality(S1) \in Nat
      /\ \A k \in DOMAIN s1 : s1[k] \in S1
      /\ \A x \in S1 : \E k \in DOMAIN s1 : s1[k] = x
  <2> DEFINE R1 == ExplainOrder(S1)
  <2> HIDE DEF s1, S1, R1
  <2>1. StrictOrder(S1, R1) /\ Lists(s1, S1, R1)
    BY <1>2 DEF R1
  <2> QED BY <1>2, <2>1, ListsAll
<1>4. ToSet(s1) = S1
  <2> HIDE DEF s1, S1
  <2> QED BY <1>3 DEF ToSet
<1>5. new \subseteq Names(d, p)
    BY DEF Names
<1>6. r2 \in SUBSET AllNames(d)
  <2> HIDE DEF new
  <2>1. Names(d, p) \subseteq AllNames(d)
    BY DEF AllNames
  <2> QED BY <1>5, <2>1
<1>7. NextWarmExplain(d, a, e) = FirstOf(s1, I1)
  <2> HIDE DEF e, a
  <2> QED BY <1>1 DEF NextWarmExplain
<1>8. ASSUME FirstOf(s1, I1) = <<>> PROVE Names(d, p) \subseteq r2
  <2>1. I1 = {}
    <3>1. I1 # {} => FirstOf(s1, I1) = <<s1[Min(I1)]>>
      BY DEF FirstOf
    <3> HIDE DEF I1, s1
    <3> QED BY <1>8, <3>1
  <2>2. \A x \in S1 : Bad(x)
    <3> HIDE DEF Bad
    <3> QED BY <1>3, <2>1
  <2>3. Names(d, p) \subseteq new
    <3> HIDE DEF Bad
    <3> QED BY <2>2 DEF Names
  <2> HIDE DEF new
  <2> QED BY <2>3
<1>9. Reject(d, a, e) = With(st, r2)
  <2>1. a.rejected = r
    BY WithFields
  <2> HIDE DEF e
  <2>2. Reject(d, a, e) = [a EXCEPT !.rejected = @ \cup new]
    <3> HIDE DEF a
    <3> QED BY <1>1, <1>4 DEF Reject
  <2> HIDE DEF new
  <2> QED BY <2>1, <2>2 DEF With
<1> HIDE DEF r2, I1, s1, e, a
<1>10. r \subseteq r2
    BY DEF r2
<1> QED BY <1>6, <1>7, <1>8, <1>9, <1>10 DEF e, a

\* A candidate of the planner is a slot with a variant of the profile.
LEMMA NextFacts ==
    ASSUME NEW d, PlanDatabase(d), NEW item \in ItemSet(d), NEW st \in PlannerState(d)
    PROVE  /\ NextWarm(d, st, item) # <<>> => /\ NextWarm(d, st, item)[1].slot \in Slots
                                              /\ NextWarm(d, st, item)[1].variant \in Variants(item.profile)
           /\ NextCache(d, st, item) # <<>> => /\ NextCache(d, st, item)[1].slot \in Slots
                                               /\ NextCache(d, st, item)[1].variant \in Variants(item.profile)
BY NextWarmIs, NextCacheIs

\* The entry of a round, by its candidate.
WarmEntry(d, st, p, next) ==
    IF next = <<>> THEN MissingAssignment(p, st.missing[p], TRUE)
    ELSE AssignmentFromFit(d, p, next[1].slot, next[1].variant, FALSE)
CachedEntry(d, st, p, next) ==
    IF next = <<>> THEN MissingAssignment(p, st.missing[p], FALSE) ELSE CacheAssignment(d, p, next[1])

\* The plan after a round with its candidate.
LEMMA RoundPlan ==
    ASSUME NEW d, NEW st \in PlannerState(d), NEW p \in PlannedProfiles(d), NEW item, item.profile = p,
           NEW next, next # <<>> => next[1].slot \in Slots /\ next[1].variant \in Variants(p)
    PROVE  /\ PlaceWarm(d, st, item, next).plan = Append(st.plan, WarmEntry(d, st, p, next))
           /\ PlaceCache(d, st, item, next).plan = Append(st.plan, CachedEntry(d, st, p, next))
<1>1. p \in Profiles
    BY DEF PlannedProfiles
<1>2. ASSUME next = <<>>, NEW w \in BOOLEAN
      PROVE  AddMissing(st, p, w).plan = Append(st.plan, MissingAssignment(p, st.missing[p], w))
    BY AddMissingFields DEF Adds
<1>3. CASE next = <<>>
  <2>1. TRUE \in BOOLEAN /\ FALSE \in BOOLEAN
    OBVIOUS
  <2>2. PlaceWarm(d, st, item, next) = AddMissing(st, p, TRUE) /\ PlaceCache(d, st, item, next) = AddMissing(st, p, FALSE)
    BY <1>3 DEF PlaceWarm, PlaceCache
  <2> QED BY <1>2, <1>3, <2>1, <2>2 DEF WarmEntry, CachedEntry
<1>4. CASE next # <<>>
  <2> DEFINE c == next[1]
             e == AssignmentFromFit(d, p, c.slot, c.variant, FALSE)
             f == CacheAssignment(d, p, c)
  <2>1. e \in Entries(d) /\ f \in Entries(d)
    <3>1. FALSE \in BOOLEAN
      OBVIOUS
    <3> HIDE DEF c
    <3>2. c.slot \in Slots /\ c.variant \in Variants(p)
      BY <1>4 DEF c
    <3> QED BY <3>1, <3>2, SlotEntry, CacheEntry
  <2>2. PlaceWarm(d, st, item, next) = MarkWarm(Add(st, e), p, c) /\ PlaceCache(d, st, item, next) = MarkCache(Add(st, f), p, c)
    BY <1>4 DEF PlaceWarm, PlaceCache
  <2>3. c.slot \in Slots /\ c.variant \in Variants(p)
    BY <1>4
  <2> HIDE DEF c, e, f
  <2>4. /\ Add(st, e) \in PlannerState(d) /\ Add(st, e).plan = Append(st.plan, e)
        /\ Add(st, f) \in PlannerState(d) /\ Add(st, f).plan = Append(st.plan, f)
    BY <2>1, AddFields DEF Adds
  <2>5. MarkWarm(Add(st, e), p, c).plan = Add(st, e).plan
    <3> DEFINE s1 == Add(st, e)
    <3>1. s1 \in PlannerState(d)
      BY <2>4
    <3> HIDE DEF s1
    <3>2. LET n == NodeOf[c.slot]
              st3 == MarkWarm(s1, p, c)
          IN  /\ st3 \in PlannerState(d) /\ st3.plan = s1.plan /\ st3.used = s1.used \cup {c.slot}
              /\ st3.memory = [s1.memory EXCEPT ![n] = @ + ProfileMemory(c.variant)]
              /\ st3.nodeCache = [s1.nodeCache EXCEPT ![n] = @ \cup {p}]
              /\ st3.disk = IF p \in s1.nodeCache[n] THEN s1.disk
                            ELSE [s1.disk EXCEPT ![n] = @ + ProfileDisk(c.variant)]
      BY <1>1, <2>3, <3>1, MarkWarmFields
    <3> QED BY <3>2 DEF s1
  <2>6. MarkCache(Add(st, f), p, c).plan = Add(st, f).plan
    <3> DEFINE s1 == Add(st, f)
    <3>1. s1 \in PlannerState(d)
      BY <2>4
    <3> HIDE DEF s1
    <3>2. LET n == NodeOf[c.slot]
              st3 == MarkCache(s1, p, c)
          IN  /\ st3 \in PlannerState(d) /\ st3.plan = s1.plan /\ st3.used = s1.used /\ st3.memory = s1.memory
                  /\ st3.nodeCache = [s1.nodeCache EXCEPT ![n] = @ \cup {p}]
              /\ st3.disk = IF p \in s1.nodeCache[n] THEN s1.disk
                            ELSE [s1.disk EXCEPT ![n] = @ + ProfileDisk(c.variant)]
      BY <1>1, <2>3, <3>1, MarkCacheFields
    <3> QED BY <3>2 DEF s1
  <2> QED BY <1>4, <2>2, <2>4, <2>5, <2>6 DEF c, e, f, WarmEntry, CachedEntry
<1> QED BY <1>3, <1>4

\* A round does not look at what was rejected.
LEMMA WithRound ==
    ASSUME NEW d, NEW st \in PlannerState(d), NEW p \in PlannedProfiles(d), NEW item, item.profile = p,
           NEW e, e.profile = p, NEW r,
           NEW next, next # <<>> => next[1].slot \in Slots /\ next[1].variant \in Variants(p)
    PROVE  /\ PlaceWarm(d, With(st, r), e, next) = With(PlaceWarm(d, st, item, next), r)
           /\ PlaceCache(d, With(st, r), e, next) = With(PlaceCache(d, st, item, next), r)
<1>1. p \in Profiles /\ TRUE \in BOOLEAN /\ FALSE \in BOOLEAN
    BY DEF PlannedProfiles
<1>2. CASE next = <<>>
  <2>1. /\ PlaceWarm(d, st, item, next) = AddMissing(st, p, TRUE) /\ PlaceCache(d, st, item, next) = AddMissing(st, p, FALSE)
        /\ PlaceWarm(d, With(st, r), e, next) = AddMissing(With(st, r), p, TRUE)
        /\ PlaceCache(d, With(st, r), e, next) = AddMissing(With(st, r), p, FALSE)
    BY <1>2 DEF PlaceWarm, PlaceCache
  <2>2. ASSUME NEW w \in BOOLEAN PROVE AddMissing(With(st, r), p, w) = With(AddMissing(st, p, w), r)
    BY WithMissing
  <2>3. /\ AddMissing(With(st, r), p, TRUE) = With(AddMissing(st, p, TRUE), r)
        /\ AddMissing(With(st, r), p, FALSE) = With(AddMissing(st, p, FALSE), r)
    BY <1>1, <2>2
  <2> QED BY <2>1, <2>3
<1>3. CASE next # <<>>
  <2> DEFINE c == next[1]
             x == AssignmentFromFit(d, p, c.slot, c.variant, FALSE)
             f == CacheAssignment(d, p, c)
  <2>1. c.slot \in Slots /\ c.variant \in Variants(p)
    BY <1>3
  <2>2. /\ PlaceWarm(d, st, item, next) = MarkWarm(Add(st, x), p, c) /\ PlaceCache(d, st, item, next) = MarkCache(Add(st, f), p, c)
        /\ PlaceWarm(d, With(st, r), e, next) = MarkWarm(Add(With(st, r), x), p, c)
        /\ PlaceCache(d, With(st, r), e, next) = MarkCache(Add(With(st, r), f), p, c)
    BY <1>3 DEF PlaceWarm, PlaceCache
  <2> HIDE DEF c
  <2>3. x \in Entries(d) /\ f \in Entries(d)
    BY <1>1, <2>1, SlotEntry, CacheEntry
  <2> HIDE DEF x, f
  <2> DEFINE s1 == Add(st, x)
             s2 == Add(st, f)
  <2>4. Add(With(st, r), x) = With(s1, r) /\ Add(With(st, r), f) = With(s2, r)
    BY WithAdd
  <2>5. s1 \in PlannerState(d) /\ s2 \in PlannerState(d)
    BY <2>3, AddFields
  <2> HIDE DEF s1, s2
  <2>6. MarkWarm(With(s1, r), p, c) = With(MarkWarm(s1, p, c), r)
    BY <1>1, <2>1, <2>5, WithWarm
  <2>7. MarkCache(With(s2, r), p, c) = With(MarkCache(s2, p, c), r)
    BY <1>1, <2>1, <2>5, WithCache
  <2> QED BY <2>2, <2>4, <2>6, <2>7 DEF s1, s2
<1> QED BY <1>2, <1>3

\* A round of the explainer and of the planner.
LEMMA CopyPair ==
    ASSUME VariantsById, NEW d, PlanDatabase(d), NEW p \in PlannedProfiles(d), NEW warm \in BOOLEAN,
           NEW a, NEW st, <<a, st>> \in Told(d)
    PROVE  <<PlaceCopy(d, a, PolicyItem(d, p, TRUE), warm, TRUE),
             PlaceCopy(d, st, PolicyItem(d, p, FALSE), warm, FALSE)>> \in Told(d)
<1> DEFINE e == PolicyItem(d, p, TRUE)
           item == PolicyItem(d, p, FALSE)
           st2 == PlaceCopy(d, st, item, warm, FALSE)
<1>1. PICK r \in SUBSET AllNames(d) : a = With(st, r) /\ Explains(d, st.plan, r)
    BY ToldIs
<1>2. st \in Good(d) /\ st \in PlannerState(d) /\ st.plan \in Seq(Entries(d))
    BY ToldIs DEF Good, PlannerState
<1>3. p \in Profiles /\ e.profile = p /\ item.profile = p
    BY DEF PlannedProfiles, PolicyItem
<1>4. item \in ItemSet(d)
    BY DEF ItemSet
<1>5. SameTables(a, st)
    BY <1>1, <1>2, WithFields
<1>6. NextWarmExplain(d, a, e) = NextWarm(d, st, item) /\ NextCacheExplain(d, a, e) = NextCache(d, st, item)
    BY <1>3, <1>5, WarmChoice, CacheChoice
<1>7. \E r2 \in SUBSET AllNames(d) :
              /\ r \subseteq r2
              /\ Reject(d, With(st, r), e) = With(st, r2)
              /\ NextWarmExplain(d, With(st, r), e) = <<>> => Names(d, p) \subseteq r2
    BY <1>2, <1>3, Rejected
<1> HIDE DEF e, item
<1>8. st2 \in Good(d)
    BY <1>2, <1>4, CopyRound
<1>9. CASE warm
  <2> DEFINE next == NextWarm(d, st, item)
             x == WarmEntry(d, st, p, next)
  <2>1. PICK r2 \in SUBSET AllNames(d) :
              /\ r \subseteq r2
              /\ Reject(d, a, e) = With(st, r2)
              /\ NextWarmExplain(d, a, e) = <<>> => Names(d, p) \subseteq r2
    BY <1>1, <1>7
  <2>2. next # <<>> => next[1].slot \in Slots /\ next[1].variant \in Variants(p)
    BY <1>2, <1>3, <1>4, NextFacts
  <2>3. st2 = PlaceWarm(d, st, item, next) /\ PlaceCopy(d, a, e, warm, TRUE) = PlaceWarm(d, With(st, r2), e, next)
    BY <1>6, <1>9, <2>1 DEF PlaceCopy
  <2>4. x.warm /\ x.place[1] = "missing" => Names(d, x.profile) \subseteq r2
    <3>1. CASE next = <<>>
      <4>1. x.profile = p
        BY <3>1 DEF MissingAssignment, WarmEntry
      <4> HIDE DEF x
      <4> QED BY <1>6, <2>1, <3>1, <4>1
    <3>2. CASE next # <<>>
      <4>1. x.place[1] = "slot"
        BY <3>2 DEF AssignmentFromFit, WarmEntry
      <4> HIDE DEF x
      <4> QED BY <4>1
    <3> QED BY <3>1, <3>2
  <2> HIDE DEF next
  <2>5. st2.plan = Append(st.plan, x)
    <3>1. PlaceWarm(d, st, item, next).plan = Append(st.plan, x)
      BY <1>2, <1>3, <2>2, RoundPlan
    <3> HIDE DEF st2, x
    <3> QED BY <2>3, <3>1
  <2>6. PlaceWarm(d, With(st, r2), e, next) = With(PlaceWarm(d, st, item, next), r2)
    BY <1>2, <1>3, <2>2, WithRound
  <2> HIDE DEF x, st2
  <2>7. Explains(d, st2.plan, r2)
    BY <1>1, <1>2, <2>1, <2>4, <2>5, ExplainsGrow
  <2>8. PlaceCopy(d, a, e, warm, TRUE) = With(st2, r2)
    BY <2>3, <2>6
  <2>9. <<PlaceCopy(d, a, e, warm, TRUE), st2>> \in Told(d)
    BY <1>8, <2>1, <2>7, <2>8, ToldIs
  <2> QED BY <2>9 DEF st2, e, item
<1>10. CASE ~warm
  <2> DEFINE next == NextCache(d, st, item)
             x == CachedEntry(d, st, p, next)
  <2>1. next # <<>> => next[1].slot \in Slots /\ next[1].variant \in Variants(p)
    BY <1>2, <1>3, <1>4, NextFacts
  <2>2. st2 = PlaceCache(d, st, item, next) /\ PlaceCopy(d, a, e, warm, TRUE) = PlaceCache(d, With(st, r), e, next)
    BY <1>1, <1>6, <1>10 DEF PlaceCopy
  <2>3. ~(x.warm /\ x.place[1] = "missing")
    <3>1. x.warm = FALSE
      BY DEF MissingAssignment, CacheAssignment, CachedEntry
    <3> HIDE DEF x
    <3> QED BY <3>1
  <2> HIDE DEF next
  <2>4. st2.plan = Append(st.plan, x)
    <3>1. PlaceCache(d, st, item, next).plan = Append(st.plan, x)
      BY <1>2, <1>3, <2>1, RoundPlan
    <3> HIDE DEF st2, x
    <3> QED BY <2>2, <3>1
  <2>5. PlaceCache(d, With(st, r), e, next) = With(PlaceCache(d, st, item, next), r)
    BY <1>2, <1>3, <2>1, WithRound
  <2> HIDE DEF x, st2
  <2>6. Explains(d, st2.plan, r)
    BY <1>1, <1>2, <2>3, <2>4, ExplainsGrow
  <2>7. PlaceCopy(d, a, e, warm, TRUE) = With(st2, r)
    BY <2>2, <2>5
  <2>8. <<PlaceCopy(d, a, e, warm, TRUE), st2>> \in Told(d)
    BY <1>8, <2>6, <2>7, ToldIs
  <2> QED BY <2>8 DEF st2, e, item
<1> QED BY <1>9, <1>10

\* The rounds of a phase, for the item of the explainer and that of the planner.
LEMMA UntilPair ==
    ASSUME VariantsById, NEW d, PlanDatabase(d), NEW p \in PlannedProfiles(d), NEW warm \in BOOLEAN, NEW target \in Int,
           NEW a, NEW st, <<a, st>> \in Told(d)
    PROVE  <<PlaceUntil(d, a, Phase(PolicyItem(d, p, TRUE), warm, target), TRUE),
             PlaceUntil(d, st, Phase(PolicyItem(d, p, FALSE), warm, target), FALSE)>> \in Told(d)
<1> DEFINE e == PolicyItem(d, p, TRUE)
           item == PolicyItem(d, p, FALSE)
           told == Phase(e, warm, target)
           phase == Phase(item, warm, target)
           count == IF warm THEN st.warm[p] ELSE st.cached[p]
           Rel == Told(d)
           X == {With(w[1], w[2]) : w \in Good(d) \X SUBSET AllNames(d)}
           Y == Good(d)
<1>1. Rel \in SUBSET (X \X Y)
    BY DEF Told
<1>2. p \in Profiles /\ e.profile = p /\ item.profile = p
    BY DEF PlannedProfiles, PolicyItem
<1>3. \A x, y : <<x, y>> \in Rel => <<PlaceCopy(d, x, e, warm, TRUE), PlaceCopy(d, y, item, warm, FALSE)>> \in Rel
    BY CopyPair
<1> HIDE DEF X, Y, Rel, e, item
<1>4. /\ told.item = e /\ told.warm = warm /\ told.target = target
      /\ phase.item = item /\ phase.warm = warm /\ phase.target = target
    BY DEF Phase
<1> HIDE DEF told, phase
<1>5. st \in PlannerState(d) /\ \E r : a = With(st, r)
    BY ToldIs DEF Good
<1>6. a.warm = st.warm /\ a.cached = st.cached
    BY <1>5, WithFields
<1>7. count \in Int
    BY <1>2, <1>5 DEF PlannerState
<1> HIDE DEF count
<1>8. PICK n \in Nat : 1..(target - count) = 1..n
  <2>1. CASE target - count >= 0
    <3>1. target - count \in Nat
      BY <1>7, <2>1
    <3> QED BY <3>1
  <2>2. CASE ~(target - count >= 0)
    <3>1. 1..(target - count) = 1..0
      BY <1>7, <2>2
    <3> QED BY <3>1
  <2> QED BY <2>1, <2>2
<1>9. /\ 1..(told.target - (IF told.warm THEN a.warm[told.item.profile] ELSE a.cached[told.item.profile])) = 1..n
      /\ 1..(phase.target - (IF phase.warm THEN st.warm[phase.item.profile] ELSE st.cached[phase.item.profile])) = 1..n
    BY <1>2, <1>4, <1>6, <1>8 DEF count
<1>10. \A x, y : <<x, y>> \in Rel => <<PlaceCopy(d, x, told.item, told.warm, TRUE),
                                       PlaceCopy(d, y, phase.item, phase.warm, FALSE)>> \in Rel
    BY <1>3, <1>4
<1>11. <<a, st>> \in Rel
    BY DEF Rel
<1>12. <<PlaceUntil(d, a, told, TRUE), PlaceUntil(d, st, phase, FALSE)>> \in Rel
    BY <1>1, <1>9, <1>10, <1>11, RoundsPair
<1> QED BY <1>12 DEF Rel, told, phase, e, item

\* An order carried over by a bijection lists its elements at the same places.
LEMMA ListsMap ==
    ASSUME NEW S1, IsFiniteSet(S1), NEW R1, StrictOrder(S1, R1), NEW s1, Lists(s1, S1, R1),
           NEW S2, IsFiniteSet(S2), NEW R2, StrictOrder(S2, R2), NEW s2, Lists(s2, S2, R2),
           NEW f \in Bijection(S2, S1), \A x, y \in S2 : <<x, y>> \in R2 <=> <<f[x], f[y]>> \in R1
    PROVE  DOMAIN s1 = DOMAIN s2 /\ \A k \in DOMAIN s2 : s1[k] = f[s2[k]]
<1>1. Cardinality(S1) = Cardinality(S2) /\ Cardinality(S2) \in Nat
    BY FS_Bijection, FS_CardinalityType DEF ExistsBijection
<1>2. DOMAIN s1 = 1..Cardinality(S1) /\ \A k \in DOMAIN s1 : s1[k] \in S1
    BY DEF Lists
<1>3. DOMAIN s2 = 1..Cardinality(S2) /\ \A k \in DOMAIN s2 : s2[k] \in S2
    BY DEF Lists
<1>4. /\ \A x \in S2 : f[x] \in S1
      /\ \A x, y \in S2 : f[x] = f[y] => x = y
      /\ \A z \in S1 : \E x \in S2 : f[x] = z
    BY DEF Bijection, Injection, IsInjective, Surjection
<1>5. ASSUME NEW k \in DOMAIN s2 PROVE s1[k] = f[s2[k]]
  <2> DEFINE x == s2[k]
             B1 == Below(S1, R1, f[x])
             B2 == Below(S2, R2, x)
             g == [y \in B2 |-> f[y]]
  <2>1. x \in S2 /\ Cardinality(B2) = k - 1
    BY <1>3 DEF Lists
  <2> HIDE DEF x
  <2>2. g \in Bijection(B2, B1)
    <3>1. ASSUME NEW y \in B2 PROVE g[y] \in B1
      BY <1>4, <2>1 DEF Below
    <3>2. ASSUME NEW y \in B2, NEW z \in B2, g[y] = g[z] PROVE y = z
      BY <1>4, <3>2 DEF Below
    <3>3. ASSUME NEW z \in B1 PROVE \E y \in B2 : g[y] = z
      <4>1. z \in S1 /\ <<z, f[x]>> \in R1
        BY DEF Below
      <4>2. PICK y \in S2 : f[y] = z
        BY <1>4, <4>1
      <4>3. y \in B2
        BY <2>1, <4>1, <4>2 DEF Below
      <4> QED BY <4>2, <4>3
    <3>4. g \in [B2 -> B1]
      BY <3>1
    <3>5. g \in Injection(B2, B1)
      BY <3>2, <3>4 DEF Injection, IsInjective
    <3>6. g \in Surjection(B2, B1)
      BY <3>3, <3>4 DEF Surjection
    <3> QED BY <3>5, <3>6 DEF Bijection
  <2>3. IsFiniteSet(B2)
    <3>1. B2 \in SUBSET S2
      BY DEF Below
    <3> QED BY <3>1, FS_Subset
  <2> HIDE DEF g, B2
  <2>4. Cardinality(B1) = k - 1
    <3> HIDE DEF B1
    <3> QED BY <2>1, <2>2, <2>3, FS_Bijection DEF ExistsBijection
  <2>5. k \in DOMAIN s1 /\ s1[k] \in S1 /\ Cardinality(Below(S1, R1, s1[k])) = k - 1
    BY <1>1, <1>2, <1>3 DEF Lists
  <2>6. f[x] \in S1 /\ k \in Int
    BY <1>1, <1>3, <1>4, <2>1
  <2>7. ~(<<s1[k], f[x]>> \in R1)
    <3>1. SUFFICES ASSUME <<s1[k], f[x]>> \in R1 PROVE FALSE
      OBVIOUS
    <3>2. Cardinality(Below(S1, R1, s1[k])) < Cardinality(B1)
      BY <2>5, <2>6, <3>1, RankGrows
    <3> HIDE DEF B1
    <3> QED BY <2>4, <2>5, <2>6, <3>2
  <2>8. ~(<<f[x], s1[k]>> \in R1)
    <3>1. SUFFICES ASSUME <<f[x], s1[k]>> \in R1 PROVE FALSE
      OBVIOUS
    <3>2. Cardinality(B1) < Cardinality(Below(S1, R1, s1[k]))
      BY <2>5, <2>6, <3>1, RankGrows
    <3> HIDE DEF B1
    <3> QED BY <2>4, <2>5, <2>6, <3>2
  <2>9. s1[k] = f[x]
    BY <2>5, <2>6, <2>7, <2>8 DEF StrictOrder
  <2> QED BY <2>9 DEF x
<1> QED BY <1>1, <1>2, <1>3, <1>5

\* What sortPolicyItems ranks by, of the explainer's items as of the planner's.
LEMMA ItemKeys ==
    ASSUME NEW d, PlanDatabase(d), NEW p \in PlannedProfiles(d), NEW explain \in BOOLEAN
    PROVE  LET i == PolicyItem(d, p, explain)
           IN  /\ i.demand \in Int /\ i.scarcity \in Int /\ i.size \in Int /\ i.profile \in Int /\ i.profile = p
               /\ i.capacity.warm \in Int /\ i.capacity.cached \in Int
               /\ i.capacity.minWarm \in Int /\ i.capacity.minCached \in Int
<1> DEFINE i == PolicyItem(d, p, explain)
           item == PolicyItem(d, p, FALSE)
<1>1. /\ i.profile = p /\ i.demand = item.demand /\ i.scarcity = item.scarcity /\ i.size = item.size
      /\ i.capacity = item.capacity
    BY DEF PolicyItem
<1>2. item \in ItemSet(d)
    BY DEF ItemSet
<1> HIDE DEF i, item
<1>3. /\ item.demand \in Int /\ item.scarcity \in Int /\ item.size \in Int
      /\ item.capacity.warm \in Int /\ item.capacity.cached \in Int
      /\ item.capacity.minWarm \in Int /\ item.capacity.minCached \in Int
    BY <1>2, ItemFacts
<1>4. p \in Int
    BY PlanConstants DEF PlannedProfiles
<1> QED BY <1>1, <1>3, <1>4 DEF i

\* The items of all planned profiles, in either form.
ItemsOf(d, explain) == {PolicyItem(d, p, explain) : p \in PlannedProfiles(d)}

\* policyItems makes one for each.
LEMMA ItemsFound ==
    ASSUME NEW d, PlanDatabase(d), NEW explain
    PROVE  ToSet(PolicyItems(d, explain)) = ItemsOf(d, explain) /\ IsFiniteSet(ItemsOf(d, explain))
<1> DEFINE S == PlannedProfiles(d)
           order == Ascending(S)
           items == PolicyItems(d, explain)
           f == [p \in S |-> PolicyItem(d, p, explain)]
<1>1. IsFiniteSet(S) /\ S \subseteq Int
    BY PlanConstants, FS_Subset DEF PlannedProfiles
<1>2. /\ \A k \in DOMAIN order : order[k] \in S
      /\ \A x \in S : \E k \in DOMAIN order : order[k] = x
  <2> HIDE DEF S
  <2> QED BY <1>1, AscendingIs
<1>3. items = [i \in DOMAIN order |-> PolicyItem(d, order[i], explain)]
    BY DEF PolicyItems, PlannedProfiles
<1>4. ItemsOf(d, explain) = {f[p] : p \in S}
    BY DEF ItemsOf
<1>5. IsFiniteSet(ItemsOf(d, explain))
  <2> HIDE DEF S, f
  <2>1. IsFiniteSet({f[p] : p \in S})
    BY <1>1, ImageFinite
  <2> QED BY <1>4, <2>1
<1>6. ToSet(items) = {items[k] : k \in DOMAIN order}
    BY <1>3 DEF ToSet
<1>7. \A x : x \in ToSet(items) <=> \E p \in S : x = PolicyItem(d, p, explain)
  <2> HIDE DEF S, order, items
  <2> QED BY <1>2, <1>3, <1>6
<1> HIDE DEF items
<1>8. ToSet(items) = ItemsOf(d, explain)
    BY <1>7 DEF ItemsOf
<1> QED BY <1>5, <1>8 DEF items

\* sortPolicyItems ranks the explainer's items as it ranks the planner's.
LEMMA RankedPair ==
    ASSUME NEW d, PlanDatabase(d), NEW extras \in BOOLEAN
    PROVE  LET s == SortPolicyItems(PolicyItems(d, TRUE), extras)
               t == SortPolicyItems(PolicyItems(d, FALSE), extras)
           IN  \E n \in Nat : /\ DOMAIN s = 1..n /\ DOMAIN t = 1..n
                              /\ \A k \in 1..n : \E p \in PlannedProfiles(d) : /\ s[k] = PolicyItem(d, p, TRUE)
                                                                               /\ t[k] = PolicyItem(d, p, FALSE)
<1> DEFINE P == PlannedProfiles(d)
           s == SortPolicyItems(PolicyItems(d, TRUE), extras)
           t == SortPolicyItems(PolicyItems(d, FALSE), extras)
           S == ItemsOf(d, TRUE)
           T == ItemsOf(d, FALSE)
           RS == ItemOrder(S, extras)
           RT == ItemOrder(T, extras)
           f == [i \in T |-> PolicyItem(d, i.profile, TRUE)]
<1>1. IsFiniteSet(S) /\ IsFiniteSet(T) /\ ToSet(PolicyItems(d, TRUE)) = S /\ ToSet(PolicyItems(d, FALSE)) = T
    BY ItemsFound
<1>2. ASSUME NEW explain \in BOOLEAN, NEW c \in ItemsOf(d, explain)
      PROVE  /\ c.demand \in Int /\ c.scarcity \in Int /\ c.size \in Int /\ c.profile \in Int
             /\ c.profile \in P /\ c = PolicyItem(d, c.profile, explain)
  <2>1. PICK p \in P : c = PolicyItem(d, p, explain)
    BY DEF ItemsOf
  <2> DEFINE i == PolicyItem(d, p, explain)
  <2>2. i.demand \in Int /\ i.scarcity \in Int /\ i.size \in Int /\ i.profile \in Int /\ i.profile = p
    BY ItemKeys
  <2> QED BY <2>1, <2>2
<1>3. /\ \A c \in S : c.demand \in Int /\ c.scarcity \in Int /\ c.size \in Int /\ c.profile \in Int
      /\ \A c \in S : c.profile \in P /\ c = PolicyItem(d, c.profile, TRUE)
  <2>1. TRUE \in BOOLEAN
    OBVIOUS
  <2> QED BY <1>2, <2>1
<1>4. /\ \A c \in T : c.demand \in Int /\ c.scarcity \in Int /\ c.size \in Int /\ c.profile \in Int
      /\ \A c \in T : c.profile \in P /\ c = PolicyItem(d, c.profile, FALSE)
  <2>1. FALSE \in BOOLEAN
    OBVIOUS
  <2> QED BY <1>2, <2>1
<1>5. \A p \in P : PolicyItem(d, p, TRUE) \in S /\ PolicyItem(d, p, FALSE) \in T
    BY DEF ItemsOf
<1>6. \A p, e : PolicyItem(d, p, e).profile = p
    BY DEF PolicyItem
<1>7. \A p : ItemKey(PolicyItem(d, p, TRUE), extras) = ItemKey(PolicyItem(d, p, FALSE), extras)
    BY DEF ItemKey, PolicyItem
<1>8. StrictOrder(S, RS) /\ Lists(s, S, RS)
  <2> DEFINE items == PolicyItems(d, TRUE)
  <2> HIDE DEF S, items
  <2>1. \A c, e \in S : c.profile = e.profile => c = e
    BY <1>3
  <2>2. ToSet(items) = S
    BY <1>1 DEF items
  <2>3. StrictOrder(S, ItemOrder(S, extras)) /\ Lists(SortPolicyItems(items, extras), S, ItemOrder(S, extras))
    BY <1>1, <1>3, <2>1, <2>2, ItemsSorted
  <2> QED BY <2>3 DEF items
<1>9. StrictOrder(T, RT) /\ Lists(t, T, RT)
  <2> DEFINE items == PolicyItems(d, FALSE)
  <2> HIDE DEF T, items
  <2>1. \A c, e \in T : c.profile = e.profile => c = e
    BY <1>4
  <2>2. ToSet(items) = T
    BY <1>1 DEF items
  <2>3. StrictOrder(T, ItemOrder(T, extras)) /\ Lists(SortPolicyItems(items, extras), T, ItemOrder(T, extras))
    BY <1>1, <1>4, <2>1, <2>2, ItemsSorted
  <2> QED BY <2>3 DEF items
<1> HIDE DEF P, S, T
<1>10. f \in Bijection(T, S)
  <2>1. \A i \in T : f[i] \in S /\ f[i].profile = i.profile
    BY <1>4, <1>5, <1>6
  <2>2. f \in [T -> S]
    BY <2>1
  <2>3. ASSUME NEW i \in T, NEW j \in T, f[i] = f[j] PROVE i = j
    <3>1. i.profile = j.profile
      BY <2>1, <2>3
    <3> QED BY <1>4, <3>1
  <2>4. ASSUME NEW e \in S PROVE \E i \in T : f[i] = e
    <3>1. PolicyItem(d, e.profile, FALSE) \in T /\ PolicyItem(d, e.profile, FALSE).profile = e.profile
      BY <1>3, <1>5, <1>6
    <3>2. f[PolicyItem(d, e.profile, FALSE)] = PolicyItem(d, e.profile, TRUE)
      BY <3>1
    <3> QED BY <1>3, <3>1, <3>2
  <2> HIDE DEF f
  <2> QED BY <2>2, <2>3, <2>4 DEF Bijection, Injection, IsInjective, Surjection
<1>11. ASSUME NEW x \in T, NEW y \in T PROVE <<x, y>> \in RT <=> <<f[x], f[y]>> \in RS
  <2>1. f[x] \in S /\ f[y] \in S /\ f[x] = PolicyItem(d, x.profile, TRUE) /\ f[y] = PolicyItem(d, y.profile, TRUE)
    BY <1>4, <1>5
  <2>2. ItemKey(f[x], extras) = ItemKey(x, extras) /\ ItemKey(f[y], extras) = ItemKey(y, extras)
    BY <1>4, <1>7, <2>1
  <2> HIDE DEF f
  <2>3. <<x, y>> \in RT <=> LexLess(ItemKey(x, extras), ItemKey(y, extras))
    BY DEF ItemOrder, ByRank
  <2>4. <<f[x], f[y]>> \in RS <=> LexLess(ItemKey(f[x], extras), ItemKey(f[y], extras))
    BY <2>1 DEF ItemOrder, ByRank
  <2> QED BY <2>2, <2>3, <2>4
<1> HIDE DEF RS, RT, s, t
<1>12. DOMAIN s = DOMAIN t /\ \A k \in DOMAIN t : s[k] = f[t[k]]
  <2> HIDE DEF f
  <2> QED BY <1>1, <1>8, <1>9, <1>10, <1>11, ListsMap
<1>13. Cardinality(T) \in Nat /\ DOMAIN t = 1..Cardinality(T) /\ \A k \in DOMAIN t : t[k] \in T
    BY <1>1, FS_CardinalityType, <1>9 DEF Lists
<1>14. \A k \in DOMAIN t : t[k].profile \in P /\ s[k] = PolicyItem(d, t[k].profile, TRUE) /\ t[k] = PolicyItem(d, t[k].profile, FALSE)
    BY <1>4, <1>12, <1>13
<1> DEFINE n == Cardinality(T)
<1>15. n \in Nat /\ DOMAIN s = 1..n /\ DOMAIN t = 1..n
    BY <1>12, <1>13
<1> HIDE DEF n
<1>16. ASSUME NEW k \in 1..n PROVE \E p \in P : s[k] = PolicyItem(d, p, TRUE) /\ t[k] = PolicyItem(d, p, FALSE)
    BY <1>14, <1>15
<1>17. \E m \in Nat : /\ DOMAIN s = 1..m /\ DOMAIN t = 1..m
                      /\ \A k \in 1..m : \E p \in P : s[k] = PolicyItem(d, p, TRUE) /\ t[k] = PolicyItem(d, p, FALSE)
    BY <1>15, <1>16
<1> QED BY <1>17 DEF s, t, P

\* Two sequences of the same length, with their elements side by side in a relation.
Beside(s, t, A, B, Rel) ==
    /\ s \in Seq(A) /\ t \in Seq(B) /\ Len(s) = Len(t)
    /\ \A k \in 1..Len(s) : <<s[k], t[k]>> \in Rel

\* So are their concatenations.
LEMMA BesideConcat ==
    ASSUME NEW A, NEW B, NEW Rel, NEW s, NEW t, Beside(s, t, A, B, Rel), NEW s2, NEW t2, Beside(s2, t2, A, B, Rel)
    PROVE  Beside(s \o s2, t \o t2, A, B, Rel)
<1>1. s \in Seq(A) /\ t \in Seq(B) /\ Len(s) = Len(t) /\ s2 \in Seq(A) /\ t2 \in Seq(B) /\ Len(s2) = Len(t2)
    BY DEF Beside
<1>2. /\ s \o s2 \in Seq(A) /\ t \o t2 \in Seq(B)
      /\ Len(s \o s2) = Len(s) + Len(s2) /\ Len(t \o t2) = Len(s) + Len(s2)
      /\ Len(s) \in Nat /\ Len(s2) \in Nat
  <2>1. \A C : \A x, y \in Seq(C) : /\ x \o y \in Seq(C) /\ Len(x \o y) = Len(x) + Len(y)
                                    /\ Len(x) \in Nat /\ Len(y) \in Nat
    OBVIOUS
  <2> QED BY <1>1, <2>1
<1>3. ASSUME NEW k \in 1..(Len(s) + Len(s2)) PROVE <<(s \o s2)[k], (t \o t2)[k]>> \in Rel
  <2>1. CASE k <= Len(s)
    <3>1. (s \o s2)[k] = s[k] /\ (t \o t2)[k] = t[k] /\ k \in 1..Len(s)
      BY <1>1, <1>2, <2>1
    <3> QED BY <3>1 DEF Beside
  <2>2. CASE ~(k <= Len(s))
    <3>1. (s \o s2)[k] = s2[k - Len(s)] /\ (t \o t2)[k] = t2[k - Len(s)] /\ k - Len(s) \in 1..Len(s2)
      BY <1>1, <1>2, <2>2
    <3> QED BY <3>1 DEF Beside
  <2> QED BY <2>1, <2>2
<1> QED BY <1>2, <1>3 DEF Beside

\* A phase of the explainer beside the planner's.
PhasePairs(d) ==
    {<<Phase(PolicyItem(d, w[1], TRUE), w[2], w[3]), Phase(PolicyItem(d, w[1], FALSE), w[2], w[3])>> :
        w \in PlannedProfiles(d) \X BOOLEAN \X Int}
ToldPhases(d, explain) == [item : ItemsOf(d, explain), warm : BOOLEAN, target : Int]

\* Phases of the same profile, kind and target are such a pair.
LEMMA PhasePaired ==
    ASSUME NEW d, NEW p \in PlannedProfiles(d), NEW warm \in BOOLEAN, NEW target \in Int
    PROVE  /\ <<Phase(PolicyItem(d, p, TRUE), warm, target), Phase(PolicyItem(d, p, FALSE), warm, target)>> \in PhasePairs(d)
           /\ Phase(PolicyItem(d, p, TRUE), warm, target) \in ToldPhases(d, TRUE)
           /\ Phase(PolicyItem(d, p, FALSE), warm, target) \in ToldPhases(d, FALSE)
<1> DEFINE w == <<p, warm, target>>
<1>1. w \in PlannedProfiles(d) \X BOOLEAN \X Int /\ w[1] = p /\ w[2] = warm /\ w[3] = target
    OBVIOUS
<1> HIDE DEF w
<1>2. <<Phase(PolicyItem(d, w[1], TRUE), w[2], w[3]), Phase(PolicyItem(d, w[1], FALSE), w[2], w[3])>> \in PhasePairs(d)
    BY <1>1 DEF PhasePairs
<1>3. PolicyItem(d, p, TRUE) \in ItemsOf(d, TRUE) /\ PolicyItem(d, p, FALSE) \in ItemsOf(d, FALSE)
    BY DEF ItemsOf
<1> QED BY <1>1, <1>2, <1>3 DEF Phase, ToldPhases

\* One phase for each of the ranked items.
LEMMA PhaseBlock ==
    ASSUME NEW d, NEW n \in Nat, NEW x, NEW y, x = [k \in 1..n |-> x[k]], y = [k \in 1..n |-> y[k]],
           \A k \in 1..n : \E p \in PlannedProfiles(d), warm \in BOOLEAN, target \in Int :
                              /\ x[k] = Phase(PolicyItem(d, p, TRUE), warm, target)
                              /\ y[k] = Phase(PolicyItem(d, p, FALSE), warm, target)
    PROVE  Beside(x, y, ToldPhases(d, TRUE), ToldPhases(d, FALSE), PhasePairs(d))
<1> DEFINE A == ToldPhases(d, TRUE)
           B == ToldPhases(d, FALSE)
<1>1. ASSUME NEW k \in 1..n PROVE x[k] \in A /\ y[k] \in B /\ <<x[k], y[k]>> \in PhasePairs(d)
  <2>1. PICK p \in PlannedProfiles(d), warm \in BOOLEAN, target \in Int :
                              /\ x[k] = Phase(PolicyItem(d, p, TRUE), warm, target)
                              /\ y[k] = Phase(PolicyItem(d, p, FALSE), warm, target)
    OBVIOUS
  <2> QED BY <2>1, PhasePaired
<1> HIDE DEF A, B
<1>2. x \in Seq(A) /\ y \in Seq(B)
  <2>1. \A k \in 1..n : x[k] \in A /\ y[k] \in B
    BY <1>1
  <2>2. x \in [1..n -> A] /\ y \in [1..n -> B]
    BY <2>1
  <2> QED BY <2>2
<1>3. Len(x) = n /\ Len(y) = n
  <2>1. DOMAIN x = 1..n /\ DOMAIN y = 1..n
    OBVIOUS
  <2>2. DOMAIN x = 1..Len(x) /\ Len(x) \in Nat /\ DOMAIN y = 1..Len(y) /\ Len(y) \in Nat
    BY <1>2
  <2>3. ASSUME NEW m \in Nat, 1..m = 1..n PROVE m = n
    <3>1. CASE m < n
      <4>1. n \in 1..n /\ n \notin 1..m
        BY <3>1
      <4> QED BY <2>3, <4>1
    <3>2. CASE n < m
      <4>1. m \in 1..m /\ m \notin 1..n
        BY <3>2
      <4> QED BY <2>3, <4>1
    <3> QED BY <3>1, <3>2
  <2> QED BY <2>1, <2>2, <2>3
<1> QED BY <1>1, <1>2, <1>3 DEF Beside, A, B

\* The phases of the explainer are those of the planner, with the explainer's items.
LEMMA PhasesBeside ==
    ASSUME NEW d, PlanDatabase(d)
    PROVE  Beside(Phases(PolicyItems(d, TRUE)), Phases(PolicyItems(d, FALSE)),
                  ToldPhases(d, TRUE), ToldPhases(d, FALSE), PhasePairs(d))
<1> DEFINE s == SortPolicyItems(PolicyItems(d, TRUE), FALSE)
           t == SortPolicyItems(PolicyItems(d, FALSE), FALSE)
           u == SortPolicyItems(PolicyItems(d, TRUE), TRUE)
           v == SortPolicyItems(PolicyItems(d, FALSE), TRUE)
           Side(x, y) == Beside(x, y, ToldPhases(d, TRUE), ToldPhases(d, FALSE), PhasePairs(d))
           a1 == [k \in DOMAIN s |-> Phase(s[k], TRUE, s[k].capacity.minWarm)]
           a2 == [k \in DOMAIN t |-> Phase(t[k], TRUE, t[k].capacity.minWarm)]
           b1 == [k \in DOMAIN s |-> Phase(s[k], FALSE, s[k].capacity.minCached)]
           b2 == [k \in DOMAIN t |-> Phase(t[k], FALSE, t[k].capacity.minCached)]
           c1 == [k \in DOMAIN u |-> Phase(u[k], TRUE, u[k].capacity.warm)]
           c2 == [k \in DOMAIN v |-> Phase(v[k], TRUE, v[k].capacity.warm)]
           e1 == [k \in DOMAIN u |-> Phase(u[k], FALSE, u[k].capacity.cached)]
           e2 == [k \in DOMAIN v |-> Phase(v[k], FALSE, v[k].capacity.cached)]
<1>1. /\ Phases(PolicyItems(d, TRUE)) = a1 \o b1 \o c1 \o e1
      /\ Phases(PolicyItems(d, FALSE)) = a2 \o b2 \o c2 \o e2
    BY DEF Phases
<1>2. TRUE \in BOOLEAN /\ FALSE \in BOOLEAN
    OBVIOUS
<1>3. PICK n \in Nat : /\ DOMAIN s = 1..n /\ DOMAIN t = 1..n
                       /\ \A k \in 1..n : \E p \in PlannedProfiles(d) : /\ s[k] = PolicyItem(d, p, TRUE)
                                                                        /\ t[k] = PolicyItem(d, p, FALSE)
    BY <1>2, RankedPair
<1>4. PICK m \in Nat : /\ DOMAIN u = 1..m /\ DOMAIN v = 1..m
                       /\ \A k \in 1..m : \E p \in PlannedProfiles(d) : /\ u[k] = PolicyItem(d, p, TRUE)
                                                                        /\ v[k] = PolicyItem(d, p, FALSE)
    BY <1>2, RankedPair
<1> HIDE DEF s, t, u, v
<1>5. ASSUME NEW p \in PlannedProfiles(d)
      PROVE  /\ PolicyItem(d, p, TRUE).capacity = PolicyItem(d, p, FALSE).capacity
             /\ PolicyItem(d, p, FALSE).capacity.warm \in Int /\ PolicyItem(d, p, FALSE).capacity.cached \in Int
             /\ PolicyItem(d, p, FALSE).capacity.minWarm \in Int /\ PolicyItem(d, p, FALSE).capacity.minCached \in Int
  <2>1. PolicyItem(d, p, TRUE).capacity = PolicyItem(d, p, FALSE).capacity
    BY DEF PolicyItem
  <2>2. PolicyItem(d, p, FALSE) \in ItemSet(d)
    BY DEF ItemSet
  <2> QED BY <2>1, <2>2, ItemFacts
<1>6. Side(a1, a2)
  <2>1. a1 = [k \in 1..n |-> a1[k]] /\ a2 = [k \in 1..n |-> a2[k]]
    BY <1>3
  <2>2. ASSUME NEW k \in 1..n
        PROVE  \E p \in PlannedProfiles(d), warm \in BOOLEAN, target \in Int :
                  a1[k] = Phase(PolicyItem(d, p, TRUE), warm, target) /\ a2[k] = Phase(PolicyItem(d, p, FALSE), warm, target)
    <3>1. PICK p \in PlannedProfiles(d) : s[k] = PolicyItem(d, p, TRUE) /\ t[k] = PolicyItem(d, p, FALSE)
      BY <1>3
    <3>2. a1[k] = Phase(s[k], TRUE, s[k].capacity.minWarm) /\ a2[k] = Phase(t[k], TRUE, t[k].capacity.minWarm)
      BY <1>3
    <3> HIDE DEF a1, a2
    <3>3. a1[k] = Phase(PolicyItem(d, p, TRUE), TRUE, t[k].capacity.minWarm) /\ a2[k] = Phase(PolicyItem(d, p, FALSE), TRUE, t[k].capacity.minWarm)
      BY <1>5, <3>1, <3>2
    <3>4. t[k].capacity.minWarm \in Int
      BY <1>5, <3>1
    <3> QED BY <1>2, <3>3, <3>4
  <2> HIDE DEF a1, a2
  <2> QED BY <2>1, <2>2, PhaseBlock
<1>7. Side(b1, b2)
  <2>1. b1 = [k \in 1..n |-> b1[k]] /\ b2 = [k \in 1..n |-> b2[k]]
    BY <1>3
  <2>2. ASSUME NEW k \in 1..n
        PROVE  \E p \in PlannedProfiles(d), warm \in BOOLEAN, target \in Int :
                  b1[k] = Phase(PolicyItem(d, p, TRUE), warm, target) /\ b2[k] = Phase(PolicyItem(d, p, FALSE), warm, target)
    <3>1. PICK p \in PlannedProfiles(d) : s[k] = PolicyItem(d, p, TRUE) /\ t[k] = PolicyItem(d, p, FALSE)
      BY <1>3
    <3>2. b1[k] = Phase(s[k], FALSE, s[k].capacity.minCached) /\ b2[k] = Phase(t[k], FALSE, t[k].capacity.minCached)
      BY <1>3
    <3> HIDE DEF b1, b2
    <3>3. b1[k] = Phase(PolicyItem(d, p, TRUE), FALSE, t[k].capacity.minCached) /\ b2[k] = Phase(PolicyItem(d, p, FALSE), FALSE, t[k].capacity.minCached)
      BY <1>5, <3>1, <3>2
    <3>4. t[k].capacity.minCached \in Int
      BY <1>5, <3>1
    <3> QED BY <1>2, <3>3, <3>4
  <2> HIDE DEF b1, b2
  <2> QED BY <2>1, <2>2, PhaseBlock
<1>8. Side(c1, c2)
  <2>1. c1 = [k \in 1..m |-> c1[k]] /\ c2 = [k \in 1..m |-> c2[k]]
    BY <1>4
  <2>2. ASSUME NEW k \in 1..m
        PROVE  \E p \in PlannedProfiles(d), warm \in BOOLEAN, target \in Int :
                  c1[k] = Phase(PolicyItem(d, p, TRUE), warm, target) /\ c2[k] = Phase(PolicyItem(d, p, FALSE), warm, target)
    <3>1. PICK p \in PlannedProfiles(d) : u[k] = PolicyItem(d, p, TRUE) /\ v[k] = PolicyItem(d, p, FALSE)
      BY <1>4
    <3>2. c1[k] = Phase(u[k], TRUE, u[k].capacity.warm) /\ c2[k] = Phase(v[k], TRUE, v[k].capacity.warm)
      BY <1>4
    <3> HIDE DEF c1, c2
    <3>3. c1[k] = Phase(PolicyItem(d, p, TRUE), TRUE, v[k].capacity.warm) /\ c2[k] = Phase(PolicyItem(d, p, FALSE), TRUE, v[k].capacity.warm)
      BY <1>5, <3>1, <3>2
    <3>4. v[k].capacity.warm \in Int
      BY <1>5, <3>1
    <3> QED BY <1>2, <3>3, <3>4
  <2> HIDE DEF c1, c2
  <2> QED BY <2>1, <2>2, PhaseBlock
<1>9. Side(e1, e2)
  <2>1. e1 = [k \in 1..m |-> e1[k]] /\ e2 = [k \in 1..m |-> e2[k]]
    BY <1>4
  <2>2. ASSUME NEW k \in 1..m
        PROVE  \E p \in PlannedProfiles(d), warm \in BOOLEAN, target \in Int :
                  e1[k] = Phase(PolicyItem(d, p, TRUE), warm, target) /\ e2[k] = Phase(PolicyItem(d, p, FALSE), warm, target)
    <3>1. PICK p \in PlannedProfiles(d) : u[k] = PolicyItem(d, p, TRUE) /\ v[k] = PolicyItem(d, p, FALSE)
      BY <1>4
    <3>2. e1[k] = Phase(u[k], FALSE, u[k].capacity.cached) /\ e2[k] = Phase(v[k], FALSE, v[k].capacity.cached)
      BY <1>4
    <3> HIDE DEF e1, e2
    <3>3. e1[k] = Phase(PolicyItem(d, p, TRUE), FALSE, v[k].capacity.cached) /\ e2[k] = Phase(PolicyItem(d, p, FALSE), FALSE, v[k].capacity.cached)
      BY <1>5, <3>1, <3>2
    <3>4. v[k].capacity.cached \in Int
      BY <1>5, <3>1
    <3> QED BY <1>2, <3>3, <3>4
  <2> HIDE DEF e1, e2
  <2> QED BY <2>1, <2>2, PhaseBlock
<1> HIDE DEF a1, a2, b1, b2, c1, c2, e1, e2
<1>10. Side(a1 \o b1, a2 \o b2)
    BY <1>6, <1>7, BesideConcat
<1>11. Side(a1 \o b1 \o c1, a2 \o b2 \o c2)
    BY <1>8, <1>10, BesideConcat
<1>12. Side(a1 \o b1 \o c1 \o e1, a2 \o b2 \o c2 \o e2)
    BY <1>9, <1>11, BesideConcat
<1> QED BY <1>1, <1>12

\* So the explainer and the planner come through all phases side by side.
LEMMA PhasesTold ==
    ASSUME VariantsById, NEW d, PlanDatabase(d), NEW a, NEW st, <<a, st>> \in Told(d)
    PROVE  <<PlacePhases(d, a, Phases(PolicyItems(d, TRUE)), TRUE),
             PlacePhases(d, st, Phases(PolicyItems(d, FALSE)), FALSE)>> \in Told(d)
<1> DEFINE told == Phases(PolicyItems(d, TRUE))
           phases == Phases(PolicyItems(d, FALSE))
           n == Len(phases)
           Rel == Told(d)
           X == {With(w[1], w[2]) : w \in Good(d) \X SUBSET AllNames(d)}
           Y == Good(d)
<1>1. Beside(told, phases, ToldPhases(d, TRUE), ToldPhases(d, FALSE), PhasePairs(d))
    BY PhasesBeside
<1> HIDE DEF told, phases
<1>2. n \in Nat /\ DOMAIN told = 1..n /\ DOMAIN phases = 1..n /\ \A k \in 1..n : <<told[k], phases[k]>> \in PhasePairs(d)
    BY <1>1 DEF Beside
<1>3. Rel \in SUBSET (X \X Y)
    BY DEF Told
<1>4. ASSUME NEW x, NEW y, <<x, y>> \in Rel, NEW k \in 1..n
      PROVE  <<PlaceUntil(d, x, told[k], TRUE), PlaceUntil(d, y, phases[k], FALSE)>> \in Rel
  <2>1. <<told[k], phases[k]>> \in PhasePairs(d)
    BY <1>2
  <2>2. PICK w \in PlannedProfiles(d) \X BOOLEAN \X Int :
            <<told[k], phases[k]>> = <<Phase(PolicyItem(d, w[1], TRUE), w[2], w[3]), Phase(PolicyItem(d, w[1], FALSE), w[2], w[3])>>
    BY <2>1 DEF PhasePairs
  <2>3. /\ told[k] = Phase(PolicyItem(d, w[1], TRUE), w[2], w[3]) /\ phases[k] = Phase(PolicyItem(d, w[1], FALSE), w[2], w[3])
        /\ w[1] \in PlannedProfiles(d) /\ w[2] \in BOOLEAN /\ w[3] \in Int
    BY <2>2
  <2> QED BY <1>4, <2>3, UntilPair
<1> HIDE DEF Rel, X, Y, n
<1>5. <<a, st>> \in Rel
    BY DEF Rel
<1>6. <<PlacePhases(d, a, told, TRUE), PlacePhases(d, st, phases, FALSE)>> \in Rel
    BY <1>2, <1>3, <1>4, <1>5, PhasesPair
<1> QED BY <1>6 DEF Rel, told, phases

-----------------------------------------------------------------------------
(* The pins and the kept copies do not look at the candidates *)

\* A hard pin is placed the same for both items of a profile.
LEMMA PinSame ==
    ASSUME NEW d, NEW st, NEW p, NEW s
    PROVE  PlaceHardPin(d, st, PolicyItem(d, p, TRUE), s) = PlaceHardPin(d, st, PolicyItem(d, p, FALSE), s)
<1> DEFINE e == PolicyItem(d, p, TRUE)
           item == PolicyItem(d, p, FALSE)
<1>1. e.profile = item.profile /\ e.policy = item.policy
    BY DEF PolicyItem
<1> HIDE DEF e, item
<1>2. ASSUME NEW c PROVE BudgetReasons(d, st, e, c, TRUE) = BudgetReasons(d, st, item, c, TRUE)
  <2>1. LimitReasons(st, e, NodeOf[c.slot], TRUE) = LimitReasons(st, item, NodeOf[c.slot], TRUE)
    BY <1>1 DEF LimitReasons
  <2> QED BY <2>1 DEF BudgetReasons
<1>3. ASSUME NEW c PROVE BaseReasons(d, e, c) = BaseReasons(d, item, c)
    BY <1>1 DEF BaseReasons
<1>4. ASSUME NEW c, NEW refused PROVE PinCandidate(d, st, e, c, refused) = PinCandidate(d, st, item, c, refused)
    BY <1>1 DEF PinCandidate
<1> DEFINE c == [slot |-> s, variant |-> BestVariant(d, item.profile, s)]
           R(i) == BaseReasons(d, i, c) \cup BudgetReasons(d, st, i, c, TRUE)
           Refused(r) == Suppressed(d, NodeOf[s]) \/ r # {}
           Miss(q) == [Add(st, MissingAssignment(q, st.missing[q], TRUE)) EXCEPT !.missing[q] = @ + 1]
<1>5. PlaceHardPin(d, st, e, s) = IF s \in KnownSlots(d) THEN PinCandidate(d, st, e, c, Refused(R(e))) ELSE Miss(item.profile)
    BY <1>1 DEF PlaceHardPin
<1>6. PlaceHardPin(d, st, item, s) = IF s \in KnownSlots(d) THEN PinCandidate(d, st, item, c, Refused(R(item))) ELSE Miss(item.profile)
    BY DEF PlaceHardPin
<1>7. R(e) = R(item)
  <2> HIDE DEF c
  <2> QED BY <1>2, <1>3
<1> HIDE DEF c, Refused, Miss, R
<1>8. PlaceHardPin(d, st, e, s) = PlaceHardPin(d, st, item, s)
    BY <1>4, <1>5, <1>6, <1>7
<1> QED BY <1>8 DEF e, item

\* So are all the pins of its policy.
LEMMA PinsOfSame ==
    ASSUME NEW d, NEW st, NEW p
    PROVE  PlacePinsOf(d, st, PolicyItem(d, p, TRUE)) = PlacePinsOf(d, st, PolicyItem(d, p, FALSE))
<1> DEFINE e == PolicyItem(d, p, TRUE)
           item == PolicyItem(d, p, FALSE)
           pins == item.policy.pins
<1>1. e.policy.pins = pins
    BY DEF PolicyItem
<1>2. \A a, s : PlaceHardPin(d, a, e, s) = PlaceHardPin(d, a, item, s)
    BY PinSame
<1> HIDE DEF e, item
<1> DEFINE One(f) == f = [T \in SUBSET DOMAIN pins |-> IF T = {} THEN st
                             ELSE LET x == Max(T) IN PlaceHardPin(d, f[T \ {x}], e, pins[x])]
           Two(f) == f = [T \in SUBSET DOMAIN pins |-> IF T = {} THEN st
                             ELSE LET x == Max(T) IN PlaceHardPin(d, f[T \ {x}], item, pins[x])]
<1>3. PlacePinsOf(d, st, e) = (CHOOSE f : One(f))[DOMAIN pins]
    BY <1>1 DEF PlacePinsOf, FoldLeft, MapThenFoldSet
<1>4. PlacePinsOf(d, st, item) = (CHOOSE f : Two(f))[DOMAIN pins]
    BY DEF PlacePinsOf, FoldLeft, MapThenFoldSet
<1>5. ASSUME NEW f PROVE One(f) <=> Two(f)
    BY <1>2
<1> HIDE DEF One, Two
<1>6. (CHOOSE f : One(f)) = (CHOOSE f : Two(f))
    BY <1>5
<1> QED BY <1>3, <1>4, <1>6 DEF e, item

\* And the pins of all policies.
LEMMA PinsSame ==
    ASSUME NEW d, PlanDatabase(d), NEW st
    PROVE  PlaceHardPins(d, st, PolicyItems(d, TRUE)) = PlaceHardPins(d, st, PolicyItems(d, FALSE))
<1> DEFINE order == Ascending({p \in Profiles : d.version[p] > 0 /\ d.policy[p] # NoPolicy})
           told == PolicyItems(d, TRUE)
           items == PolicyItems(d, FALSE)
           n == DOMAIN order
<1>1. /\ told = [i \in n |-> PolicyItem(d, order[i], TRUE)]
      /\ items = [i \in n |-> PolicyItem(d, order[i], FALSE)]
    BY DEF PolicyItems
<1>2. PICK m \in Nat : n = 1..m
  <2> DEFINE S == {p \in Profiles : d.version[p] > 0 /\ d.policy[p] # NoPolicy}
  <2>1. IsFiniteSet(S) /\ S \subseteq Int
    BY PlanConstants, FS_Subset
  <2> HIDE DEF S
  <2>2. Cardinality(S) \in Nat /\ DOMAIN Ascending(S) = 1..Cardinality(S)
    BY <2>1, AscendingIs
  <2> QED BY <2>2 DEF S
<1> HIDE DEF order, told, items, n
<1>3. ASSUME NEW x \in n, NEW a PROVE PlacePinsOf(d, a, told[x]) = PlacePinsOf(d, a, items[x])
    BY <1>1, PinsOfSame
<1>4. DOMAIN told = n /\ DOMAIN items = n
    BY <1>1
<1> DEFINE One(f) == f = [T \in SUBSET n |-> IF T = {} THEN st
                             ELSE LET x == Max(T) IN PlacePinsOf(d, f[T \ {x}], told[x])]
           Two(f) == f = [T \in SUBSET n |-> IF T = {} THEN st
                             ELSE LET x == Max(T) IN PlacePinsOf(d, f[T \ {x}], items[x])]
<1>5. PlaceHardPins(d, st, told) = (CHOOSE f : One(f))[n]
    BY <1>4 DEF PlaceHardPins, FoldLeft, MapThenFoldSet
<1>6. PlaceHardPins(d, st, items) = (CHOOSE f : Two(f))[n]
    BY <1>4 DEF PlaceHardPins, FoldLeft, MapThenFoldSet
<1>7. ASSUME NEW f PROVE One(f) <=> Two(f)
  <2>1. ASSUME NEW T \in SUBSET n, T # {}
        PROVE  PlacePinsOf(d, f[T \ {Max(T)}], told[Max(T)]) = PlacePinsOf(d, f[T \ {Max(T)}], items[Max(T)])
    <3>1. Max(T) \in n
      BY <1>2, <2>1, MaxInSet
    <3> QED BY <1>3, <3>1
  <2> QED BY <2>1
<1> HIDE DEF One, Two
<1>8. (CHOOSE f : One(f)) = (CHOOSE f : Two(f))
    BY <1>7
<1> QED BY <1>5, <1>6, <1>8 DEF told, items

\* What a slot runs.
LEMMA ProtectedIs ==
    ASSUME NEW d, NEW st, NEW explain \in BOOLEAN, PlanDatabase(d), NEW s, NEW r
    PROVE  r \in ProtectedCandidates(d, st, PolicyItems(d, explain), s)
           => /\ r.item.profile \in PlannedProfiles(d) /\ r.item = PolicyItem(d, r.item.profile, explain)
              /\ r.variant \in Variants(r.item.profile)
              /\ SlotProfileCurrent(d, s, r.item.profile, r.variant)
<1> SUFFICES ASSUME r \in ProtectedCandidates(d, st, PolicyItems(d, explain), s)
             PROVE  /\ r.item.profile \in PlannedProfiles(d) /\ r.item = PolicyItem(d, r.item.profile, explain)
                    /\ r.variant \in Variants(r.item.profile)
                    /\ SlotProfileCurrent(d, s, r.item.profile, r.variant)
    OBVIOUS
<1>1. /\ r.item \in ToSet(PolicyItems(d, explain)) /\ r.variant \in Variants(r.item.profile)
      /\ SlotProfileCurrent(d, s, r.item.profile, r.variant)
    BY DEF ProtectedCandidates
<1>2. r.item \in ItemsOf(d, explain)
    BY <1>1, ItemsFound
<1>3. \A p : PolicyItem(d, p, explain).profile = p
    BY DEF PolicyItem
<1> QED BY <1>1, <1>2, <1>3 DEF ItemsOf

\* The items of a profile run the same copies.
LEMMA ProtectedAgrees ==
    ASSUME NEW d, PlanDatabase(d), NEW st, NEW s, NEW e \in BOOLEAN, NEW f \in BOOLEAN,
           NEW r \in ProtectedCandidates(d, st, PolicyItems(d, e), s)
    PROVE  [item |-> PolicyItem(d, r.item.profile, f), variant |-> r.variant]
              \in ProtectedCandidates(d, st, PolicyItems(d, f), s)
<1> DEFINE p == r.item.profile
           i == PolicyItem(d, p, f)
           q == [item |-> i, variant |-> r.variant]
           c == [slot |-> s, variant |-> r.variant]
<1>1. p \in PlannedProfiles(d) /\ r.item = PolicyItem(d, p, e)
    BY ProtectedIs
<1>2. i.profile = r.item.profile /\ i.policy = r.item.policy
    BY <1>1 DEF PolicyItem
<1>3. i \in ToSet(PolicyItems(d, f))
  <2>1. i \in ItemsOf(d, f)
    BY <1>1 DEF ItemsOf
  <2> QED BY <2>1, ItemsFound
<1>4. /\ r.variant \in UNION {Variants(x) : x \in Profiles}
      /\ r.variant \in Variants(r.item.profile) /\ SlotProfileCurrent(d, s, r.item.profile, r.variant)
      /\ NodeUsable(d, NodeOf[s], r.item.policy) /\ Fits(d, r.variant, s)
      /\ CanUseCandidate(d, st, r.item, c, TRUE)
    BY DEF ProtectedCandidates
<1> HIDE DEF i, p
<1>5. CanUseCandidate(d, st, i, c, TRUE)
  <2> HIDE DEF c
  <2>1. TRUE \in BOOLEAN
    OBVIOUS
  <2> QED BY <1>2, <1>4, <2>1, UseAgrees
<1>6. q.item = i /\ q.variant = r.variant /\ q \in [item : ToSet(PolicyItems(d, f)), variant : UNION {Variants(x) : x \in Profiles}]
    BY <1>3, <1>4
<1> HIDE DEF q
<1>7. q \in ProtectedCandidates(d, st, PolicyItems(d, f), s)
    BY <1>2, <1>4, <1>5, <1>6 DEF ProtectedCandidates
<1> QED BY <1>7 DEF q, i, p

\* There is at most one of them.
LEMMA ProtectedOne ==
    ASSUME NEW d, PlanDatabase(d), NEW st, NEW s, NEW e \in BOOLEAN,
           NEW r \in ProtectedCandidates(d, st, PolicyItems(d, e), s),
           NEW q \in ProtectedCandidates(d, st, PolicyItems(d, e), s)
    PROVE  r.item.profile = q.item.profile /\ r.variant = q.variant
<1>1. /\ r.item.profile \in PlannedProfiles(d) /\ r.variant \in Variants(r.item.profile) /\ q.variant \in Variants(q.item.profile)
      /\ SlotProfileCurrent(d, s, r.item.profile, r.variant) /\ SlotProfileCurrent(d, s, q.item.profile, q.variant)
    BY ProtectedIs
<1>2. r.item.profile = q.item.profile /\ r.variant.id = q.variant.id
    BY <1>1 DEF SlotProfileCurrent
<1> DEFINE p == r.item.profile
<1>3. p \in Profiles
    BY <1>1 DEF PlannedProfiles
<1>4. \A x \in Variants(p) : VariantOf(p, x.id) = x
    BY <1>3, VariantFacts
<1> QED BY <1>1, <1>2, <1>4

\* So the same copy of a slot is kept.
LEMMA PreserveSame ==
    ASSUME NEW d, PlanDatabase(d), NEW st, NEW s
    PROVE  PreserveCopy(d, st, PolicyItems(d, TRUE), s) = PreserveCopy(d, st, PolicyItems(d, FALSE), s)
<1> DEFINE F(e) == ProtectedCandidates(d, st, PolicyItems(d, e), s)
           R(e) == CHOOSE c \in F(e) : TRUE
           Kept(p, v) == Protect(st, p, [slot |-> s, variant |-> v], AssignmentFromFit(d, p, s, v, FALSE))
<1>1. ASSUME NEW e
      PROVE  PreserveCopy(d, st, PolicyItems(d, e), s)
             = IF RuntimeCopyProtected(d.slot[s]) /\ s \notin st.used /\ F(e) # {}
               THEN Kept(R(e).item.profile, R(e).variant) ELSE st
    BY DEF PreserveCopy
<1>2. TRUE \in BOOLEAN /\ FALSE \in BOOLEAN
    OBVIOUS
<1>3. \A e \in BOOLEAN : F(e) # {} => R(e) \in F(e)
    OBVIOUS
<1> HIDE DEF R, Kept
<1>4. ASSUME NEW e \in BOOLEAN, NEW f \in BOOLEAN, NEW r \in F(e) PROVE \E q \in F(f) : q.item.profile = r.item.profile /\ q.variant = r.variant
  <2> DEFINE q == [item |-> PolicyItem(d, r.item.profile, f), variant |-> r.variant]
  <2>1. q \in F(f)
    BY ProtectedAgrees
  <2>2. q.item.profile = r.item.profile /\ q.variant = r.variant
    BY DEF PolicyItem
  <2> HIDE DEF q, F
  <2> QED BY <2>1, <2>2
<1>5. ASSUME NEW e \in BOOLEAN, NEW r \in F(e), NEW q \in F(e) PROVE r.item.profile = q.item.profile /\ r.variant = q.variant
    BY ProtectedOne
<1> HIDE DEF F
<1>6. F(TRUE) = {} <=> F(FALSE) = {}
    BY <1>2, <1>4
<1>7. ASSUME F(TRUE) # {}
      PROVE  R(TRUE).item.profile = R(FALSE).item.profile /\ R(TRUE).variant = R(FALSE).variant
  <2>1. R(TRUE) \in F(TRUE) /\ R(FALSE) \in F(FALSE)
    BY <1>2, <1>3, <1>6, <1>7
  <2>2. PICK q \in F(TRUE) : q.item.profile = R(FALSE).item.profile /\ q.variant = R(FALSE).variant
    BY <1>2, <1>4, <2>1
  <2> QED BY <1>2, <1>5, <2>1, <2>2
<1> QED BY <1>1, <1>6, <1>7

\* And all the copies that run.
LEMMA PreservedSame ==
    ASSUME NEW d, PlanDatabase(d), NEW st
    PROVE  PreserveRuntimeCopies(d, st, PolicyItems(d, TRUE)) = PreserveRuntimeCopies(d, st, PolicyItems(d, FALSE))
<1> DEFINE order == Ascending(KnownSlots(d))
           told == PolicyItems(d, TRUE)
           items == PolicyItems(d, FALSE)
           n == DOMAIN order
<1>1. \A a, s : PreserveCopy(d, a, told, s) = PreserveCopy(d, a, items, s)
    BY PreserveSame
<1> HIDE DEF told, items
<1> DEFINE One(f) == f = [T \in SUBSET n |-> IF T = {} THEN st
                             ELSE LET x == Max(T) IN PreserveCopy(d, f[T \ {x}], told, order[x])]
           Two(f) == f = [T \in SUBSET n |-> IF T = {} THEN st
                             ELSE LET x == Max(T) IN PreserveCopy(d, f[T \ {x}], items, order[x])]
<1>2. PreserveRuntimeCopies(d, st, told) = (CHOOSE f : One(f))[n]
    BY DEF PreserveRuntimeCopies, FoldLeft, MapThenFoldSet
<1>3. PreserveRuntimeCopies(d, st, items) = (CHOOSE f : Two(f))[n]
    BY DEF PreserveRuntimeCopies, FoldLeft, MapThenFoldSet
<1> HIDE DEF order
<1>4. ASSUME NEW f PROVE One(f) <=> Two(f)
    BY <1>1
<1> HIDE DEF One, Two
<1>5. (CHOOSE f : One(f)) = (CHOOSE f : Two(f))
    BY <1>4
<1> QED BY <1>2, <1>3, <1>5 DEF told, items

\* The plan is marked by what a policy wants, which is the same for both items.
LEMMA MarkSame ==
    ASSUME NEW d, PlanDatabase(d), NEW plan, NEW protected
    PROVE  MarkAll(plan, protected, PolicyItems(d, TRUE)) = MarkAll(plan, protected, PolicyItems(d, FALSE))
<1> DEFINE told == PolicyItems(d, TRUE)
           items == PolicyItems(d, FALSE)
           n == 1..Len(plan)
           order == [i \in n |-> i]
<1>1. ASSUME NEW p PROVE WarmTarget(told, p) = WarmTarget(items, p)
  <2> DEFINE I(e) == CHOOSE item \in ItemsOf(d, e) : item.profile = p
  <2>1. TRUE \in BOOLEAN /\ FALSE \in BOOLEAN
    OBVIOUS
  <2>2. WarmTarget(told, p) = I(TRUE).capacity.warm /\ WarmTarget(items, p) = I(FALSE).capacity.warm
    BY <2>1, ItemsFound DEF WarmTarget
  <2>3. \A q, e : PolicyItem(d, q, e).profile = q
    BY DEF PolicyItem
  <2>4. CASE p \in PlannedProfiles(d)
    <3>1. ASSUME NEW e PROVE I(e) = PolicyItem(d, p, e)
      <4>1. PolicyItem(d, p, e) \in ItemsOf(d, e) /\ PolicyItem(d, p, e).profile = p
        BY <2>3, <2>4 DEF ItemsOf
      <4>2. I(e) \in ItemsOf(d, e) /\ I(e).profile = p
        BY <4>1
      <4> HIDE DEF I
      <4> QED BY <2>3, <4>2 DEF ItemsOf
    <3> HIDE DEF I
    <3>2. PolicyItem(d, p, TRUE).capacity = PolicyItem(d, p, FALSE).capacity
      BY DEF PolicyItem
    <3> QED BY <2>2, <3>1, <3>2
  <2>5. CASE p \notin PlannedProfiles(d)
    <3> DEFINE Is(e, item) == item \in ItemsOf(d, e) /\ item.profile = p
    <3>1. \A item : Is(TRUE, item) <=> Is(FALSE, item)
      BY <2>3, <2>5 DEF ItemsOf
    <3>2. I(TRUE) = (CHOOSE item : Is(TRUE, item)) /\ I(FALSE) = (CHOOSE item : Is(FALSE, item))
      OBVIOUS
    <3> HIDE DEF Is, I
    <3>3. (CHOOSE item : Is(TRUE, item)) = (CHOOSE item : Is(FALSE, item))
      BY <3>1
    <3> QED BY <2>2, <3>2, <3>3
  <2> QED BY <2>4, <2>5
<1> HIDE DEF told, items
<1>2. ASSUME NEW q, NEW i PROVE MarkOne(q, protected, told, i) = MarkOne(q, protected, items, i)
    BY <1>1 DEF MarkOne
<1> DEFINE One(f) == f = [T \in SUBSET n |-> IF T = {} THEN plan
                             ELSE LET x == Max(T) IN MarkOne(f[T \ {x}], protected, told, order[x])]
           Two(f) == f = [T \in SUBSET n |-> IF T = {} THEN plan
                             ELSE LET x == Max(T) IN MarkOne(f[T \ {x}], protected, items, order[x])]
<1>3. DOMAIN order = n
    OBVIOUS
<1> HIDE DEF order
<1>4. MarkAll(plan, protected, told) = (CHOOSE f : One(f))[n]
    BY <1>3 DEF MarkAll, FoldLeft, MapThenFoldSet, order
<1>5. MarkAll(plan, protected, items) = (CHOOSE f : Two(f))[n]
    BY <1>3 DEF MarkAll, FoldLeft, MapThenFoldSet, order
<1>6. ASSUME NEW f PROVE One(f) <=> Two(f)
    BY <1>2, ZenonT(60)
<1> HIDE DEF One, Two
<1>7. (CHOOSE f : One(f)) = (CHOOSE f : Two(f))
    BY <1>6
<1> QED BY <1>4, <1>5, <1>7 DEF told, items

-----------------------------------------------------------------------------
(* Where the explainer and the planner part *)

\* So far, only a pin makes a missing copy.
OnlyPinsShort(d, plan) ==
    \A i \in DOMAIN plan : plan[i].warm /\ plan[i].place[1] = "missing" => d.policy[plan[i].profile].pins # <<>>
GoodStart(d) == {st \in Good(d) : OnlyPinsShort(d, st.plan)}
GoodPinStart(d) == {st \in GoodPins(d) : OnlyPinsShort(d, st.plan)}

\* An entry of a slot, or of a profile with pins, keeps it so.
LEMMA OnlyPinsGrow ==
    ASSUME NEW d, NEW plan \in Seq(Entries(d)), OnlyPinsShort(d, plan), NEW a,
           a.place[1] = "missing" => d.policy[a.profile].pins # <<>>
    PROVE  OnlyPinsShort(d, Append(plan, a))
<1> DEFINE plan2 == Append(plan, a)
<1>1. /\ Len(plan) \in Nat /\ DOMAIN plan = 1..Len(plan) /\ DOMAIN plan2 = 1..(Len(plan) + 1)
      /\ \A i \in 1..Len(plan) : plan2[i] = plan[i]
      /\ plan2[Len(plan) + 1] = a
    OBVIOUS
<1> HIDE DEF plan2
<1>2. ASSUME NEW i \in DOMAIN plan2, plan2[i].warm, plan2[i].place[1] = "missing"
      PROVE  d.policy[plan2[i].profile].pins # <<>>
  <2>1. i \in 1..Len(plan) \/ i = Len(plan) + 1
    BY <1>1
  <2> QED BY <1>1, <1>2, <2>1 DEF OnlyPinsShort
<1>3. OnlyPinsShort(d, plan2)
    BY <1>2 DEF OnlyPinsShort
<1> QED BY <1>3 DEF plan2

\* markWarm leaves the plan alone.
LEMMA MarkWarmPlan ==
    ASSUME NEW d, NEW st \in PlannerState(d), NEW p \in Profiles, NEW c, c.slot \in Slots, c.variant \in Variants(p)
    PROVE  MarkWarm(st, p, c).plan = st.plan
<1> DEFINE n == NodeOf[c.slot]
           st2 == MarkWarm(st, p, c)
<1>1. /\ st2 \in PlannerState(d) /\ st2.plan = st.plan /\ st2.used = st.used \cup {c.slot}
      /\ st2.memory = [st.memory EXCEPT ![n] = @ + ProfileMemory(c.variant)]
      /\ st2.nodeCache = [st.nodeCache EXCEPT ![n] = @ \cup {p}]
      /\ st2.disk = IF p \in st.nodeCache[n] THEN st.disk
                    ELSE [st.disk EXCEPT ![n] = @ + ProfileDisk(c.variant)]
    BY MarkWarmFields
<1> QED BY <1>1

\* A hard pin.
LEMMA PinStart ==
    ASSUME NEW d, PlanDatabase(d), NEW item \in ItemSet(d), NEW st \in GoodPinStart(d),
           NEW s \in ToSet(item.policy.pins)
    PROVE  PlaceHardPin(d, st, item, s) \in GoodPinStart(d)
<1> DEFINE p == item.profile
           st2 == PlaceHardPin(d, st, item, s)
<1>1. p \in Profiles /\ p \in PlannedProfiles(d) /\ item.policy = d.policy[p] /\ item.policy.pins \in Seq(Nat)
    BY ItemFacts DEF GoodPolicy
<1>2. st \in GoodPins(d) /\ st \in PlannerState(d) /\ st.plan \in Seq(Entries(d)) /\ OnlyPinsShort(d, st.plan)
    BY DEF GoodPinStart, GoodPins, Good, PlannerState
<1>3. d.policy[p].pins # <<>>
  <2>1. \A x \in ToSet(<<>>) : FALSE
    BY DEF ToSet
  <2> QED BY <1>1, <2>1
<1>4. st2 \in GoodPins(d)
    BY <1>2, PinStep
<1>5. \E a : a.profile = p /\ st2.plan = Append(st.plan, a)
  <2>1. CASE s \in KnownSlots(d)
    <3> DEFINE v == BestVariant(d, p, s)
               c == [slot |-> s, variant |-> v]
               refused == Suppressed(d, NodeOf[s]) \/ BaseReasons(d, item, c) \cup BudgetReasons(d, st, item, c, TRUE) # {}
               a == AssignmentFromFit(d, p, c.slot, c.variant, refused)
               st1 == Add(st, a)
    <3>1. st2 = IF refused THEN st1 ELSE MarkWarm(st1, p, c)
      BY <2>1 DEF PlaceHardPin, PinCandidate
    <3>2. s \in Slots /\ v \in Variants(p) /\ refused \in BOOLEAN /\ c.slot = s /\ c.variant = v
      BY <1>1, <2>1, BestIs DEF KnownSlots
    <3> HIDE DEF v, c, refused
    <3>3. a \in Entries(d) /\ a.profile = p
      BY <1>1, <3>2, SlotEntry
    <3> HIDE DEF a
    <3>4. st1 \in PlannerState(d) /\ st1.plan = Append(st.plan, a)
      BY <1>2, <3>3, AddFields DEF Adds
    <3> HIDE DEF st1
    <3>5. MarkWarm(st1, p, c).plan = st1.plan
      BY <1>1, <3>2, <3>4, MarkWarmPlan
    <3> HIDE DEF st2
    <3> QED BY <3>1, <3>3, <3>4, <3>5
  <2>2. CASE s \notin KnownSlots(d)
    <3> DEFINE a == MissingAssignment(p, st.missing[p], TRUE)
               q == [Add(st, a).missing EXCEPT ![p] = @ + 1]
    <3>1. st2 = [Add(st, a) EXCEPT !.missing = q]
      BY <2>2 DEF PlaceHardPin
    <3>2. a.profile = p
      BY DEF MissingAssignment
    <3> HIDE DEF q, a
    <3>3. st2.plan = Append(st.plan, a)
      BY <1>2, <3>1 DEF Add, PlannerState
    <3> QED BY <3>2, <3>3
  <2> QED BY <2>1, <2>2
<1> HIDE DEF st2
<1>6. OnlyPinsShort(d, st2.plan)
    BY <1>2, <1>3, <1>5, OnlyPinsGrow
<1> QED BY <1>4, <1>6 DEF GoodPinStart, st2

\* All pins.
LEMMA PinsStart ==
    ASSUME NEW d, PlanDatabase(d), NEW items, Enumerates(items, ItemSet(d))
    PROVE  PlaceHardPins(d, NewPlanner, items) \in GoodStart(d)
<1> DEFINE St == GoodPinStart(d)
<1>1. PICK n \in Nat : DOMAIN items = 1..n
    BY DEF Enumerates
<1>2. \A k \in 1..n : items[k] \in ItemSet(d)
    BY <1>1 DEF Enumerates
<1>3. ASSUME NEW a \in St, NEW k \in 1..n PROVE PlacePinsOf(d, a, items[k]) \in St
  <2> DEFINE item == items[k]
             m == Len(item.policy.pins)
  <2>1. item \in ItemSet(d) /\ item.policy.pins \in Seq(Nat)
    BY <1>2, ItemFacts DEF GoodPolicy
  <2>2. m \in Nat /\ DOMAIN item.policy.pins = 1..m
    BY <2>1
  <2>3. \A j \in 1..m : item.policy.pins[j] \in ToSet(item.policy.pins)
    BY <2>2 DEF ToSet
  <2>4. \A b \in St, j \in 1..m : PlaceHardPin(d, b, item, item.policy.pins[j]) \in St
    BY <2>1, <2>3, PinStart
  <2> HIDE DEF St, m, item
  <2>5. PlacePinsOf(d, a, item) \in St
    BY <2>2, <2>4, PinsFold
  <2> QED BY <2>5 DEF item
<1>4. NewPlanner \in St
  <2>1. NewPlanner.plan = <<>>
    BY DEF NewPlanner
  <2> QED BY <2>1, NewStep DEF GoodPinStart, OnlyPinsShort
<1> HIDE DEF St
<1>5. PlaceHardPins(d, NewPlanner, items) \in St
    BY <1>1, <1>3, <1>4, AllPinsFold
<1> QED BY <1>5 DEF St, GoodPinStart, GoodPins, GoodStart

\* All the copies that run.
LEMMA PreserveStart ==
    ASSUME NEW d, PlanDatabase(d), NEW items, Enumerates(items, ItemSet(d)), NEW st \in GoodStart(d)
    PROVE  PreserveRuntimeCopies(d, st, items) \in GoodStart(d)
<1> DEFINE St == GoodStart(d)
           S == KnownSlots(d)
           n == Cardinality(S)
           order == Ascending(S)
<1>1. IsFiniteSet(S) /\ S \subseteq Int
  <2>1. S \subseteq Slots /\ IsFiniteSet(Slots) /\ Slots \subseteq Int
    BY PlanConstants DEF KnownSlots
  <2> QED BY <2>1, FS_Subset
<1> HIDE DEF S
<1>2. n \in Nat /\ DOMAIN order = 1..n /\ \A k \in DOMAIN order : order[k] \in S
    BY <1>1, AscendingIs
<1>3. order = Ascending(KnownSlots(d))
    BY DEF S
<1>4. ASSUME NEW b \in St, NEW s \in S PROVE PreserveCopy(d, b, items, s) \in St
  <2> DEFINE found == ProtectedCandidates(d, b, items, s)
             r == CHOOSE x \in found : TRUE
             p == r.item.profile
             c == [slot |-> s, variant |-> r.variant]
             a == AssignmentFromFit(d, p, s, r.variant, FALSE)
             q == Add(b, a).protected \cup {AssignmentID(a)}
             b1 == [Add(b, a) EXCEPT !.protected = q]
             b2 == PreserveCopy(d, b, items, s)
  <2>1. b \in Good(d) /\ b \in PlannerState(d) /\ b.plan \in Seq(Entries(d)) /\ OnlyPinsShort(d, b.plan)
    BY DEF GoodStart, Good, PlannerState
  <2>2. b2 \in Good(d)
    BY <2>1, PreserveStep DEF S
  <2>3. b2 = b \/ (found # {} /\ b2 = MarkWarm(b1, p, c))
    BY DEF PreserveCopy, Protect
  <2>4. ASSUME found # {}, b2 = MarkWarm(b1, p, c) PROVE b2.plan = Append(b.plan, a)
    <3>1. r \in found
      BY <2>4, SMTT(60)
    <3>2. r.item \in ToSet(items) /\ r.variant \in Variants(p)
      BY <3>1 DEF ProtectedCandidates
    <3> HIDE DEF r, found
    <3>3. p \in PlannedProfiles(d) /\ p \in Profiles
      BY <3>2, ItemFacts DEF Enumerates, ToSet
    <3>4. s \in Slots /\ c.slot = s /\ c.variant = r.variant /\ FALSE \in BOOLEAN
      BY DEF KnownSlots, S
    <3>5. a \in Entries(d) /\ a.profile = p /\ a.place \in Places
      <4>1. a \in Entries(d)
        BY <3>2, <3>3, <3>4, SlotEntry
      <4>2. a.profile = p
        BY DEF AssignmentFromFit
      <4> HIDE DEF a
      <4> QED BY <4>1, <4>2 DEF Entries, PlanEntry
    <3> HIDE DEF a, c, p
    <3>6. q \in SUBSET (Profiles \X Places)
      <4>1. Add(b, a) \in PlannerState(d)
        BY <2>1, <3>5, AddFields
      <4>2. Add(b, a).protected \in SUBSET (Profiles \X Places)
        BY <4>1 DEF PlannerState
      <4>3. AssignmentID(a) \in Profiles \X Places
        BY <3>3, <3>5 DEF AssignmentID
      <4> QED BY <4>2, <4>3
    <3> HIDE DEF q
    <3>7. b1 \in PlannerState(d) /\ b1.plan = Append(b.plan, a)
      <4>1. b1 \in PlannerState(d) /\ Adds(b, b1, a)
        BY <2>1, <3>5, <3>6, AddFields
      <4> QED BY <4>1 DEF Adds
    <3> HIDE DEF b1, b2
    <3>8. c.slot \in Slots /\ c.variant \in Variants(p)
      BY <3>2, <3>4
    <3>9. MarkWarm(b1, p, c).plan = b1.plan
      BY <3>3, <3>7, <3>8, MarkWarmPlan
    <3> QED BY <2>4, <3>7, <3>9
  <2>5. a.place[1] # "missing"
    BY DEF AssignmentFromFit
  <2> HIDE DEF a, b2
  <2>6. OnlyPinsShort(d, Append(b.plan, a))
    BY <2>1, <2>5, OnlyPinsGrow
  <2> QED BY <2>1, <2>2, <2>3, <2>4, <2>6 DEF GoodStart, b2
<1>5. \A a \in St, k \in 1..n : PreserveCopy(d, a, items, order[k]) \in St
    BY <1>2, <1>4
<1> HIDE DEF St, n, order
<1>6. st \in St
    BY DEF St
<1>7. PreserveRuntimeCopies(d, st, items) \in St
    BY <1>2, <1>3, <1>5, <1>6, PreserveFold
<1> QED BY <1>7 DEF St

\* What the planner has then is what the explainer has, with nothing rejected.
LEMMA StartTold ==
    ASSUME NEW d, PlanDatabase(d), NEW st \in GoodStart(d)
    PROVE  <<st, st>> \in Told(d)
<1>1. st \in Good(d) /\ st \in PlannerState(d) /\ OnlyPinsShort(d, st.plan)
    BY DEF GoodStart, Good
<1>2. st = With(st, {})
  <2>1. st.rejected = {}
    BY <1>1 DEF PlannerState
  <2> QED BY <1>1, <2>1 DEF With, PlannerState
<1>3. Explains(d, st.plan, {})
    BY <1>1 DEF Explains, OnlyPinsShort, IsShort
<1>4. {} \in SUBSET AllNames(d)
    OBVIOUS
<1> QED BY <1>1, <1>2, <1>3, <1>4, ToldIs

\* A plan in another order explains the same.
LEMMA RearrangedExplains ==
    ASSUME NEW d, NEW plan, NEW plan2, NEW f, Rearranges(f, plan2, plan), NEW r, Explains(d, plan, r)
    PROVE  Explains(d, plan2, r)
<1>1. ASSUME NEW p, IsShort(plan2, p) PROVE IsShort(plan, p)
  <2>1. PICK i \in DOMAIN plan2 : plan2[i].profile = p /\ plan2[i].warm /\ plan2[i].place[1] = "missing"
    BY <1>1 DEF IsShort
  <2>2. f[i] \in DOMAIN plan /\ SameEntry(plan2[i], plan[f[i]])
    BY DEF Rearranges
  <2>3. plan[f[i]].profile = p /\ plan[f[i]].warm /\ plan[f[i]].place[1] = "missing"
    BY <2>1, <2>2 DEF SameEntry
  <2> QED BY <2>2, <2>3 DEF IsShort
<1> QED BY <1>1 DEF Explains

\* The end of a plan, for the planner and for the explainer.
LEMMA PlanEnds ==
    ASSUME NEW d, NEW items, NEW explain, NEW w \in PlannerState(d), NEW r,
           PlacePhases(d, PreserveRuntimeCopies(d, PlaceHardPins(d, NewPlanner, items), items), Phases(items), explain)
              = With(w, r)
    PROVE  /\ PlanItems(d, items, explain).plan = SortAssignments(MarkAll(w.plan, w.protected, items))
           /\ PlanItems(d, items, explain).rejected = r
<1> DEFINE st == With(w, r)
           marked == MarkAll(st.plan, st.protected, items)
           st2 == [st EXCEPT !.plan = marked]
           st3 == [st2 EXCEPT !.plan = SortAssignments(st2.plan)]
<1>1. PlanItems(d, items, explain) = st3
    BY DEF PlanItems, Planned, MarkDraining
<1>2. st.plan = w.plan /\ st.protected = w.protected /\ st.rejected = r
    BY WithFields
<1>3. DOMAIN st = {"plan", "protected", "used", "warm", "cached", "missing", "memory", "disk", "nodeWarm", "nodeCache", "rejected"}
    BY DEF With, PlannerState
<1>4. st = [x \in DOMAIN st |-> st[x]]
    BY DEF With, PlannerState
<1> HIDE DEF marked, st
<1>5. st2 = [x \in DOMAIN st |-> st2[x]] /\ st2.plan = marked /\ st2.rejected = st.rejected
    BY <1>3, <1>4
<1> HIDE DEF st2
<1> DEFINE sorted == SortAssignments(st2.plan)
<1> HIDE DEF sorted
<1>6. st3.plan = sorted /\ st3.rejected = st2.rejected
    BY <1>3, <1>5 DEF sorted
<1>7. st3.plan = SortAssignments(MarkAll(w.plan, w.protected, items)) /\ st3.rejected = r
    BY <1>2, <1>5, <1>6 DEF sorted, marked
<1> QED BY <1>1, <1>7

\* With the variants of a profile listed by their ids, the explainer makes the plan
\* that is carried out, and names every candidate of a profile without pins that is
\* short of warm copies.
THEOREM ExplainedPlan ==
    ASSUME VariantsById, NEW d, PlanDatabase(d)
    PROVE  /\ RunPlanner(d, TRUE).plan = RunPlanner(d, FALSE).plan
           /\ Explains(d, RunPlanner(d, TRUE).plan, RunPlanner(d, TRUE).rejected)
<1> DEFINE items == PolicyItems(d, FALSE)
           told == PolicyItems(d, TRUE)
           kept == PreserveRuntimeCopies(d, PlaceHardPins(d, NewPlanner, items), items)
           st == PlacePhases(d, kept, Phases(items), FALSE)
           st2 == PlacePhases(d, kept, Phases(told), TRUE)
           plan == SortAssignments(MarkAll(st.plan, st.protected, items))
<1>1. Enumerates(items, ItemSet(d))
    BY ItemsAre
<1>2. PreserveRuntimeCopies(d, PlaceHardPins(d, NewPlanner, told), told) = kept
  <2>1. PlaceHardPins(d, NewPlanner, told) = PlaceHardPins(d, NewPlanner, items)
    BY PinsSame
  <2> DEFINE pinned == PlaceHardPins(d, NewPlanner, items)
  <2>2. PreserveRuntimeCopies(d, pinned, told) = PreserveRuntimeCopies(d, pinned, items)
    <3> HIDE DEF pinned
    <3> QED BY PreservedSame
  <2> QED BY <2>1, <2>2
<1>3. kept \in GoodStart(d)
  <2> HIDE DEF items
  <2>1. PlaceHardPins(d, NewPlanner, items) \in GoodStart(d)
    BY <1>1, PinsStart
  <2> QED BY <1>1, <2>1, PreserveStart
<1>4. <<st2, st>> \in Told(d)
  <2>1. <<kept, kept>> \in Told(d)
    BY <1>3, StartTold
  <2> HIDE DEF kept
  <2> QED BY <2>1, PhasesTold
<1>5. st2 = PlacePhases(d, PreserveRuntimeCopies(d, PlaceHardPins(d, NewPlanner, told), told), Phases(told), TRUE)
    BY <1>2
<1>6. st = PlacePhases(d, PreserveRuntimeCopies(d, PlaceHardPins(d, NewPlanner, items), items), Phases(items), FALSE)
    OBVIOUS
<1>7. /\ RunPlanner(d, TRUE) = PlanItems(d, told, TRUE) /\ RunPlanner(d, FALSE) = PlanItems(d, items, FALSE)
    BY DEF RunPlanner
<1>8. MarkAll(st.plan, st.protected, told) = MarkAll(st.plan, st.protected, items)
  <2> HIDE DEF st
  <2> QED BY MarkSame
<1> HIDE DEF kept, st, st2, items, told
<1>9. PICK r \in SUBSET AllNames(d) : st2 = With(st, r) /\ Explains(d, st.plan, r)
    BY <1>4, ToldIs
<1>10. st \in PlannerState(d) /\ st.plan \in Seq(Entries(d))
    BY <1>4, ToldIs DEF Good, PlannerState
<1>11. RunPlanner(d, TRUE).plan = plan /\ RunPlanner(d, TRUE).rejected = r
  <2> DEFINE e == TRUE
  <2>1. PlacePhases(d, PreserveRuntimeCopies(d, PlaceHardPins(d, NewPlanner, told), told), Phases(told), e) = With(st, r)
    BY <1>5, <1>9
  <2>2. RunPlanner(d, TRUE) = PlanItems(d, told, e)
    BY <1>7
  <2> HIDE DEF e
  <2>3. /\ PlanItems(d, told, e).plan = SortAssignments(MarkAll(st.plan, st.protected, told))
        /\ PlanItems(d, told, e).rejected = r
    BY <1>10, <2>1, PlanEnds
  <2> QED BY <1>8, <2>2, <2>3
<1>12. RunPlanner(d, FALSE).plan = plan
  <2>1. st = With(st, st.rejected)
    BY <1>10 DEF With, PlannerState
  <2> DEFINE e == FALSE
             no == st.rejected
  <2>2. PlacePhases(d, PreserveRuntimeCopies(d, PlaceHardPins(d, NewPlanner, items), items), Phases(items), e) = With(st, no)
    BY <1>6, <2>1
  <2>3. RunPlanner(d, FALSE) = PlanItems(d, items, e)
    BY <1>7
  <2> HIDE DEF e, no
  <2>4. PlanItems(d, items, e).plan = SortAssignments(MarkAll(st.plan, st.protected, items))
    BY <1>10, <2>2, PlanEnds
  <2> QED BY <2>3, <2>4
<1>13. Explains(d, plan, r)
  <2> DEFINE marked == MarkAll(st.plan, st.protected, items)
  <2>1. marked \in Seq(Entries(d)) /\ \E f : Rearranges(f, marked, st.plan)
    BY <1>10, MarkedPlan
  <2>2. \E f : Rearranges(f, plan, marked)
    BY <2>1, SortedPlan
  <2> HIDE DEF marked, plan
  <2>3. Explains(d, marked, r)
    BY <1>9, <2>1, RearrangedExplains
  <2> QED BY <2>2, <2>3, RearrangedExplains
<1> QED BY <1>11, <1>12, <1>13
=============================================================================
