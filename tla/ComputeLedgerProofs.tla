------------------------ MODULE ComputeLedgerProofs -------------------------
(***************************************************************************)
(* Proofs about ComputeLedger, for every value of its constants.           *)
(***************************************************************************)
EXTENDS ComputeLedger, SumTheorems

-----------------------------------------------------------------------------
(* What a ledger adds up to *)

Amounts(ledger, u) == [i \in DOMAIN ledger |-> Worth(ledger[i], u)]
Latest(S) == [T \in SUBSET S |-> Max(T)]

\* An entry of the ledger is worth a whole number to everybody.
LEMMA WorthType ==
    ASSUME NEW e \in LedgerEntry, NEW u
    PROVE  Worth(e, u) \in Int
<1>1. e.amount \in Nat
    BY DEF LedgerEntry
<1> QED BY <1>1 DEF Worth

\* LedgerSum is a sum over the indices of the ledger.
LEMMA LedgerSumIsSum ==
    ASSUME NEW l \in Seq(LedgerEntry), NEW u
    PROVE  \E sum : /\ IsSum(sum, DOMAIN l, Latest(DOMAIN l), Amounts(l, u))
                    /\ LedgerSum(l, u) = sum[DOMAIN l]
<1> DEFINE D == DOMAIN l
           Raw(it) == [s \in SUBSET D |-> IF s = {} THEN 0
                          ELSE LET x == Max(s) IN Worth(l[x], u) + it[s \ {x}]]
           it == CHOOSE f : f = Raw(f)
<1>1. LedgerSum(l, u) = it[D]
    BY DEF LedgerSum, FoldLeft, MapThenFoldSet
<1>2. D = 1..Len(l) /\ Len(l) \in Nat
    OBVIOUS
<1>3. \A s \in SUBSET D : s # {} => Max(s) \in s
    BY <1>2, MaxInSet
<1>4. Picks(Latest(D), D)
    BY <1>3 DEF Picks, Latest
<1>5. IsFiniteSet(D)
    BY <1>2, FS_Interval
<1>6. \E sum : IsSum(sum, D, Latest(D), Amounts(l, u))
  <2> HIDE DEF D
  <2> QED BY <1>4, <1>5, SumExists
<1>7. ASSUME NEW f PROVE Raw(f) = SumOf(f, D, Latest(D), Amounts(l, u))
    BY <1>3 DEF SumOf, Latest, Amounts
<1>8. \E f : f = Raw(f)
    BY <1>6, <1>7 DEF IsSum
<1>9. it = Raw(it)
    BY <1>8
<1>10. IsSum(it, D, Latest(D), Amounts(l, u))
    BY <1>7, <1>9 DEF IsSum
<1> QED BY <1>1, <1>10

\* The indices of a ledger as a finite set whose maxima Latest picks.
LEMMA LedgerIndices ==
    ASSUME NEW l \in Seq(LedgerEntry), NEW u
    PROVE  /\ IsFiniteSet(DOMAIN l) /\ Picks(Latest(DOMAIN l), DOMAIN l)
           /\ \A i \in DOMAIN l : Amounts(l, u)[i] \in Int
<1>1. DOMAIN l = 1..Len(l) /\ Len(l) \in Nat
    OBVIOUS
<1>2. \A s \in SUBSET (DOMAIN l) : s # {} => Max(s) \in s
    BY <1>1, MaxInSet
<1>3. Picks(Latest(DOMAIN l), DOMAIN l)
    BY <1>2 DEF Picks, Latest
<1>4. IsFiniteSet(DOMAIN l)
    BY <1>1, FS_Interval
<1>5. \A i \in DOMAIN l : Amounts(l, u)[i] \in Int
    BY WorthType DEF Amounts
<1> QED BY <1>3, <1>4, <1>5

\* The sum of a ledger is a whole number.
LEMMA LedgerSumType ==
    ASSUME NEW l \in Seq(LedgerEntry), NEW u
    PROVE  LedgerSum(l, u) \in Int
<1>1. PICK sum : /\ IsSum(sum, DOMAIN l, Latest(DOMAIN l), Amounts(l, u))
                 /\ LedgerSum(l, u) = sum[DOMAIN l]
    BY LedgerSumIsSum
<1>2. /\ IsFiniteSet(DOMAIN l) /\ Picks(Latest(DOMAIN l), DOMAIN l)
      /\ \A i \in DOMAIN l : Amounts(l, u)[i] \in Int
    BY LedgerIndices
<1>3. DOMAIN l \in SUBSET DOMAIN l
    OBVIOUS
<1>4. sum[DOMAIN l] \in Int
    BY <1>1, <1>2, <1>3, SumType
<1> QED BY <1>1, <1>4

\* The empty ledger is worth nothing.
LEMMA LedgerSumEmpty ==
    ASSUME NEW u
    PROVE  LedgerSum(<<>>, u) = 0
<1>1. <<>> \in Seq(LedgerEntry) /\ DOMAIN <<>> = {}
    OBVIOUS
<1>2. PICK sum : /\ IsSum(sum, DOMAIN <<>>, Latest(DOMAIN <<>>), Amounts(<<>>, u))
                 /\ LedgerSum(<<>>, u) = sum[DOMAIN <<>>]
    BY <1>1, LedgerSumIsSum
<1>3. SumAt(sum, {}, Latest(DOMAIN <<>>), Amounts(<<>>, u))
    BY <1>2, SumStep
<1> QED BY <1>1, <1>2, <1>3 DEF SumAt

\* appendLedgerEntry changes what the ledger adds up to by the entry's worth.
LEMMA LedgerSumAppend ==
    ASSUME NEW l \in Seq(LedgerEntry), NEW e \in LedgerEntry, NEW u
    PROVE  LedgerSum(Append(l, e), u) = LedgerSum(l, u) + Worth(e, u)
<1> DEFINE l2 == Append(l, e)
           n == Len(l)
           D == DOMAIN l
           D2 == DOMAIN l2
<1>1. /\ l2 \in Seq(LedgerEntry) /\ n \in Nat /\ D = 1..n /\ D2 = 1..(n + 1)
      /\ l2[n + 1] = e /\ \A i \in D : l2[i] = l[i]
    OBVIOUS
<1>2. /\ D \subseteq D2 /\ D2 # {} /\ D2 \in SUBSET D2 /\ n + 1 \in D2 /\ D2 \ {n + 1} = D
      /\ D \in SUBSET D2
    BY <1>1
<1> HIDE DEF l2, n, D, D2
<1>3. PICK sum : IsSum(sum, D, Latest(D), Amounts(l, u)) /\ LedgerSum(l, u) = sum[D]
    BY LedgerSumIsSum DEF D
<1>4. PICK sum2 : IsSum(sum2, D2, Latest(D2), Amounts(l2, u)) /\ LedgerSum(l2, u) = sum2[D2]
  <2>1. l2 \in Seq(LedgerEntry)
    BY <1>1
  <2> QED BY <2>1, LedgerSumIsSum DEF D2
<1>5. Max(D2) = n + 1
  <2>1. n + 1 \in Nat /\ D2 \in SUBSET (1..(n + 1)) /\ D2 # {}
    BY <1>1, <1>2
  <2>2. Max(D2) \in D2 /\ \A x \in D2 : x <= Max(D2)
    BY <2>1, MaxInSet
  <2> QED BY <1>1, <1>2, <2>2
<1>6. SumAt(sum2, D2, Latest(D2), Amounts(l2, u))
    BY <1>2, <1>4, SumStep
<1>7. Latest(D2)[D2] = n + 1
    BY <1>2, <1>5 DEF Latest
<1>8. sum2[D2] = Amounts(l2, u)[n + 1] + sum2[D]
    BY <1>2, <1>6, <1>7 DEF SumAt
<1>9. Amounts(l2, u)[n + 1] = Worth(e, u)
    BY <1>1, <1>2 DEF Amounts, D2
<1>10. sum2[D] = sum[D]
  <2>1. \A T \in SUBSET D : Latest(D2)[T] = Latest(D)[T]
    BY <1>2 DEF Latest
  <2>2. \A i \in D : Amounts(l2, u)[i] = Amounts(l, u)[i]
    BY <1>1, <1>2 DEF Amounts, D, D2
  <2>3. IsFiniteSet(D) /\ Picks(Latest(D), D)
    BY LedgerIndices DEF D
  <2>4. D \in SUBSET D
    OBVIOUS
  <2> QED BY <1>2, <1>3, <1>4, <2>1, <2>2, <2>3, <2>4, SumExtends
<1>11. LedgerSum(l, u) \in Int /\ Worth(e, u) \in Int
    BY LedgerSumType, WorthType
<1> QED BY <1>3, <1>4, <1>8, <1>9, <1>10, <1>11 DEF l2

-----------------------------------------------------------------------------
(* What the pending tasks of a user hold *)

Held(d, u) == [t \in Tasks |-> IF d.tasks[t].user = u /\ d.tasks[t].status \in Pending
                               THEN d.tasks[t].cost ELSE 0]

\* pendingComputeCost is a sum over the tasks.
LEMMA PendingIsSum ==
    ASSUME NEW d, NEW u
    PROVE  \E sum : /\ IsSum(sum, Tasks, AnyOf(Tasks), Held(d, u))
                    /\ PendingComputeCost(d, u) = sum[Tasks]
<1> DEFINE Raw(it) == [s \in SUBSET Tasks |-> IF s = {} THEN 0
              ELSE LET x == CHOOSE y \in s : TRUE
                   IN  (IF d.tasks[x].user = u /\ d.tasks[x].status \in Pending
                        THEN d.tasks[x].cost ELSE 0) + it[s \ {x}]]
           it == CHOOSE f : f = Raw(f)
<1>1. PendingComputeCost(d, u) = it[Tasks]
    BY DEF PendingComputeCost, MapThenSumSet, MapThenFoldSet
<1>2. IsFiniteSet(Tasks)
    BY LedgerConstants
<1>3. \E sum : IsSum(sum, Tasks, AnyOf(Tasks), Held(d, u))
    BY <1>2, AnyOfPicks, SumExists
<1>4. ASSUME NEW f PROVE Raw(f) = SumOf(f, Tasks, AnyOf(Tasks), Held(d, u))
  <2>1. \A s \in SUBSET Tasks : s # {} => (CHOOSE y \in s : TRUE) \in Tasks
    OBVIOUS
  <2>2. ASSUME NEW s \in SUBSET Tasks
        PROVE  Raw(f)[s] = SumOf(f, Tasks, AnyOf(Tasks), Held(d, u))[s]
    <3>1. AnyOf(Tasks)[s] = CHOOSE y \in s : TRUE
      BY DEF AnyOf
    <3>2. CASE s = {}
      BY <3>2 DEF SumOf
    <3>3. CASE s # {}
      BY <2>1, <3>1, <3>3 DEF SumOf, Held
    <3> QED BY <3>2, <3>3
  <2>3. Raw(f) = [s \in SUBSET Tasks |-> Raw(f)[s]]
    OBVIOUS
  <2>4. SumOf(f, Tasks, AnyOf(Tasks), Held(d, u))
            = [s \in SUBSET Tasks |-> SumOf(f, Tasks, AnyOf(Tasks), Held(d, u))[s]]
    BY DEF SumOf
  <2> HIDE DEF Raw
  <2> QED BY <2>2, <2>3, <2>4
<1>5. \E f : f = Raw(f)
    BY <1>3, <1>4 DEF IsSum
<1>6. it = Raw(it)
    BY <1>5
<1>7. IsSum(it, Tasks, AnyOf(Tasks), Held(d, u))
    BY <1>4, <1>6 DEF IsSum
<1> QED BY <1>1, <1>7

\* The tasks of a database hold a natural number of units each.
LEMMA HeldType ==
    ASSUME NEW d, d.tasks \in [Tasks -> TaskRecord], NEW u, NEW t \in Tasks
    PROVE  Held(d, u)[t] \in Nat
BY DEF Held, TaskRecord

\* And so do all of them together.
LEMMA PendingType ==
    ASSUME NEW d, d.tasks \in [Tasks -> TaskRecord], NEW u
    PROVE  PendingComputeCost(d, u) \in Nat
<1>1. PICK sum : /\ IsSum(sum, Tasks, AnyOf(Tasks), Held(d, u))
                 /\ PendingComputeCost(d, u) = sum[Tasks]
    BY PendingIsSum
<1>2. IsFiniteSet(Tasks) /\ Tasks \in SUBSET Tasks
    BY LedgerConstants
<1>3. \A t \in Tasks : Held(d, u)[t] \in Nat
    BY HeldType
<1>4. sum[Tasks] \in Nat
    BY <1>1, <1>2, <1>3, AnyOfPicks, SumNat
<1> QED BY <1>1, <1>4

\* A step that changes one task changes the cost that is pending by what the
\* task holds more or less than before.
LEMMA PendingChange ==
    ASSUME NEW d, d.tasks \in [Tasks -> TaskRecord], NEW e, e.tasks \in [Tasks -> TaskRecord],
           NEW t \in Tasks, \A s \in Tasks : s # t => e.tasks[s] = d.tasks[s], NEW u
    PROVE  PendingComputeCost(e, u) = PendingComputeCost(d, u) + (Held(e, u)[t] - Held(d, u)[t])
<1>1. PICK sd : /\ IsSum(sd, Tasks, AnyOf(Tasks), Held(d, u))
                /\ PendingComputeCost(d, u) = sd[Tasks]
    BY PendingIsSum
<1>2. PICK se : /\ IsSum(se, Tasks, AnyOf(Tasks), Held(e, u))
                /\ PendingComputeCost(e, u) = se[Tasks]
    BY PendingIsSum
<1>3. IsFiniteSet(Tasks) /\ Tasks \in SUBSET Tasks /\ Picks(AnyOf(Tasks), Tasks)
    BY LedgerConstants, AnyOfPicks
<1>4. DifferAt(Held(d, u), Held(e, u), t, Tasks)
  <2>1. \A s \in Tasks : Held(d, u)[s] \in Nat /\ Held(e, u)[s] \in Nat
    BY HeldType
  <2>2. \A s \in Tasks : s # t => Held(d, u)[s] = Held(e, u)[s]
    BY DEF Held
  <2> QED BY <2>1, <2>2 DEF DifferAt
<1>5. t \in Tasks => se[Tasks] = sd[Tasks] + (Held(e, u)[t] - Held(d, u)[t])
    BY <1>1, <1>2, <1>3, <1>4, SumChange
<1> QED BY <1>1, <1>2, <1>5

-----------------------------------------------------------------------------
(* The inductive invariant.  Memory and disk are databases of the same     *)
(* kind: a save copies the one to the other, a restart copies it back.     *)

\* A task belongs to a user there is and costs what its request resolved.
TasksOK(d, r) ==
    \A t \in Tasks : d.tasks[t].status # "none" =>
        /\ d.tasks[t].user \in Users /\ d.users[d.tasks[t].user].exists
        /\ d.tasks[t].cost = r[t].cost
        /\ r[t].pc \notin {"none", "new"}

\* Attempts are those its request has begun; reports are those of attempts.
AttemptsOK(d, r) ==
    \A a \in Attempts :
        /\ d.attempts[a].status # "none" =>
              /\ d.attempts[a].cost = r[TaskOf(a)].cost /\ a[2] <= r[TaskOf(a)].n
              /\ d.tasks[TaskOf(a)].status # "none"
        /\ d.reports[a] # "none" => d.attempts[a].status # "none"

IsCharge(e) == e.type # "admin_adjustment"

\* An entry of the ledger is of a completed report and at its price ...
EntryOK(d, e) ==
    IsCharge(e) =>
        /\ d.reports[e.report] = "completed" /\ d.attempts[e.report].cost > 0
        /\ e.amount = d.attempts[e.report].cost
        /\ e.type = "consume_compute" => e.user = d.tasks[TaskOf(e.report)].user

\* ... it is the only one of its type for its report ...
SameCharge(e, f) == IsCharge(e) /\ e.type = f.type /\ e.report = f.report

\* ... and every completed report that costs anything has its debit.
Debited(d, a) ==
    d.reports[a] = "completed" /\ d.attempts[a].cost > 0 =>
        \E i \in DOMAIN d.ledger : d.ledger[i].type = "consume_compute" /\ d.ledger[i].report = a

ChargesOK(d) ==
    /\ \A i \in DOMAIN d.ledger : EntryOK(d, d.ledger[i])
    /\ \A i, j \in DOMAIN d.ledger : SameCharge(d.ledger[i], d.ledger[j]) => i = j
    /\ \A a \in Attempts : Debited(d, a)

BalancesOK(d) == \A u \in Users : d.users[u].balance = LedgerSum(d.ledger, u)

DbOK(d, r) ==
    d \in Database /\ TasksOK(d, r) /\ AttemptsOK(d, r) /\ ChargesOK(d) /\ BalancesOK(d)

\* What a request relies on in memory while its goroutine runs.
RequestsOK ==
    \A t \in Tasks :
        /\ ~alive => req[t].pc \in {"none", "done"}
        /\ req[t].pc = "new" => req[t].user \in Users /\ mem.users[req[t].user].exists
        /\ req[t].pc \in {"start", "dispatch", "wait"} => mem.tasks[t].status # "none"
        /\ req[t].pc = "dispatch" =>
              <<t, req[t].n>> \in Attempts /\ mem.attempts[<<t, req[t].n>>].status # "none"

\* While the Manager is down, what is pending on disk is nobody's.
StrandedOK == ~alive => \A t \in Tasks : disk.tasks[t].status \in Pending => t \in stranded

AdjustmentIn(d, i) ==
    \E j \in DOMAIN d.ledger : d.ledger[j].type = "admin_adjustment" /\ d.ledger[j].request = i

AckedIn(d, answered) ==
    /\ \A i \in answered \ Keys : AdjustmentIn(d, i)
    /\ \A k \in answered \cap (Keys \ {ConfiguredKey}) : d.keys[k] = "revoked"

IndInv ==
    /\ TypeOK
    /\ DbOK(mem, req) /\ DbOK(disk, req)
    /\ RequestsOK
    /\ HeldBalanceIsServed /\ StrandedOK
    /\ AckedIn(mem, acked) /\ AckedIn(disk, acked)
    /\ IsPrefix(disk.ledger, mem.ledger)

\* What a step must give: the invariant again, and a disk that keeps its ledger.
Good == IndInv' /\ IsPrefix(disk.ledger, disk'.ledger)

-----------------------------------------------------------------------------
(* Databases *)

\* The fields of a database.
LEMMA Fields ==
    ASSUME NEW d \in Database
    PROVE  /\ d.users \in [Users -> UserRecord] /\ d.keys \in [Keys -> {"none", "active", "revoked"}]
           /\ d.cost \in Nat /\ d.owner \in Users \cup {NoUser}
           /\ d.tasks \in [Tasks -> TaskRecord] /\ d.attempts \in [Attempts -> AttemptRecord]
           /\ d.reports \in [Attempts -> {"none", "completed", "failed", "cancelled"}]
           /\ d.ledger \in Seq(LedgerEntry)
           /\ DOMAIN d = {"users", "keys", "cost", "owner", "tasks", "attempts", "reports", "ledger"}
           /\ d = [users |-> d.users, keys |-> d.keys, cost |-> d.cost, owner |-> d.owner,
                   tasks |-> d.tasks, attempts |-> d.attempts, reports |-> d.reports,
                   ledger |-> d.ledger]
BY DEF Database

\* Prefixes, entry by entry.
LEMMA PrefixEntries ==
    ASSUME NEW S, NEW l \in Seq(S), NEW m \in Seq(S)
    PROVE  IsPrefix(l, m) <=> Len(l) <= Len(m) /\ \A i \in DOMAIN l : m[i] = l[i]
<1>1. Len(l) <= Len(m) => \A i \in 1..Len(l) : SubSeq(l, 1, Len(l))[i] = l[i]
                                              /\ SubSeq(m, 1, Len(l))[i] = m[i]
    OBVIOUS
<1>2. SubSeq(l, 1, Len(l)) = l
    OBVIOUS
<1>3. ASSUME Len(l) <= Len(m) PROVE Len(SubSeq(m, 1, Len(l))) = Len(l) /\ SubSeq(m, 1, Len(l)) \in Seq(S)
    BY <1>3
<1>4. ASSUME Len(l) <= Len(m), \A i \in DOMAIN l : m[i] = l[i]
      PROVE  SubSeq(m, 1, Len(l)) = l
    BY <1>1, <1>3, <1>4
<1> QED BY <1>1, <1>2, <1>4 DEF IsPrefix

\* A ledger is a prefix of itself, of itself with another entry, and of what its
\* own extensions are extended to.
LEMMA PrefixRules ==
    ASSUME NEW l \in Seq(LedgerEntry)
    PROVE  /\ IsPrefix(l, l)
           /\ \A e \in LedgerEntry : IsPrefix(l, Append(l, e))
           /\ \A m, n \in Seq(LedgerEntry) : IsPrefix(l, m) /\ IsPrefix(m, n) => IsPrefix(l, n)
<1>1. IsPrefix(l, l)
    BY PrefixEntries
<1>2. ASSUME NEW e \in LedgerEntry PROVE IsPrefix(l, Append(l, e))
  <2>1. Append(l, e) \in Seq(LedgerEntry) /\ Len(l) <= Len(Append(l, e))
        /\ \A i \in DOMAIN l : Append(l, e)[i] = l[i]
    OBVIOUS
  <2> QED BY <2>1, PrefixEntries
<1>3. ASSUME NEW m \in Seq(LedgerEntry), NEW n \in Seq(LedgerEntry), IsPrefix(l, m), IsPrefix(m, n)
      PROVE  IsPrefix(l, n)
  <2>1. Len(l) <= Len(m) /\ \A i \in DOMAIN l : m[i] = l[i]
    BY <1>3, PrefixEntries
  <2>2. Len(m) <= Len(n) /\ \A i \in DOMAIN m : n[i] = m[i]
    BY <1>3, PrefixEntries
  <2>3. Len(l) <= Len(n) /\ \A i \in DOMAIN l : n[i] = l[i]
    BY <2>1, <2>2
  <2> QED BY <2>3, PrefixEntries
<1> QED BY <1>1, <1>2, <1>3

\* A request goroutine that has got past its balance check keeps its cost.
Later(r, r2) ==
    \A t \in Tasks : r[t].pc \notin {"none", "new"} =>
        r2[t].cost = r[t].cost /\ r[t].n <= r2[t].n /\ r2[t].pc \notin {"none", "new"}

\* The progress of requests disturbs no database.
LEMMA LaterKeeps ==
    ASSUME NEW d, NEW r \in [Tasks -> Request], NEW r2 \in [Tasks -> Request],
           DbOK(d, r), Later(r, r2)
    PROVE  DbOK(d, r2)
<1>1. TasksOK(d, r2)
    BY DEF DbOK, TasksOK, Later
<1>2. AttemptsOK(d, r2)
  <2>1. ASSUME NEW a \in Attempts, d.attempts[a].status # "none"
        PROVE  d.attempts[a].cost = r2[TaskOf(a)].cost /\ a[2] <= r2[TaskOf(a)].n
    <3>1. a[2] \in Nat /\ TaskOf(a) \in Tasks
      BY DEF Attempts, TaskOf
    <3>2. /\ d.attempts[a].cost = r[TaskOf(a)].cost /\ a[2] <= r[TaskOf(a)].n
          /\ d.tasks[TaskOf(a)].status # "none"
      BY <2>1 DEF DbOK, AttemptsOK
    <3>3. r[TaskOf(a)].pc \notin {"none", "new"}
      BY <3>1, <3>2 DEF DbOK, TasksOK
    <3>4. r2[TaskOf(a)].cost = r[TaskOf(a)].cost /\ r[TaskOf(a)].n <= r2[TaskOf(a)].n
      BY <3>1, <3>3 DEF Later
    <3>5. r[TaskOf(a)].n \in Nat /\ r2[TaskOf(a)].n \in Nat
      BY <3>1, LedgerConstants DEF Request
    <3> QED BY <3>1, <3>2, <3>4, <3>5
  <2> QED BY <2>1 DEF DbOK, AttemptsOK
<1> QED BY <1>1, <1>2 DEF DbOK

\* What was acknowledged stays in a database that grows.
LEMMA AckedGrows ==
    ASSUME NEW d \in Database, NEW e \in Database, NEW answered, answered \subseteq Adjustments \cup Keys,
           AckedIn(d, answered), IsPrefix(d.ledger, e.ledger),
           \A k \in Keys \ {ConfiguredKey} : d.keys[k] = "revoked" => e.keys[k] = "revoked"
    PROVE  AckedIn(e, answered)
<1>1. d.ledger \in Seq(LedgerEntry) /\ e.ledger \in Seq(LedgerEntry)
    BY Fields
<1>2. Len(d.ledger) <= Len(e.ledger) /\ \A i \in DOMAIN d.ledger : e.ledger[i] = d.ledger[i]
    BY <1>1, PrefixEntries
<1>3. \A i \in DOMAIN d.ledger : i \in DOMAIN e.ledger
    BY <1>1, <1>2
<1>4. \A i \in answered \ Keys : AdjustmentIn(e, i)
    BY <1>2, <1>3 DEF AckedIn, AdjustmentIn
<1> QED BY <1>4 DEF AckedIn

\* A step that is one Store.Update.
LEMMA UpdateGood ==
    ASSUME IndInv, NEW d, NEW ok \in BOOLEAN, Update(d, ok), alive' = alive,
           DbOK(d, req'), Later(req, req'), IsPrefix(mem.ledger, d.ledger),
           AckedIn(d, acked'), acked' = acked \/ ok, RequestsOK', HeldBalanceIsServed',
           req' \in [Tasks -> Request], live' \subseteq Attempts, stranded' \subseteq Tasks,
           acked' \subseteq Adjustments \cup Keys, edits' \in 0..MaxEdits
    PROVE  Good
<1>1. alive /\ alive' /\ mem' = d /\ disk' \in {d, disk}
    BY DEF Update
<1>2. d \in Database /\ mem \in Database /\ disk \in Database /\ req \in [Tasks -> Request]
    BY DEF DbOK, IndInv, TypeOK
<1>3. d.ledger \in Seq(LedgerEntry) /\ mem.ledger \in Seq(LedgerEntry) /\ disk.ledger \in Seq(LedgerEntry)
    BY <1>2, Fields
<1>4. DbOK(disk, req')
    BY <1>2, LaterKeeps DEF IndInv
<1>5. DbOK(mem, req)' /\ DbOK(disk, req)'
    BY <1>1, <1>4 DEF DbOK, TasksOK, AttemptsOK, ChargesOK, BalancesOK, EntryOK, Debited
<1>6. IsPrefix(disk.ledger, d.ledger)
    BY <1>3, PrefixRules DEF IndInv
<1>7. IsPrefix(disk'.ledger, mem'.ledger) /\ IsPrefix(disk.ledger, disk'.ledger)
    BY <1>1, <1>3, <1>6, PrefixRules
<1>8. AckedIn(mem, acked)' /\ AckedIn(disk, acked)'
  <2>1. AckedIn(mem', acked')
    BY <1>1
  <2>2. AckedIn(disk', acked')
    <3>1. CASE ok
      BY <3>1 DEF Update
    <3>2. CASE ~ok
      BY <3>2 DEF Update, IndInv
    <3> QED BY <3>1, <3>2
  <2> QED BY <2>1, <2>2 DEF AckedIn, AdjustmentIn
<1>9. count' \in [saves : 0..MaxFailedSaves, crashes : 0..MaxCrashes]
    BY LedgerConstants DEF Update, IndInv, TypeOK
<1>10. TypeOK'
    BY <1>1, <1>2, <1>9 DEF TypeOK
<1> QED BY <1>1, <1>5, <1>7, <1>8, <1>10 DEF Good, IndInv, StrandedOK

-----------------------------------------------------------------------------
(* Edits of records *)

\* e is d but for keys, the owner, the cost and what users may do.
RecordsOnly(d, e) ==
    /\ e.tasks = d.tasks /\ e.attempts = d.attempts /\ e.reports = d.reports /\ e.ledger = d.ledger
    /\ \A u \in Users : /\ e.users[u].balance = d.users[u].balance
                        /\ d.users[u].exists => e.users[u].exists
    /\ \A k \in Keys \ {ConfiguredKey} : d.keys[k] = "revoked" => e.keys[k] = "revoked"

\* Such an edit leaves a database in order.
LEMMA RecordsKeep ==
    ASSUME NEW d, NEW e \in Database, NEW r, DbOK(d, r), RecordsOnly(d, e)
    PROVE  DbOK(e, r)
<1>1. TasksOK(e, r) /\ AttemptsOK(e, r)
    BY DEF DbOK, RecordsOnly, TasksOK, AttemptsOK
<1>2. ChargesOK(e)
    BY DEF DbOK, RecordsOnly, ChargesOK, EntryOK, Debited
<1>3. BalancesOK(e)
    BY DEF DbOK, RecordsOnly, BalancesOK
<1> QED BY <1>1, <1>2, <1>3 DEF DbOK

\* An admin's edit, or a registration, is such an edit in one Update.
LEMMA RecordsStep ==
    ASSUME IndInv, NEW e \in Database, NEW ok \in BOOLEAN, Update(e, ok), RecordsOnly(mem, e),
           UNCHANGED <<alive, req, live, stranded>>,
           acked' \subseteq Adjustments \cup Keys, AckedIn(e, acked'), acked' = acked \/ ok,
           edits' \in 0..MaxEdits
    PROVE  Good
<1>1. req \in [Tasks -> Request] /\ live \subseteq Attempts /\ stranded \subseteq Tasks
      /\ mem \in Database
    BY DEF IndInv, TypeOK
<1>2. DbOK(e, req')
    BY RecordsKeep DEF IndInv
<1>3. Later(req, req')
    BY <1>1, LedgerConstants DEF Later, Request
<1>4. IsPrefix(mem.ledger, e.ledger)
    BY <1>1, Fields, PrefixRules DEF RecordsOnly
<1>5. mem' = e
    BY DEF Update
<1>6. RequestsOK'
  <2>1. \A t \in Tasks : req[t].pc = "new" => req[t].user \in Users /\ e.users[req[t].user].exists
    BY DEF IndInv, RequestsOK, RecordsOnly
  <2> QED BY <1>5, <2>1 DEF IndInv, RequestsOK, RecordsOnly
<1>7. HeldBalanceIsServed'
    BY <1>5 DEF IndInv, HeldBalanceIsServed, RecordsOnly
<1> QED BY <1>1, <1>2, <1>3, <1>4, <1>6, <1>7, UpdateGood

\* The same when nothing new is acknowledged.
LEMMA RecordsStepSameAcks ==
    ASSUME IndInv, NEW e \in Database, NEW ok \in BOOLEAN, Update(e, ok), RecordsOnly(mem, e),
           UNCHANGED <<alive, req, live, acked, stranded>>, edits' \in 0..MaxEdits
    PROVE  Good
<1>1. mem \in Database /\ acked \subseteq Adjustments \cup Keys
    BY DEF IndInv, TypeOK
<1>2. IsPrefix(mem.ledger, e.ledger)
    BY <1>1, Fields, PrefixRules DEF RecordsOnly
<1>3. AckedIn(e, acked)
    BY <1>1, <1>2, AckedGrows DEF IndInv, RecordsOnly
<1> QED BY <1>1, <1>3, RecordsStep

\* createUser.
LEMMA CreateUserGood ==
    ASSUME IndInv, NEW u \in Users, CreateUser(u) PROVE Good
<1> DEFINE e == [mem EXCEPT !.users[u].exists = TRUE]
<1>1. mem \in Database /\ edits \in 0..MaxEdits
    BY DEF IndInv, TypeOK
<1>2. mem.users \in [Users -> UserRecord]
    BY <1>1, Fields
<1>3. e.users \in [Users -> UserRecord]
  <2>1. e.users = [mem.users EXCEPT ![u].exists = TRUE]
    BY <1>1, Fields
  <2>2. [mem.users[u] EXCEPT !.exists = TRUE] \in UserRecord
    BY <1>2 DEF UserRecord
  <2> QED BY <1>2, <2>1, <2>2
<1>4. e \in Database
    BY <1>1, <1>3, Fields DEF Database
<1>5. RecordsOnly(mem, e)
    BY <1>1, <1>2, Fields DEF RecordsOnly, UserRecord
<1>6. PICK ok \in BOOLEAN : Update(e, ok)
    BY DEF CreateUser, Edit
<1>7. UNCHANGED <<alive, req, live, acked, stranded>> /\ edits' \in 0..MaxEdits
    BY <1>1, LedgerConstants DEF CreateUser, Edit
<1> QED BY <1>4, <1>5, <1>6, <1>7, RecordsStepSameAcks

\* updateUser.
LEMMA UpdateUserGood ==
    ASSUME IndInv, NEW u \in Users, NEW b \in BOOLEAN, UpdateUser(u, b) PROVE Good
<1> DEFINE e == [mem EXCEPT !.users[u].disabled = b]
<1>1. mem \in Database /\ edits \in 0..MaxEdits
    BY DEF IndInv, TypeOK
<1>2. mem.users \in [Users -> UserRecord]
    BY <1>1, Fields
<1>3. e.users \in [Users -> UserRecord]
    BY <1>1, <1>2, Fields DEF UserRecord
<1>4. e \in Database
    BY <1>1, <1>3, Fields DEF Database
<1>5. RecordsOnly(mem, e)
    BY <1>1, <1>2, Fields DEF RecordsOnly, UserRecord
<1>6. PICK ok \in BOOLEAN : Update(e, ok)
    BY DEF UpdateUser, Edit
<1>7. UNCHANGED <<alive, req, live, acked, stranded>> /\ edits' \in 0..MaxEdits
    BY <1>1, LedgerConstants DEF UpdateUser, Edit
<1> QED BY <1>4, <1>5, <1>6, <1>7, RecordsStepSameAcks

\* upsertAdminNode and upsertWorkerState: the owner.
LEMMA OwnerGood ==
    ASSUME IndInv, NEW u \in Users \cup {NoUser}, NEW ok \in BOOLEAN,
           Update([mem EXCEPT !.owner = u], ok),
           UNCHANGED <<alive, req, live, acked, stranded>>, edits' \in 0..MaxEdits
    PROVE  Good
<1> DEFINE e == [mem EXCEPT !.owner = u]
<1>1. mem \in Database
    BY DEF IndInv, TypeOK
<1>2. e \in Database /\ RecordsOnly(mem, e)
    BY <1>1, Fields DEF Database, RecordsOnly
<1> QED BY <1>2, RecordsStepSameAcks

\* setProfileComputeCost: a negative cost is refused.
LEMMA SetProfileComputeCostGood ==
    ASSUME IndInv, NEW c \in Costs, SetProfileComputeCost(c) PROVE Good
<1> DEFINE e == [mem EXCEPT !.cost = c]
<1>1. mem \in Database /\ edits \in 0..MaxEdits
    BY DEF IndInv, TypeOK
<1>2. c \in Nat
    BY LedgerConstants DEF SetProfileComputeCost
<1>3. e \in Database /\ RecordsOnly(mem, e)
    BY <1>1, <1>2, Fields DEF Database, RecordsOnly
<1>4. PICK ok \in BOOLEAN : Update(e, ok)
    BY DEF SetProfileComputeCost, Edit
<1>5. UNCHANGED <<alive, req, live, acked, stranded>> /\ edits' \in 0..MaxEdits
    BY <1>1, LedgerConstants DEF SetProfileComputeCost, Edit
<1> QED BY <1>3, <1>4, <1>5, RecordsStepSameAcks

\* Issuing a key touches none that was revoked; revoking one is acknowledged
\* once the save has succeeded.
LEMMA KeyEdit ==
    ASSUME NEW d \in Database, NEW k \in Keys, NEW x \in {"active", "revoked"},
           x = "active" => d.keys[k] = "none"
    PROVE  /\ [d EXCEPT !.keys[k] = x] \in Database /\ RecordsOnly(d, [d EXCEPT !.keys[k] = x])
           /\ [d EXCEPT !.keys[k] = x].keys[k] = x
<1>1. [d.keys EXCEPT ![k] = x] \in [Keys -> {"none", "active", "revoked"}]
    BY Fields
<1>2. [d EXCEPT !.keys[k] = x] \in Database
    BY <1>1, Fields DEF Database
<1> QED BY <1>2, Fields DEF RecordsOnly

LEMMA IssueAPIKeyGood ==
    ASSUME IndInv, NEW k \in Keys, IssueAPIKey(k) PROVE Good
<1> DEFINE e == [mem EXCEPT !.keys[k] = "active"]
<1>1. mem \in Database /\ edits \in 0..MaxEdits
    BY DEF IndInv, TypeOK
<1>2. e \in Database /\ RecordsOnly(mem, e)
    BY <1>1, KeyEdit DEF IssueAPIKey
<1>3. PICK ok \in BOOLEAN : Update(e, ok)
    BY DEF IssueAPIKey, Edit
<1>4. UNCHANGED <<alive, req, live, acked, stranded>> /\ edits' \in 0..MaxEdits
    BY <1>1, LedgerConstants DEF IssueAPIKey, Edit
<1> QED BY <1>2, <1>3, <1>4, RecordsStepSameAcks

LEMMA RevokeAPIKeyGood ==
    ASSUME IndInv, NEW k \in Keys, RevokeAPIKey(k) PROVE Good
<1> DEFINE e == [mem EXCEPT !.keys[k] = "revoked"]
<1>1. mem \in Database /\ edits \in 0..MaxEdits /\ acked \subseteq Adjustments \cup Keys
    BY DEF IndInv, TypeOK
<1>2. e \in Database /\ RecordsOnly(mem, e) /\ e.keys[k] = "revoked"
    BY <1>1, KeyEdit
<1>3. PICK ok \in BOOLEAN : /\ Update(e, ok)
                            /\ acked' = IF ok THEN acked \cup {k} ELSE acked
    BY DEF RevokeAPIKey
<1>4. UNCHANGED <<alive, req, live, stranded>> /\ edits' \in 0..MaxEdits
    BY <1>1, LedgerConstants DEF RevokeAPIKey
<1>5. acked' \subseteq Adjustments \cup Keys /\ (acked' = acked \/ ok)
    BY <1>1, <1>3
<1>6. AckedIn(e, acked)
  <2>1. IsPrefix(mem.ledger, e.ledger)
    BY <1>1, <1>2, Fields, PrefixRules DEF RecordsOnly
  <2> HIDE DEF e
  <2> QED BY <1>1, <1>2, <2>1, AckedGrows DEF IndInv, RecordsOnly
<1>7. AckedIn(e, acked')
  <2> HIDE DEF e
  <2> QED BY <1>2, <1>3, <1>6 DEF AckedIn
<1> QED BY <1>2, <1>3, <1>4, <1>5, <1>7, RecordsStep

-----------------------------------------------------------------------------
(* The ledger *)

\* appendLedgerEntry, field by field.
LEMMA AppendFields ==
    ASSUME NEW d \in Database, NEW e \in LedgerEntry
    PROVE  LET f == AppendLedgerEntry(d, e)
           IN  /\ f \in Database
               /\ f.ledger = Append(d.ledger, e)
               /\ f.tasks = d.tasks /\ f.attempts = d.attempts /\ f.reports = d.reports
               /\ f.keys = d.keys /\ f.owner = d.owner /\ f.cost = d.cost
               /\ \A u \in Users : /\ f.users[u].balance = d.users[u].balance + Worth(e, u)
                                   /\ f.users[u].exists = d.users[u].exists
<1> DEFINE sign == IF e.direction = "debit" THEN -1 ELSE 1
           w == sign * e.amount
           f == AppendLedgerEntry(d, e)
<1>1. e.user \in Users /\ e.amount \in Nat
    BY DEF LedgerEntry
<1>2. w \in Int /\ w = Worth(e, e.user)
    BY <1>1 DEF Worth
<1>3. d.users \in [Users -> UserRecord] /\ d.ledger \in Seq(LedgerEntry)
    BY Fields
<1>4. f = [d EXCEPT !.ledger = Append(d.ledger, e), !.users[e.user].balance = @ + w]
    BY DEF AppendLedgerEntry
<1> HIDE DEF w, f
<1>5. f.users = [d.users EXCEPT ![e.user].balance = @ + w]
    BY <1>4, Fields
<1>6. f.users \in [Users -> UserRecord]
  <2>1. [d.users[e.user] EXCEPT !.balance = @ + w] \in UserRecord
    BY <1>1, <1>2, <1>3 DEF UserRecord
  <2> QED BY <1>3, <1>5, <2>1
<1>7. Append(d.ledger, e) \in Seq(LedgerEntry)
    BY <1>3
<1>8. /\ f.ledger = Append(d.ledger, e)
      /\ f.tasks = d.tasks /\ f.attempts = d.attempts /\ f.reports = d.reports
      /\ f.keys = d.keys /\ f.owner = d.owner /\ f.cost = d.cost
    BY <1>4, Fields
<1>9. f \in Database
  <2>1. f = [d EXCEPT !.ledger = Append(d.ledger, e),
                     !.users = [d.users EXCEPT ![e.user].balance = @ + w]]
    BY <1>4
  <2>2. [d.users EXCEPT ![e.user].balance = @ + w] \in [Users -> UserRecord]
    BY <1>5, <1>6
  <2> QED BY <1>7, <2>1, <2>2 DEF Database
<1>10. ASSUME NEW u \in Users
       PROVE  /\ f.users[u].balance = d.users[u].balance + Worth(e, u)
              /\ f.users[u].exists = d.users[u].exists
  <2>1. d.users[u] \in UserRecord
    BY <1>3
  <2>2. CASE u = e.user
    BY <1>2, <1>3, <1>5, <2>1, <2>2 DEF UserRecord
  <2>3. CASE u # e.user
    <3>1. Worth(e, u) = 0
      BY <2>3 DEF Worth
    <3>2. f.users[u] = d.users[u]
      BY <1>3, <1>5, <2>3
    <3> QED BY <2>1, <3>1, <3>2 DEF UserRecord
  <2> QED BY <2>2, <2>3
<1> QED BY <1>8, <1>9, <1>10 DEF f

\* The balances agree with the ledger after it.
LEMMA AppendBalances ==
    ASSUME NEW d \in Database, NEW e \in LedgerEntry, BalancesOK(d)
    PROVE  BalancesOK(AppendLedgerEntry(d, e))
<1>1. ASSUME NEW u \in Users
      PROVE  AppendLedgerEntry(d, e).users[u].balance = LedgerSum(AppendLedgerEntry(d, e).ledger, u)
  <2>1. /\ AppendLedgerEntry(d, e).ledger = Append(d.ledger, e)
        /\ AppendLedgerEntry(d, e).users[u].balance = d.users[u].balance + Worth(e, u)
    BY AppendFields
  <2>2. LedgerSum(Append(d.ledger, e), u) = LedgerSum(d.ledger, u) + Worth(e, u)
    BY Fields, LedgerSumAppend
  <2> QED BY <2>1, <2>2 DEF BalancesOK
<1> QED BY <1>1 DEF BalancesOK

\* adminAdjustmentEntry.
AdjustmentEntry(i) ==
    [type |-> "admin_adjustment", user |-> i.user, request |-> i,
     amount |-> IF i.amount < 0 THEN -i.amount ELSE i.amount,
     direction |-> IF i.amount < 0 THEN "debit" ELSE "credit"]

LEMMA AdjustmentEntryType ==
    ASSUME NEW i \in Adjustments
    PROVE  AdjustmentEntry(i) \in LedgerEntry
<1>1. i.user \in Users /\ i.amount \in Int
    BY LedgerConstants
<1>2. (IF i.amount < 0 THEN -i.amount ELSE i.amount) \in Nat
    BY <1>1
<1> QED BY <1>1, <1>2 DEF AdjustmentEntry, LedgerEntry

\* The entries of a ledger that has one more.
LEMMA AppendEntries ==
    ASSUME NEW l \in Seq(LedgerEntry), NEW e \in LedgerEntry
    PROVE  LET m == Append(l, e) IN
           /\ Len(l) \in Nat /\ DOMAIN l = 1..Len(l) /\ DOMAIN m = 1..(Len(l) + 1)
           /\ m[Len(l) + 1] = e /\ \A i \in DOMAIN l : m[i] = l[i]
           /\ \A i \in DOMAIN m : i \in DOMAIN l \/ i = Len(l) + 1
           /\ \A i \in DOMAIN l : i \in DOMAIN m
OBVIOUS

\* An entry that is no charge leaves the charges as they were.
LEMMA AppendAdjustmentCharges ==
    ASSUME NEW d \in Database, ChargesOK(d), NEW e \in LedgerEntry, ~IsCharge(e)
    PROVE  ChargesOK(AppendLedgerEntry(d, e))
<1> DEFINE f == AppendLedgerEntry(d, e)
           n == Len(d.ledger) + 1
<1>1. /\ f.ledger = Append(d.ledger, e)
      /\ f.tasks = d.tasks /\ f.attempts = d.attempts /\ f.reports = d.reports
    BY AppendFields
<1>2. /\ f.ledger[n] = e /\ \A i \in DOMAIN d.ledger : f.ledger[i] = d.ledger[i]
      /\ \A i \in DOMAIN f.ledger : i \in DOMAIN d.ledger \/ i = n
      /\ \A i \in DOMAIN d.ledger : i \in DOMAIN f.ledger
    BY <1>1, Fields, AppendEntries
<1> HIDE DEF f, n
<1>3. \A i \in DOMAIN f.ledger : EntryOK(f, f.ledger[i])
    BY <1>1, <1>2 DEF ChargesOK, EntryOK
<1>4. \A i, j \in DOMAIN f.ledger : SameCharge(f.ledger[i], f.ledger[j]) => i = j
    BY <1>2 DEF ChargesOK, SameCharge, IsCharge
<1>5. \A a \in Attempts : Debited(f, a)
    BY <1>1, <1>2 DEF ChargesOK, Debited
<1> QED BY <1>3, <1>4, <1>5 DEF ChargesOK, f

\* storeAdminAdjustment.
LEMMA AdjustGood ==
    ASSUME IndInv, NEW i \in Adjustments, Adjust(i) PROVE Good
<1> DEFINE e == AdjustmentEntry(i)
           f == AppendLedgerEntry(mem, e)
<1>1. /\ mem \in Database /\ edits \in 0..MaxEdits /\ acked \subseteq Adjustments \cup Keys
      /\ req \in [Tasks -> Request] /\ live \subseteq Attempts /\ stranded \subseteq Tasks
    BY DEF IndInv, TypeOK
<1>2. e \in LedgerEntry
    BY AdjustmentEntryType
<1>3. PICK ok \in BOOLEAN : Update(f, ok) /\ acked' = IF ok THEN acked \cup {i} ELSE acked
    BY DEF Adjust, AdjustmentEntry
<1>4. UNCHANGED <<alive, req, live, stranded>> /\ edits' \in 0..MaxEdits
    BY <1>1, LedgerConstants DEF Adjust
<1>5. e.type = "admin_adjustment" /\ e.request = i
    BY DEF AdjustmentEntry
<1> HIDE DEF e
<1>6. /\ f \in Database /\ f.ledger = Append(mem.ledger, e)
      /\ f.tasks = mem.tasks /\ f.attempts = mem.attempts /\ f.reports = mem.reports
      /\ f.keys = mem.keys
      /\ \A u \in Users : f.users[u].exists = mem.users[u].exists
    BY <1>1, <1>2, AppendFields
<1>7. ChargesOK(f) /\ BalancesOK(f)
    BY <1>1, <1>2, <1>5, AppendAdjustmentCharges, AppendBalances DEF IndInv, DbOK, IsCharge
<1> HIDE DEF f
<1>8. DbOK(f, req')
  <2>1. TasksOK(f, req) /\ AttemptsOK(f, req)
    BY <1>6 DEF IndInv, DbOK, TasksOK, AttemptsOK
  <2> QED BY <1>4, <1>6, <1>7, <2>1 DEF DbOK
<1>9. IsPrefix(mem.ledger, f.ledger)
    BY <1>1, <1>2, <1>6, Fields, PrefixRules
<1>10. AckedIn(f, acked)
    BY <1>1, <1>6, <1>9, AckedGrows DEF IndInv
<1>11. AdjustmentIn(f, i)
  <2>1. Len(mem.ledger) + 1 \in DOMAIN f.ledger /\ f.ledger[Len(mem.ledger) + 1] = e
    BY <1>1, <1>2, <1>6, Fields, AppendEntries
  <2> QED BY <1>5, <2>1 DEF AdjustmentIn
<1>12. AckedIn(f, acked')
    BY <1>3, <1>10, <1>11, LedgerConstants DEF AckedIn
<1>13. acked' \subseteq Adjustments \cup Keys /\ (acked' = acked \/ ok)
    BY <1>1, <1>3
<1>14. Later(req, req')
    BY <1>1, <1>4, LedgerConstants DEF Later, Request
<1>15. mem' = f
    BY <1>3 DEF Update
<1>16. RequestsOK' /\ HeldBalanceIsServed'
    BY <1>4, <1>6, <1>15 DEF IndInv, RequestsOK, HeldBalanceIsServed
<1> QED BY <1>1, <1>3, <1>4, <1>8, <1>9, <1>12, <1>13, <1>14, <1>16, UpdateGood

-----------------------------------------------------------------------------
(* Requests *)

\* e is d but for what state its tasks and attempts are in.
StatusOnly(d, e) ==
    /\ e.users = d.users /\ e.keys = d.keys /\ e.reports = d.reports /\ e.ledger = d.ledger
    /\ \A t \in Tasks : /\ e.tasks[t].user = d.tasks[t].user /\ e.tasks[t].cost = d.tasks[t].cost
                        /\ e.tasks[t].status = "none" <=> d.tasks[t].status = "none"
    /\ \A a \in Attempts : /\ e.attempts[a].cost = d.attempts[a].cost
                           /\ e.attempts[a].status = "none" <=> d.attempts[a].status = "none"

\* Such a change leaves a database in order.
LEMMA StatusKeeps ==
    ASSUME NEW d, NEW e \in Database, NEW r, DbOK(d, r), StatusOnly(d, e)
    PROVE  DbOK(e, r)
<1>0. \A a \in Attempts : TaskOf(a) \in Tasks
    BY DEF Attempts, TaskOf
<1>1. TasksOK(e, r)
    BY DEF DbOK, StatusOnly, TasksOK
<1>2. AttemptsOK(e, r)
    BY <1>0 DEF DbOK, StatusOnly, AttemptsOK
<1>3. \A a \in Attempts : Debited(e, a)
    BY DEF DbOK, StatusOnly, ChargesOK, Debited
<1>4. ASSUME NEW i \in DOMAIN e.ledger PROVE EntryOK(e, e.ledger[i])
  <2>1. EntryOK(d, d.ledger[i]) /\ e.ledger[i] = d.ledger[i]
    BY DEF DbOK, StatusOnly, ChargesOK
  <2>2. IsCharge(e.ledger[i]) => e.ledger[i].report \in Attempts
    <3>1. e.ledger[i] \in LedgerEntry
      BY Fields
    <3> QED BY <3>1 DEF IsCharge, LedgerEntry
  <2> QED BY <1>0, <2>1, <2>2 DEF EntryOK, StatusOnly
<1>5. ChargesOK(e)
    BY <1>3, <1>4 DEF DbOK, StatusOnly, ChargesOK
<1>6. BalancesOK(e)
    BY DEF DbOK, StatusOnly, BalancesOK
<1> QED BY <1>1, <1>2, <1>5, <1>6 DEF DbOK

\* A step of a request that only changes states.
LEMMA StatusStep ==
    ASSUME IndInv, NEW e \in Database, NEW ok \in BOOLEAN, Update(e, ok), StatusOnly(mem, e),
           Later(req, req'), req' \in [Tasks -> Request], RequestsOK', HeldBalanceIsServed',
           stranded' \subseteq Tasks, UNCHANGED <<alive, live, acked, edits>>
    PROVE  Good
<1>1. /\ mem \in Database /\ edits \in 0..MaxEdits /\ acked \subseteq Adjustments \cup Keys
      /\ req \in [Tasks -> Request] /\ live \subseteq Attempts
    BY DEF IndInv, TypeOK
<1>2. DbOK(e, req)
    BY StatusKeeps DEF IndInv
<1>3. DbOK(e, req')
    BY <1>1, <1>2, LaterKeeps
<1>4. IsPrefix(mem.ledger, e.ledger)
    BY <1>1, Fields, PrefixRules DEF StatusOnly
<1>5. AckedIn(e, acked')
    BY <1>1, <1>4, AckedGrows DEF IndInv, StatusOnly
<1> QED BY <1>1, <1>3, <1>4, <1>5, UpdateGood

\* The tasks and attempts of a database may be in any state of their types.
LEMMA WithTasks ==
    ASSUME NEW d \in Database, NEW ts \in [Tasks -> TaskRecord], NEW as \in [Attempts -> AttemptRecord]
    PROVE  /\ [d EXCEPT !.tasks = ts, !.attempts = as] \in Database
           /\ [d EXCEPT !.tasks = ts] \in Database
BY DEF Database

\* Another state for one task.
LEMMA TaskState ==
    ASSUME NEW d \in Database, NEW t \in Tasks, NEW s \in TaskStatus \ {"none"},
           d.tasks[t].status # "none"
    PROVE  LET e == [d EXCEPT !.tasks[t].status = s]
           IN  /\ e \in Database /\ StatusOnly(d, e) /\ e.attempts = d.attempts
               /\ e.tasks[t].status = s
               /\ \A x \in Tasks : x # t => e.tasks[x] = d.tasks[x]
<1> DEFINE ts == [d.tasks EXCEPT ![t].status = s]
           e == [d EXCEPT !.tasks = ts]
<1>1. d.tasks \in [Tasks -> TaskRecord] /\ d.attempts \in [Attempts -> AttemptRecord]
    BY Fields
<1>2. ts \in [Tasks -> TaskRecord]
  <2>1. [d.tasks[t] EXCEPT !.status = s] \in TaskRecord
    BY <1>1 DEF TaskRecord
  <2> QED BY <1>1, <2>1
<1>3. e \in Database
    BY <1>2, WithTasks, <1>1
<1>4. e.tasks = ts /\ e.users = d.users /\ e.keys = d.keys /\ e.reports = d.reports
      /\ e.ledger = d.ledger /\ e.attempts = d.attempts
    BY Fields
<1>5. ts[t].status = s /\ ts[t].user = d.tasks[t].user /\ ts[t].cost = d.tasks[t].cost
    BY <1>1 DEF TaskRecord
<1>6. \A x \in Tasks : x # t => ts[x] = d.tasks[x]
    BY <1>1
<1> HIDE DEF ts
<1>7. StatusOnly(d, e)
    BY <1>4, <1>5, <1>6 DEF StatusOnly
<1> QED BY <1>3, <1>4, <1>5, <1>6, <1>7 DEF ts

\* d with another state for an attempt and its task.
WithStates(d, a, s, b) == [d EXCEPT !.tasks[TaskOf(a)].status = s, !.attempts[a].status = b]

\* It is a database that differs in states alone.
LEMMA AttemptState ==
    ASSUME NEW d \in Database, NEW a \in Attempts, NEW s \in TaskStatus \ {"none"},
           NEW b \in TaskStatus \ {"none"}, d.tasks[TaskOf(a)].status # "none",
           d.attempts[a].status # "none"
    PROVE  /\ WithStates(d, a, s, b) \in Database /\ StatusOnly(d, WithStates(d, a, s, b))
           /\ WithStates(d, a, s, b).tasks[TaskOf(a)].status = s
           /\ \A x \in Tasks : x # TaskOf(a) => WithStates(d, a, s, b).tasks[x] = d.tasks[x]
<1> DEFINE t == TaskOf(a)
           ts == [d.tasks EXCEPT ![t].status = s]
           as == [d.attempts EXCEPT ![a].status = b]
           e == [d EXCEPT !.tasks = ts, !.attempts = as]
<1>0. t \in Tasks
    BY DEF Attempts, TaskOf
<1>1. d.tasks \in [Tasks -> TaskRecord] /\ d.attempts \in [Attempts -> AttemptRecord]
    BY Fields
<1> HIDE DEF t
<1>2. ts \in [Tasks -> TaskRecord]
  <2>1. [d.tasks[t] EXCEPT !.status = s] \in TaskRecord
    BY <1>0, <1>1 DEF TaskRecord
  <2> QED BY <1>1, <2>1
<1>3. as \in [Attempts -> AttemptRecord]
  <2>1. [d.attempts[a] EXCEPT !.status = b] \in AttemptRecord
    BY <1>1 DEF AttemptRecord
  <2> QED BY <1>1, <2>1
<1>4. e \in Database
    BY <1>2, <1>3, WithTasks
<1>5. e.tasks = ts /\ e.users = d.users /\ e.keys = d.keys /\ e.reports = d.reports
      /\ e.ledger = d.ledger /\ e.attempts = as
    BY Fields
<1>6. ts[t].status = s /\ ts[t].user = d.tasks[t].user /\ ts[t].cost = d.tasks[t].cost
    BY <1>0, <1>1 DEF TaskRecord
<1>7. \A x \in Tasks : x # t => ts[x] = d.tasks[x]
    BY <1>1
<1>8. as[a].status = b /\ as[a].cost = d.attempts[a].cost
    BY <1>1 DEF AttemptRecord
<1>9. \A x \in Attempts : x # a => as[x] = d.attempts[x]
    BY <1>1
<1> HIDE DEF ts, as
<1>10. StatusOnly(d, e)
    BY <1>5, <1>6, <1>7, <1>8, <1>9 DEF StatusOnly, t
<1>11. e = WithStates(d, a, s, b)
    BY DEF ts, as, t, WithStates
<1>12. /\ e \in Database /\ StatusOnly(d, e) /\ e.tasks[TaskOf(a)].status = s
       /\ \A x \in Tasks : x # TaskOf(a) => e.tasks[x] = d.tasks[x]
    BY <1>4, <1>5, <1>6, <1>7, <1>10 DEF t
<1> HIDE DEF e
<1> QED BY <1>11, <1>12

\* A request that moves on: its user, its cost and its attempts stay.
Moved(t, pc) == [req EXCEPT ![t].pc = pc]

LEMMA MoveOn ==
    ASSUME req \in [Tasks -> Request], NEW t \in Tasks, NEW pc \in {"start", "dispatch", "wait", "done"}
    PROVE  /\ Moved(t, pc) \in [Tasks -> Request] /\ Later(req, Moved(t, pc))
           /\ Moved(t, pc)[t].pc = pc /\ Moved(t, pc)[t].user = req[t].user
           /\ Moved(t, pc)[t].n = req[t].n /\ Moved(t, pc)[t].cost = req[t].cost
           /\ \A x \in Tasks : x # t => Moved(t, pc)[x] = req[x]
<1> DEFINE r == [req EXCEPT ![t].pc = pc]
<1>1. [req[t] EXCEPT !.pc = pc] \in Request
    BY DEF Request
<1>2. r \in [Tasks -> Request]
    BY <1>1
<1>3. /\ r[t].pc = pc /\ r[t].user = req[t].user /\ r[t].n = req[t].n /\ r[t].cost = req[t].cost
      /\ \A x \in Tasks : x # t => r[x] = req[x]
    BY DEF Request
<1>4. \A x \in Tasks : req[x].n \in Nat
    BY LedgerConstants DEF Request
<1> HIDE DEF r
<1>5. Later(req, r)
    BY <1>3, <1>4 DEF Later
<1>6. Moved(t, pc) = r
    BY DEF Moved, r
<1> QED BY <1>2, <1>3, <1>5, <1>6

\* What RequestsOK and HeldBalanceIsServed need after a step that changes states
\* and the request of t: they hold for t, and users, other tasks and other
\* requests are as before.
LEMMA OthersKeep ==
    ASSUME IndInv, NEW t \in Tasks, alive, alive', mem \in Database, mem' \in Database,
           \A x \in Tasks : x # t => mem'.tasks[x] = mem.tasks[x] /\ req'[x] = req[x],
           \A u \in Users : mem.users[u].exists => mem'.users[u].exists,
           \A a \in Attempts : mem.attempts[a].status # "none" => mem'.attempts[a].status # "none",
           stranded \subseteq stranded',
           req'[t].pc = "new" => req'[t].user \in Users /\ mem'.users[req'[t].user].exists,
           req'[t].pc \in {"start", "dispatch", "wait"} => mem'.tasks[t].status # "none",
           req'[t].pc = "dispatch" =>
              <<t, req'[t].n>> \in Attempts /\ mem'.attempts[<<t, req'[t].n>>].status # "none",
           mem'.tasks[t].status \in Pending => req'[t].pc # "done" \/ t \in stranded'
    PROVE  RequestsOK' /\ HeldBalanceIsServed'
<1>1. ASSUME NEW x \in Tasks, x # t
      PROVE  /\ req'[x].pc = "new" => req'[x].user \in Users /\ mem'.users[req'[x].user].exists
             /\ req'[x].pc \in {"start", "dispatch", "wait"} => mem'.tasks[x].status # "none"
             /\ req'[x].pc = "dispatch" =>
                  <<x, req'[x].n>> \in Attempts /\ mem'.attempts[<<x, req'[x].n>>].status # "none"
    BY <1>1 DEF IndInv, RequestsOK
<1>2. RequestsOK'
    BY <1>1 DEF RequestsOK
<1>3. HeldBalanceIsServed'
    BY DEF IndInv, HeldBalanceIsServed
<1> QED BY <1>2, <1>3

\* startAttempt at its deadline.
LEMMA NoCapacityGood ==
    ASSUME IndInv, NEW t \in Tasks, NoCapacity(t), UNCHANGED edits PROVE Good
<1> DEFINE s == IF mem.tasks[t].status \in Terminal THEN mem.tasks[t].status ELSE "failed"
           e == [mem EXCEPT !.tasks[t].status = s]
<1>1. mem \in Database /\ req \in [Tasks -> Request] /\ stranded \subseteq Tasks
    BY DEF IndInv, TypeOK
<1>2. PICK ok \in BOOLEAN : Update(e, ok)
    BY DEF NoCapacity, FailTask
<1>3. s \in TaskStatus \ {"none"} /\ s \notin Pending
    BY DEF Terminal, TaskStatus, Pending
<1>4. mem.tasks[t].status # "none"
    BY DEF NoCapacity, IndInv, RequestsOK
<1> HIDE DEF s
<1>5. /\ e \in Database /\ StatusOnly(mem, e) /\ e.tasks[t].status = s /\ e.attempts = mem.attempts
      /\ \A x \in Tasks : x # t => e.tasks[x] = mem.tasks[x]
    BY <1>1, <1>3, <1>4, TaskState
<1>6. /\ req' \in [Tasks -> Request] /\ Later(req, req') /\ req'[t].pc = "done"
      /\ \A x \in Tasks : x # t => req'[x] = req[x]
    BY <1>1, MoveOn DEF NoCapacity, Done, Moved
<1>7. UNCHANGED <<alive, live, acked, stranded>> /\ alive
    BY DEF NoCapacity
<1>8. mem' = e
    BY <1>2 DEF Update
<1> HIDE DEF e
<1>9. RequestsOK' /\ HeldBalanceIsServed'
    BY <1>1, <1>3, <1>5, <1>6, <1>7, <1>8, OthersKeep DEF StatusOnly
<1> QED BY <1>1, <1>2, <1>5, <1>6, <1>7, <1>9, StatusStep

\* cancelTask.
LEMMA CancelTaskGood ==
    ASSUME IndInv, NEW t \in Tasks, NEW gone \in BOOLEAN, CancelTask(t, gone), UNCHANGED edits
    PROVE  Good
<1> DEFINE s == IF mem.tasks[t].status \in Terminal THEN mem.tasks[t].status ELSE "cancelled"
           e == [mem EXCEPT !.tasks[t].status = s]
<1>1. mem \in Database /\ req \in [Tasks -> Request] /\ stranded \subseteq Tasks
    BY DEF IndInv, TypeOK
<1>2. PICK ok \in BOOLEAN : Update(e, ok)
    BY DEF CancelTask
<1>3. s \in TaskStatus \ {"none"} /\ s \notin Pending
    BY DEF Terminal, TaskStatus, Pending
<1>4. mem.tasks[t].status # "none"
    BY DEF CancelTask, IndInv, RequestsOK
<1> HIDE DEF s
<1>5. /\ e \in Database /\ StatusOnly(mem, e) /\ e.tasks[t].status = s /\ e.attempts = mem.attempts
      /\ \A x \in Tasks : x # t => e.tasks[x] = mem.tasks[x]
    BY <1>1, <1>3, <1>4, TaskState
<1>6. UNCHANGED <<alive, live, acked, stranded>> /\ alive /\ req' \in {req, Done(t)}
    BY DEF CancelTask
<1>7. /\ req' \in [Tasks -> Request] /\ Later(req, req') /\ req'[t].pc \in {"done", req[t].pc}
      /\ req'[t].n = req[t].n /\ req'[t].user = req[t].user
      /\ \A x \in Tasks : x # t => req'[x] = req[x]
  <2>1. CASE req' = Done(t)
    BY <1>1, <2>1, MoveOn DEF Done, Moved
  <2>2. CASE req' = req
    BY <1>1, <2>2, LedgerConstants DEF Later, Request
  <2> QED BY <1>6, <2>1, <2>2
<1>8. mem' = e
    BY <1>2 DEF Update
<1> HIDE DEF e
<1>9. e.users = mem.users
    BY <1>5 DEF StatusOnly
<1>10. /\ req[t].pc = "new" => req[t].user \in Users /\ mem.users[req[t].user].exists
       /\ req[t].pc = "dispatch" =>
              <<t, req[t].n>> \in Attempts /\ mem.attempts[<<t, req[t].n>>].status # "none"
    BY DEF IndInv, RequestsOK
<1>11. e.tasks[t].status # "none" /\ e.tasks[t].status \notin Pending
    BY <1>3, <1>5
<1>12. RequestsOK' /\ HeldBalanceIsServed'
    BY <1>1, <1>5, <1>6, <1>7, <1>8, <1>9, <1>10, <1>11, OthersKeep
<1> QED BY <1>1, <1>2, <1>5, <1>6, <1>7, <1>12, StatusStep

\* A step that leaves the store alone.
LEMMA NoUpdateGood ==
    ASSUME IndInv, UNCHANGED <<mem, disk, alive, acked, count, edits>>, Later(req, req'),
           req' \in [Tasks -> Request], live' \subseteq Attempts, stranded' = stranded,
           RequestsOK', HeldBalanceIsServed'
    PROVE  Good
<1>1. req \in [Tasks -> Request] /\ disk \in Database
    BY DEF IndInv, TypeOK
<1>2. DbOK(mem, req') /\ DbOK(disk, req')
    BY <1>1, LaterKeeps DEF IndInv
<1>3. DbOK(mem, req)' /\ DbOK(disk, req)'
    BY <1>2 DEF DbOK, TasksOK, AttemptsOK, ChargesOK, BalancesOK, EntryOK, Debited
<1>4. TypeOK' /\ StrandedOK'
    BY DEF IndInv, TypeOK, StrandedOK
<1>5. AckedIn(mem, acked)' /\ AckedIn(disk, acked)'
    BY DEF IndInv, AckedIn, AdjustmentIn
<1>6. IsPrefix(disk'.ledger, mem'.ledger) /\ IsPrefix(disk.ledger, disk'.ledger)
    BY <1>1, Fields, PrefixRules DEF IndInv
<1> QED BY <1>3, <1>4, <1>5, <1>6 DEF Good, IndInv

\* startAttempt finds the task cancelled.
LEMMA StartCancelledGood ==
    ASSUME IndInv, NEW t \in Tasks, StartCancelled(t), UNCHANGED edits PROVE Good
<1>1. req \in [Tasks -> Request] /\ mem \in Database /\ live \subseteq Attempts
    BY DEF IndInv, TypeOK
<1>2. /\ req' \in [Tasks -> Request] /\ Later(req, req') /\ req'[t].pc = "done"
      /\ \A x \in Tasks : x # t => req'[x] = req[x]
    BY <1>1, MoveOn DEF StartCancelled, Done, Moved
<1>3. UNCHANGED <<mem, disk, alive, acked, count, live, stranded>> /\ alive
      /\ mem.tasks[t].status \notin Pending
    BY DEF StartCancelled, Pending
<1>4. RequestsOK' /\ HeldBalanceIsServed'
    BY <1>1, <1>2, <1>3, OthersKeep
<1> QED BY <1>1, <1>2, <1>3, <1>4, NoUpdateGood

\* dispatchAttempt.
LEMMA DispatchGood ==
    ASSUME IndInv, NEW t \in Tasks, Dispatch(t), UNCHANGED edits PROVE Good
<1>1. req \in [Tasks -> Request] /\ mem \in Database /\ live \subseteq Attempts
    BY DEF IndInv, TypeOK
<1>2. /\ req' \in [Tasks -> Request] /\ Later(req, req') /\ req'[t].pc = "wait"
      /\ \A x \in Tasks : x # t => req'[x] = req[x]
    BY <1>1, MoveOn DEF Dispatch, Moved
<1>3. UNCHANGED <<mem, disk, alive, acked, stranded, count>> /\ alive
    BY DEF Dispatch
<1>4. <<t, req[t].n>> \in Attempts /\ mem.tasks[t].status # "none"
    BY DEF Dispatch, IndInv, RequestsOK
<1>5. live' \subseteq Attempts
    BY <1>1, <1>4 DEF Dispatch
<1>6. RequestsOK' /\ HeldBalanceIsServed'
    BY <1>1, <1>2, <1>3, <1>4, OthersKeep
<1> QED BY <1>2, <1>3, <1>5, <1>6, NoUpdateGood

\* A Worker that never reports.
LEMMA LoseGood ==
    ASSUME IndInv, NEW a \in Attempts, Lose(a), UNCHANGED edits PROVE Good
<1>1. req \in [Tasks -> Request] /\ live' \subseteq Attempts
    BY DEF IndInv, TypeOK, Lose
<1>2. UNCHANGED <<mem, disk, alive, req, acked, stranded, count>>
    BY DEF Lose
<1>3. Later(req, req')
    BY <1>1, <1>2, LedgerConstants DEF Later, Request
<1>4. RequestsOK' /\ HeldBalanceIsServed'
    BY <1>2 DEF IndInv, RequestsOK, HeldBalanceIsServed
<1> QED BY <1>1, <1>2, <1>3, <1>4, NoUpdateGood

\* markAttemptFailed: the request ends and its task is stranded.
LEMMA DispatchFailsGood ==
    ASSUME IndInv, NEW t \in Tasks, DispatchFails(t), UNCHANGED edits PROVE Good
<1> DEFINE a == <<t, req[t].n>>
           e == WithStates(mem, a, "queued", "failed")
<1>1. mem \in Database /\ req \in [Tasks -> Request] /\ stranded \subseteq Tasks
    BY DEF IndInv, TypeOK
<1>2. TaskOf(a) = t
    BY DEF TaskOf
<1>3. PICK ok \in BOOLEAN : Update(e, ok)
    BY <1>2 DEF DispatchFails, WithStates
<1>4. /\ a \in Attempts /\ mem.attempts[a].status # "none" /\ mem.tasks[t].status # "none"
    BY DEF DispatchFails, IndInv, RequestsOK
<1> HIDE DEF a
<1>5. /\ e \in Database /\ StatusOnly(mem, e)
      /\ \A x \in Tasks : x # t => e.tasks[x] = mem.tasks[x]
  <2>1. "queued" \in TaskStatus \ {"none"} /\ "failed" \in TaskStatus \ {"none"}
    BY DEF TaskStatus
  <2> QED BY <1>1, <1>2, <1>4, <2>1, AttemptState
<1>6. /\ req' \in [Tasks -> Request] /\ Later(req, req') /\ req'[t].pc = "done"
      /\ \A x \in Tasks : x # t => req'[x] = req[x]
    BY <1>1, MoveOn DEF DispatchFails, Done, Moved
<1>7. /\ UNCHANGED <<alive, live, acked>> /\ alive /\ stranded' = stranded \cup {t}
    BY DEF DispatchFails
<1>8. mem' = e
    BY <1>3 DEF Update
<1> HIDE DEF e
<1>9. e.users = mem.users /\ \A x \in Attempts : mem.attempts[x].status # "none" => e.attempts[x].status # "none"
    BY <1>5 DEF StatusOnly
<1>10. RequestsOK' /\ HeldBalanceIsServed'
    BY <1>1, <1>5, <1>6, <1>7, <1>8, <1>9, OthersKeep
<1>11. stranded' \subseteq Tasks
    BY <1>1, <1>7
<1> QED BY <1>3, <1>5, <1>6, <1>7, <1>10, <1>11, StatusStep

\* The request that is told of an attempt's end.
LEMMA TellFacts ==
    ASSUME req \in [Tasks -> Request], NEW a \in Attempts, NEW retry \in BOOLEAN
    PROVE  LET r == Tell(a, retry)
               t == TaskOf(a)
           IN  /\ r \in [Tasks -> Request] /\ Later(req, r)
               /\ r[t].user = req[t].user /\ r[t].n = req[t].n /\ r[t].cost = req[t].cost
               /\ \/ r[t].pc = req[t].pc
                  \/ req[t].pc = "wait" /\ r[t].pc = IF retry THEN "start" ELSE "done"
               /\ \A x \in Tasks : x # t => r[x] = req[x]
<1>1. TaskOf(a) \in Tasks
    BY DEF Attempts, TaskOf
<1>2. CASE req[TaskOf(a)].pc = "wait" /\ a[2] = req[TaskOf(a)].n
  <2> DEFINE pc == IF retry THEN "start" ELSE "done"
  <2>1. pc \in {"start", "dispatch", "wait", "done"}
    OBVIOUS
  <2>2. Tell(a, retry) = [req EXCEPT ![TaskOf(a)].pc = pc]
    BY <1>2 DEF Tell
  <2> HIDE DEF pc
  <2> DEFINE r == Moved(TaskOf(a), pc)
  <2>4. /\ r \in [Tasks -> Request] /\ Later(req, r)
        /\ r[TaskOf(a)].pc = pc /\ r[TaskOf(a)].user = req[TaskOf(a)].user
        /\ r[TaskOf(a)].n = req[TaskOf(a)].n /\ r[TaskOf(a)].cost = req[TaskOf(a)].cost
        /\ \A x \in Tasks : x # TaskOf(a) => r[x] = req[x]
    BY <1>1, <2>1, MoveOn
  <2>3. /\ Tell(a, retry) \in [Tasks -> Request] /\ Later(req, Tell(a, retry))
        /\ Tell(a, retry)[TaskOf(a)].pc = pc
        /\ Tell(a, retry)[TaskOf(a)].user = req[TaskOf(a)].user
        /\ Tell(a, retry)[TaskOf(a)].n = req[TaskOf(a)].n
        /\ Tell(a, retry)[TaskOf(a)].cost = req[TaskOf(a)].cost
        /\ \A x \in Tasks : x # TaskOf(a) => Tell(a, retry)[x] = req[x]
    BY <2>2, <2>4 DEF Moved
  <2> QED BY <1>2, <2>3 DEF pc
<1>3. CASE ~(req[TaskOf(a)].pc = "wait" /\ a[2] = req[TaskOf(a)].n)
  <2>1. Tell(a, retry) = req
    BY <1>3 DEF Tell
  <2>2. Later(req, req)
    BY LedgerConstants DEF Later, Request
  <2> QED BY <2>1, <2>2
<1> QED BY <1>2, <1>3

\* The failure of an attempt, by a lost connection or by a message.
LEMMA FailAttemptGood ==
    ASSUME IndInv, NEW a \in Attempts, NEW retry \in BOOLEAN, FailAttempt(a, retry), UNCHANGED edits
    PROVE  Good
<1> DEFINE t == TaskOf(a)
           s == IF retry THEN "queued" ELSE "failed"
           e == WithStates(mem, a, s, "failed")
<1>1. mem \in Database /\ req \in [Tasks -> Request] /\ stranded \subseteq Tasks
    BY DEF IndInv, TypeOK
<1>2. t \in Tasks
    BY DEF Attempts, TaskOf
<1>3. PICK ok \in BOOLEAN, told \in BOOLEAN :
        /\ Update([mem EXCEPT !.attempts[a].status = "failed", !.tasks[TaskOf(a)].status = s], ok)
        /\ req' = IF told THEN Tell(a, retry) ELSE req
    BY DEF FailAttempt
<1>4. Update(e, ok)
  <2>1. e = [mem EXCEPT !.attempts[a].status = "failed", !.tasks[TaskOf(a)].status = s]
    BY <1>1, Fields DEF WithStates
  <2> QED BY <1>3, <2>1
<1>5. mem.attempts[a].status # "none" /\ alive /\ UNCHANGED <<alive, live, acked>>
      /\ stranded' = Requeued(a, retry)
    BY DEF FailAttempt
<1>6. mem.tasks[t].status # "none"
    BY <1>5 DEF IndInv, DbOK, AttemptsOK
<1>7. s \in TaskStatus \ {"none"} /\ "failed" \in TaskStatus \ {"none"} /\ (s \in Pending => retry)
    BY DEF TaskStatus, Pending
<1> HIDE DEF s
<1>8. /\ e \in Database /\ StatusOnly(mem, e) /\ e.tasks[t].status = s
      /\ \A x \in Tasks : x # t => e.tasks[x] = mem.tasks[x]
    BY <1>1, <1>5, <1>6, <1>7, AttemptState
<1>9. /\ req' \in [Tasks -> Request] /\ Later(req, req')
      /\ req'[t].user = req[t].user /\ req'[t].n = req[t].n
      /\ \/ req'[t].pc = req[t].pc
         \/ req[t].pc = "wait" /\ req'[t].pc = IF retry THEN "start" ELSE "done"
      /\ \A x \in Tasks : x # t => req'[x] = req[x]
  <2>1. CASE told
    BY <1>1, <1>3, <2>1, TellFacts
  <2>2. CASE ~told
    <3>1. Later(req, req)
      BY <1>1, LedgerConstants DEF Later, Request
    <3> QED BY <1>1, <1>3, <2>2, <3>1
  <2> QED BY <2>1, <2>2
<1>10. mem' = e
    BY <1>4 DEF Update
<1> HIDE DEF e, t
<1>11. e.users = mem.users /\ \A x \in Attempts : mem.attempts[x].status # "none" => e.attempts[x].status # "none"
    BY <1>8 DEF StatusOnly
<1>12. stranded \subseteq stranded' /\ stranded' \subseteq Tasks
       /\ (retry /\ req[t].pc = "done" => t \in stranded')
    BY <1>1, <1>2, <1>5 DEF Requeued, t
<1>13. e.tasks[t].status \in Pending => req'[t].pc # "done" \/ t \in stranded'
    BY <1>7, <1>8, <1>9, <1>12
<1>14. /\ req[t].pc = "new" => req[t].user \in Users /\ mem.users[req[t].user].exists
       /\ req[t].pc = "dispatch" =>
              <<t, req[t].n>> \in Attempts /\ mem.attempts[<<t, req[t].n>>].status # "none"
    BY <1>2 DEF IndInv, RequestsOK
<1>15. e.tasks[t].status # "none"
    BY <1>7, <1>8
<1>16. /\ req'[t].pc = "new" => req'[t].user \in Users /\ e.users[req'[t].user].exists
       /\ req'[t].pc = "dispatch" =>
              <<t, req'[t].n>> \in Attempts /\ e.attempts[<<t, req'[t].n>>].status # "none"
    BY <1>9, <1>11, <1>14
<1>17. RequestsOK' /\ HeldBalanceIsServed'
    BY <1>1, <1>2, <1>5, <1>8, <1>9, <1>10, <1>11, <1>12, <1>13, <1>15, <1>16, OthersKeep
<1> QED BY <1>4, <1>5, <1>8, <1>9, <1>12, <1>17, StatusStep

\* authenticateClient and resolveChatProfile.
LEMMA AuthenticateGood ==
    ASSUME IndInv, NEW t \in Tasks, NEW k \in Keys, Authenticate(t, k), UNCHANGED edits
    PROVE  Good
<1> DEFINE u == KeyUser[k]
           new == [req EXCEPT ![t] = [@ EXCEPT !.pc = "new", !.user = u, !.cost = mem.cost]]
<1>1. mem \in Database /\ req \in [Tasks -> Request] /\ stranded \subseteq Tasks
    BY DEF IndInv, TypeOK
<1>2. u \in Users /\ mem.cost \in Nat
    BY <1>1, Fields, LedgerConstants
<1>3. PICK ok \in BOOLEAN : Update(mem, ok) /\ req' = IF ok THEN new ELSE Done(t)
    BY DEF Authenticate
<1>4. /\ UNCHANGED <<alive, live, acked, stranded>> /\ alive /\ req[t].pc = "none"
      /\ mem.users[u].exists
    BY DEF Authenticate
<1>5. /\ new \in [Tasks -> Request] /\ new[t].pc = "new" /\ new[t].user = u
      /\ \A x \in Tasks : x # t => new[x] = req[x]
  <2>1. [req[t] EXCEPT !.pc = "new", !.user = u, !.cost = mem.cost] \in Request
    BY <1>1, <1>2 DEF Request
  <2> QED BY <1>1, <2>1 DEF Request
<1>6. \A x \in Tasks : req[x].n \in Nat
    BY <1>1, LedgerConstants DEF Request
<1> HIDE DEF new, u
<1>7. Later(req, new)
    BY <1>4, <1>5, <1>6 DEF Later
<1>8. /\ req' \in [Tasks -> Request] /\ Later(req, req') /\ req'[t].pc \in {"new", "done"}
      /\ req'[t].pc = "new" => req'[t].user = u
      /\ \A x \in Tasks : x # t => req'[x] = req[x]
  <2>1. CASE ok
    BY <1>3, <1>5, <1>7, <2>1
  <2>2. CASE ~ok
    BY <1>1, <1>3, <2>2, MoveOn DEF Done, Moved
  <2> QED BY <2>1, <2>2
<1>9. mem' = mem /\ mem.tasks[t].status = "none"
    BY <1>3, <1>4 DEF Update, IndInv, DbOK, TasksOK
<1>10. RequestsOK' /\ HeldBalanceIsServed'
    BY <1>1, <1>2, <1>4, <1>8, <1>9, OthersKeep DEF Pending
<1>11. StatusOnly(mem, mem)
    BY DEF StatusOnly
<1> QED BY <1>1, <1>3, <1>4, <1>8, <1>10, <1>11, StatusStep

\* A task's record in a database that has had none.
LEMMA NewTask ==
    ASSUME NEW d, NEW r, DbOK(d, r), NEW t \in Tasks, NEW x \in TaskRecord, d.tasks[t].status = "none",
           x.user \in Users, d.users[x.user].exists, x.cost = r[t].cost, r[t].pc \notin {"none", "new"}
    PROVE  DbOK([d EXCEPT !.tasks[t] = x], r)
<1> DEFINE e == [d EXCEPT !.tasks = [d.tasks EXCEPT ![t] = x]]
<1>0. \A a \in Attempts : TaskOf(a) \in Tasks
    BY DEF Attempts, TaskOf
<1>1. d \in Database
    BY DEF DbOK
<1>2. d.tasks \in [Tasks -> TaskRecord] /\ d.attempts \in [Attempts -> AttemptRecord]
    BY <1>1, Fields
<1>3. e \in Database
    BY <1>1, <1>2, WithTasks
<1>4. /\ e.tasks = [d.tasks EXCEPT ![t] = x] /\ e.users = d.users /\ e.reports = d.reports
      /\ e.ledger = d.ledger /\ e.attempts = d.attempts
    BY <1>1, Fields
<1>5. e.tasks[t] = x /\ \A y \in Tasks : y # t => e.tasks[y] = d.tasks[y]
    BY <1>2, <1>4
<1> HIDE DEF e
<1>6. TasksOK(e, r)
    BY <1>4, <1>5 DEF DbOK, TasksOK
<1>7. \A a \in Attempts : d.attempts[a].status # "none" => TaskOf(a) # t
    BY DEF DbOK, AttemptsOK
<1>8. AttemptsOK(e, r)
    BY <1>0, <1>4, <1>5, <1>7 DEF DbOK, AttemptsOK
<1>9. ASSUME NEW i \in DOMAIN e.ledger PROVE EntryOK(e, e.ledger[i])
  <2>1. EntryOK(d, d.ledger[i]) /\ e.ledger[i] = d.ledger[i]
    BY <1>4 DEF DbOK, ChargesOK
  <2>2. IsCharge(e.ledger[i]) => e.ledger[i].report \in Attempts
    <3>1. e.ledger[i] \in LedgerEntry
      BY <1>3, Fields
    <3> QED BY <3>1 DEF IsCharge, LedgerEntry
  <2>3. ASSUME IsCharge(e.ledger[i]) PROVE d.attempts[e.ledger[i].report].status # "none"
    BY <2>1, <2>2, <2>3 DEF EntryOK, DbOK, AttemptsOK
  <2> QED BY <1>0, <1>4, <1>5, <1>7, <2>1, <2>2, <2>3 DEF EntryOK
<1>10. ChargesOK(e)
    BY <1>4, <1>9 DEF DbOK, ChargesOK, Debited
<1>11. BalancesOK(e)
    BY <1>4 DEF DbOK, BalancesOK
<1>12. DbOK(e, r)
    BY <1>3, <1>6, <1>8, <1>10, <1>11 DEF DbOK
<1>13. e = [d EXCEPT !.tasks[t] = x]
    BY DEF e
<1> QED BY <1>12, <1>13

\* storeNewTask.
LEMMA CreateChatTaskGood ==
    ASSUME IndInv, NEW t \in Tasks, CreateChatTask(t), UNCHANGED edits PROVE Good
<1> DEFINE x == [status |-> "queued", user |-> req[t].user, cost |-> req[t].cost]
           e == [mem EXCEPT !.tasks[t] = x]
<1>1. /\ mem \in Database /\ req \in [Tasks -> Request] /\ stranded \subseteq Tasks
      /\ live \subseteq Attempts /\ acked \subseteq Adjustments \cup Keys /\ edits \in 0..MaxEdits
    BY DEF IndInv, TypeOK
<1>2. UNCHANGED <<alive, live, acked>> /\ alive /\ req[t].pc = "new"
    BY DEF CreateChatTask
<1>3. mem.tasks[t].status = "none" /\ req[t].user \in Users /\ mem.users[req[t].user].exists
    BY <1>2 DEF IndInv, DbOK, TasksOK, RequestsOK
<1>4. CASE ~EnsureSufficientAvailableBalance(mem, req[t].user, req[t].cost)
  <2>1. req' = Done(t) /\ UNCHANGED <<mem, disk, count, stranded>>
    BY <1>4 DEF CreateChatTask
  <2>2. /\ req' \in [Tasks -> Request] /\ Later(req, req') /\ req'[t].pc = "done"
        /\ \A y \in Tasks : y # t => req'[y] = req[y]
    BY <1>1, <2>1, MoveOn DEF Done, Moved
  <2>3. RequestsOK' /\ HeldBalanceIsServed'
    BY <1>1, <1>2, <1>3, <2>1, <2>2, OthersKeep DEF Pending
  <2> QED BY <1>1, <1>2, <2>1, <2>2, <2>3, NoUpdateGood
<1>5. CASE EnsureSufficientAvailableBalance(mem, req[t].user, req[t].cost)
  <2>1. PICK ok \in BOOLEAN : /\ Update(e, ok)
                              /\ req' = IF ok THEN [req EXCEPT ![t].pc = "start"] ELSE Done(t)
                              /\ stranded' = IF ok THEN stranded ELSE stranded \cup {t}
    BY <1>5 DEF CreateChatTask
  <2>2. /\ req' \in [Tasks -> Request] /\ Later(req, req') /\ req'[t].cost = req[t].cost
        /\ req'[t].pc \in {"start", "done"}
        /\ \A y \in Tasks : y # t => req'[y] = req[y]
    <3>1. req' = Moved(t, "start") \/ req' = Moved(t, "done")
      BY <2>1 DEF Done, Moved
    <3> QED BY <1>1, <3>1, MoveOn
  <2>3. x \in TaskRecord /\ x.user = req[t].user /\ x.cost = req[t].cost /\ x.status = "queued"
    BY <1>1, <1>3 DEF TaskRecord, TaskStatus, Request
  <2> HIDE DEF x
  <2>4. DbOK(mem, req')
    BY <1>1, <2>2, LaterKeeps DEF IndInv
  <2>5. DbOK(e, req')
    BY <1>3, <2>2, <2>3, <2>4, NewTask
  <2>6. e \in Database
    BY <2>5 DEF DbOK
  <2>7. /\ e.ledger = mem.ledger /\ e.keys = mem.keys /\ e.users = mem.users
        /\ e.attempts = mem.attempts /\ e.tasks[t] = x
        /\ \A y \in Tasks : y # t => e.tasks[y] = mem.tasks[y]
    BY <1>1, Fields
  <2> HIDE DEF e
  <2>8. IsPrefix(mem.ledger, e.ledger)
    BY <1>1, <2>7, Fields, PrefixRules
  <2>9. AckedIn(e, acked')
    BY <1>1, <1>2, <2>6, <2>7, <2>8, AckedGrows DEF IndInv
  <2>10. mem' = e
    BY <2>1 DEF Update
  <2>11. /\ stranded \subseteq stranded' /\ stranded' \subseteq Tasks
         /\ req'[t].pc # "done" \/ t \in stranded'
    <3>1. CASE ok
      <4>1. req' = Moved(t, "start") /\ stranded' = stranded
        BY <2>1, <3>1 DEF Moved
      <4>2. req'[t].pc = "start"
        BY <1>1, <4>1, MoveOn
      <4> QED BY <1>1, <4>1, <4>2
    <3>2. CASE ~ok
      BY <1>1, <2>1, <3>2
    <3> QED BY <3>1, <3>2
  <2>12. RequestsOK' /\ HeldBalanceIsServed'
    BY <1>1, <1>2, <2>2, <2>3, <2>6, <2>7, <2>10, <2>11, OthersKeep
  <2> QED BY <1>1, <1>2, <2>1, <2>2, <2>5, <2>8, <2>9, <2>11, <2>12, UpdateGood
<1> QED BY <1>4, <1>5

\* A new attempt's record: no report is of it, so no entry of the ledger is.
LEMMA NewAttempt ==
    ASSUME NEW d, NEW r, DbOK(d, r), NEW t \in Tasks, NEW a \in Attempts, TaskOf(a) = t,
           d.tasks[t].status # "none", d.attempts[a].status = "none",
           r[t].cost \in Nat, a[2] <= r[t].n
    PROVE  DbOK([d EXCEPT !.tasks[t].status = "running", !.tasks[t].cost = r[t].cost,
                          !.attempts[a] = [status |-> "running", cost |-> r[t].cost]], r)
<1> DEFINE x == [d.tasks[t] EXCEPT !.status = "running", !.cost = r[t].cost]
           y == [status |-> "running", cost |-> r[t].cost]
           ts == [d.tasks EXCEPT ![t] = x]
           as == [d.attempts EXCEPT ![a] = y]
           e == [d EXCEPT !.tasks = ts, !.attempts = as]
           g == [d EXCEPT !.tasks[t].status = "running", !.tasks[t].cost = r[t].cost,
                          !.attempts[a] = [status |-> "running", cost |-> r[t].cost]]
<1>0. \A b \in Attempts : TaskOf(b) \in Tasks
    BY DEF Attempts, TaskOf
<1>1. d \in Database
    BY DEF DbOK
<1>2. d.tasks \in [Tasks -> TaskRecord] /\ d.attempts \in [Attempts -> AttemptRecord]
    BY <1>1, Fields
<1>3. x \in TaskRecord /\ x.status = "running" /\ x.user = d.tasks[t].user /\ x.cost = r[t].cost
    BY <1>2 DEF TaskRecord, TaskStatus
<1>4. y \in AttemptRecord /\ y.status = "running" /\ y.cost = r[t].cost
    BY DEF AttemptRecord, TaskStatus
<1>5. g = e
    BY <1>1, <1>2, Fields DEF TaskRecord
<1> HIDE DEF x, y, g
<1>6. ts \in [Tasks -> TaskRecord] /\ as \in [Attempts -> AttemptRecord]
    BY <1>2, <1>3, <1>4
<1>7. e \in Database
    BY <1>1, <1>6, WithTasks
<1>8. e.tasks = ts /\ e.attempts = as /\ e.users = d.users /\ e.reports = d.reports /\ e.ledger = d.ledger
    BY <1>1, Fields
<1>9. /\ e.tasks[t] = x /\ \A z \in Tasks : z # t => e.tasks[z] = d.tasks[z]
      /\ e.attempts[a] = y /\ \A b \in Attempts : b # a => e.attempts[b] = d.attempts[b]
    BY <1>2, <1>8
<1> HIDE DEF e, ts, as
<1>10. TasksOK(e, r)
    BY <1>3, <1>8, <1>9 DEF DbOK, TasksOK
<1>11. AttemptsOK(e, r)
  <2>1. ASSUME NEW b \in Attempts
        PROVE  /\ e.attempts[b].status # "none" =>
                     /\ e.attempts[b].cost = r[TaskOf(b)].cost /\ b[2] <= r[TaskOf(b)].n
                     /\ e.tasks[TaskOf(b)].status # "none"
               /\ e.reports[b] # "none" => e.attempts[b].status # "none"
    <3>1. CASE b = a
      BY <1>3, <1>4, <1>9, <3>1
    <3>2. CASE b # a
      BY <1>0, <1>3, <1>8, <1>9, <3>2 DEF DbOK, AttemptsOK
    <3> QED BY <3>1, <3>2
  <2> QED BY <2>1 DEF AttemptsOK
<1>12. d.reports[a] = "none"
    BY DEF DbOK, AttemptsOK
<1>13. ASSUME NEW i \in DOMAIN e.ledger PROVE EntryOK(e, e.ledger[i])
  <2>1. EntryOK(d, d.ledger[i]) /\ e.ledger[i] = d.ledger[i]
    BY <1>8 DEF DbOK, ChargesOK
  <2>2. IsCharge(e.ledger[i]) => e.ledger[i].report \in Attempts
    <3>1. e.ledger[i] \in LedgerEntry
      BY <1>7, Fields
    <3> QED BY <3>1 DEF IsCharge, LedgerEntry
  <2>3. IsCharge(e.ledger[i]) => e.ledger[i].report # a
    BY <1>12, <2>1 DEF EntryOK
  <2>4. \A z \in Tasks : e.tasks[z].user = d.tasks[z].user
    BY <1>3, <1>9
  <2> QED BY <1>0, <1>8, <1>9, <2>1, <2>2, <2>3, <2>4 DEF EntryOK
<1>14. ASSUME NEW b \in Attempts PROVE Debited(e, b)
  <2>1. CASE b = a
    BY <1>8, <1>12, <2>1 DEF Debited
  <2>2. CASE b # a
    <3>1. Debited(d, b)
      BY DEF DbOK, ChargesOK
    <3> QED BY <1>8, <1>9, <2>2, <3>1 DEF Debited
  <2> QED BY <2>1, <2>2
<1>15. ChargesOK(e)
    BY <1>8, <1>13, <1>14 DEF DbOK, ChargesOK
<1>16. BalancesOK(e)
    BY <1>8 DEF DbOK, BalancesOK
<1>17. DbOK(e, r)
    BY <1>7, <1>10, <1>11, <1>15, <1>16 DEF DbOK
<1>18. DbOK(g, r)
    BY <1>5, <1>17
<1> QED BY <1>18 DEF g

\* reserveAttemptSlot.
LEMMA BeginAttemptGood ==
    ASSUME IndInv, NEW t \in Tasks, BeginAttempt(t), UNCHANGED edits PROVE Good
<1> DEFINE a == <<t, req[t].n + 1>>
           e == Reserved(t, a)
<1>1. /\ mem \in Database /\ req \in [Tasks -> Request] /\ stranded \subseteq Tasks
      /\ live \subseteq Attempts /\ acked \subseteq Adjustments \cup Keys /\ edits \in 0..MaxEdits
    BY DEF IndInv, TypeOK
<1>2. PICK ok \in BOOLEAN :
        /\ Update(e, ok)
        /\ req' = [req EXCEPT ![t].pc = IF ok THEN "dispatch" ELSE "done", ![t].n = @ + 1]
        /\ stranded' = IF ok THEN stranded ELSE stranded \cup {t}
    BY DEF BeginAttempt
<1>3. /\ UNCHANGED <<alive, live, acked>> /\ alive /\ req[t].pc = "start" /\ req[t].n < MaxAttempts
      /\ mem.tasks[t].status = "queued"
    BY DEF BeginAttempt
<1>4. \A x \in Tasks : req[x].n \in Nat /\ req[x].n \in 0..MaxAttempts /\ req[x].cost \in Nat
    BY <1>1, LedgerConstants DEF Request
<1>5. a \in Attempts /\ TaskOf(a) = t /\ a[2] = req[t].n + 1
    BY <1>3, <1>4, LedgerConstants DEF Attempts, TaskOf
<1>6. mem.attempts[a].status = "none"
    BY <1>4, <1>5 DEF IndInv, DbOK, AttemptsOK
<1> DEFINE pc == IF ok THEN "dispatch" ELSE "done"
<1>7. pc \in {"dispatch", "done"} /\ (pc = "done" => ~ok)
    OBVIOUS
<1>8. /\ req' \in [Tasks -> Request] /\ req'[t].cost = req[t].cost /\ req'[t].n = req[t].n + 1
      /\ req'[t].pc = pc
      /\ \A x \in Tasks : x # t => req'[x] = req[x]
  <2> DEFINE n == req[t].n + 1
             x == [req[t] EXCEPT !.pc = pc, !.n = n]
  <2>1. req' = [req EXCEPT ![t] = x]
    BY <1>1, <1>2 DEF Request
  <2>2. n \in 0..MaxAttempts
    BY <1>3, <1>4, LedgerConstants
  <2> HIDE DEF pc, n
  <2>3. x \in Request /\ x.pc = pc /\ x.n = n /\ x.cost = req[t].cost
    BY <1>1, <1>7, <2>2 DEF Request
  <2> HIDE DEF x
  <2> QED BY <1>1, <2>1, <2>3 DEF n
<1> HIDE DEF pc
<1>9. Later(req, req')
    BY <1>4, <1>7, <1>8 DEF Later
<1>10. DbOK(mem, req')
    BY <1>1, <1>8, <1>9, LaterKeeps DEF IndInv
<1>11. e = [mem EXCEPT !.tasks[t].status = "running", !.tasks[t].cost = req'[t].cost,
                       !.attempts[a] = [status |-> "running", cost |-> req'[t].cost]]
    BY <1>8 DEF Reserved
<1>12. a[2] <= req'[t].n /\ req'[t].cost \in Nat /\ mem.tasks[t].status # "none"
    BY <1>3, <1>4, <1>5, <1>8
<1> HIDE DEF a, e
<1>13. DbOK(e, req')
    BY <1>5, <1>6, <1>10, <1>11, <1>12, NewAttempt
<1>14. e \in Database
    BY <1>13 DEF DbOK
<1>15. /\ e.ledger = mem.ledger /\ e.keys = mem.keys /\ e.users = mem.users
       /\ e.tasks[t].status = "running" /\ e.attempts[a].status = "running"
       /\ \A x \in Tasks : x # t => e.tasks[x] = mem.tasks[x]
       /\ \A b \in Attempts : b # a => e.attempts[b] = mem.attempts[b]
    BY <1>1, <1>5, <1>11, Fields DEF TaskRecord
<1>16. IsPrefix(mem.ledger, e.ledger)
    BY <1>1, <1>15, Fields, PrefixRules
<1>17. AckedIn(e, acked')
    BY <1>1, <1>3, <1>14, <1>15, <1>16, AckedGrows DEF IndInv
<1>18. mem' = e
    BY <1>2 DEF Update
<1>19. /\ stranded \subseteq stranded' /\ stranded' \subseteq Tasks
       /\ req'[t].pc # "done" \/ t \in stranded'
    BY <1>1, <1>2, <1>7, <1>8
<1>20. <<t, req'[t].n>> = a
    BY <1>8 DEF a
<1>21. RequestsOK' /\ HeldBalanceIsServed'
  <2>1. \A b \in Attempts : mem.attempts[b].status # "none" => e.attempts[b].status # "none"
    BY <1>15
  <2> QED BY <1>1, <1>3, <1>5, <1>7, <1>8, <1>14, <1>15, <1>18, <1>19, <1>20, <2>1, OthersKeep
<1> QED BY <1>1, <1>2, <1>3, <1>8, <1>9, <1>13, <1>16, <1>17, <1>19, <1>21, UpdateGood

-----------------------------------------------------------------------------
(* Reports *)

Unique(l) == \A i, j \in DOMAIN l : SameCharge(l[i], l[j]) => i = j

\* A charge that the ledger has not made stays the only one.
LEMMA AppendUnique ==
    ASSUME NEW l \in Seq(LedgerEntry), NEW c \in LedgerEntry, Unique(l),
           \A i \in DOMAIN l : ~SameCharge(l[i], c)
    PROVE  Unique(Append(l, c))
<1> DEFINE m == Append(l, c)
           n == Len(l) + 1
<1>1. /\ m[n] = c /\ \A i \in DOMAIN l : m[i] = l[i]
      /\ \A i \in DOMAIN m : i \in DOMAIN l \/ i = n
    BY AppendEntries
<1> HIDE DEF m, n
<1>2. ASSUME NEW i \in DOMAIN m, NEW j \in DOMAIN m, SameCharge(m[i], m[j]) PROVE i = j
  <2>1. CASE i \in DOMAIN l /\ j \in DOMAIN l
    BY <1>1, <1>2, <2>1 DEF Unique
  <2>2. CASE i \in DOMAIN l /\ j = n
    BY <1>1, <1>2, <2>2
  <2>3. CASE i = n /\ j \in DOMAIN l
    <3>1. SameCharge(l[j], c)
      BY <1>1, <1>2, <2>3 DEF SameCharge, IsCharge
    <3> QED BY <2>3, <3>1
  <2> QED BY <1>1, <2>1, <2>2, <2>3
<1> QED BY <1>2 DEF Unique, m

\* The entries that a report of attempt a may add.
ChargeFor(d, a, c) ==
    /\ c.type \in {"consume_compute", "produce_compute"} /\ c.report = a
    /\ c.amount = d.attempts[a].cost
    /\ c.type = "consume_compute" => c.user = d.tasks[TaskOf(a)].user

ConsumeEntry(d, a) ==
    [type |-> "consume_compute", user |-> d.tasks[TaskOf(a)].user, report |-> a,
     amount |-> d.attempts[a].cost, direction |-> "debit"]

ProduceEntry(d, a) ==
    [type |-> "produce_compute", user |-> d.owner, report |-> a,
     amount |-> d.attempts[a].cost, direction |-> "credit"]

\* What appendConsumptionLedger and appendProductionLedger leave.
Charged(d, a, f) ==
    /\ f \in Database /\ BalancesOK(f)
    /\ f.tasks = d.tasks /\ f.attempts = d.attempts /\ f.reports = d.reports /\ f.keys = d.keys
    /\ \A u \in Users : f.users[u].exists = d.users[u].exists
    /\ IsPrefix(d.ledger, f.ledger) /\ Unique(f.ledger)
    /\ \A i \in DOMAIN f.ledger :
          \/ i \in DOMAIN d.ledger /\ f.ledger[i] = d.ledger[i]
          \/ ChargeFor(d, a, f.ledger[i])
    /\ \E i \in DOMAIN f.ledger : f.ledger[i].type = "consume_compute" /\ f.ledger[i].report = a

\* The debit.
LEMMA ConsumptionCharged ==
    ASSUME NEW d \in Database, BalancesOK(d), Unique(d.ledger), NEW a \in Attempts,
           d.tasks[TaskOf(a)].user \in Users, d.users[d.tasks[TaskOf(a)].user].exists,
           ~LedgerExistsForReport(d, a)
    PROVE  /\ AppendConsumptionLedger(d, a) = AppendLedgerEntry(d, ConsumeEntry(d, a))
           /\ ConsumeEntry(d, a) \in LedgerEntry
           /\ Charged(d, a, AppendConsumptionLedger(d, a))
<1> DEFINE c == ConsumeEntry(d, a)
           f == AppendLedgerEntry(d, c)
<1>1. d.attempts \in [Attempts -> AttemptRecord] /\ d.ledger \in Seq(LedgerEntry)
    BY Fields
<1>2. c \in LedgerEntry
    BY <1>1 DEF ConsumeEntry, LedgerEntry, AttemptRecord
<1>3. AppendConsumptionLedger(d, a) = f
    BY DEF AppendConsumptionLedger, ConsumeEntry
<1>4. c.type = "consume_compute" /\ c.report = a /\ ChargeFor(d, a, c)
    BY DEF ConsumeEntry, ChargeFor
<1> HIDE DEF c
<1>5. /\ f \in Database /\ f.ledger = Append(d.ledger, c)
      /\ f.tasks = d.tasks /\ f.attempts = d.attempts /\ f.reports = d.reports /\ f.keys = d.keys
      /\ \A u \in Users : f.users[u].exists = d.users[u].exists
    BY <1>2, AppendFields
<1>6. BalancesOK(f)
    BY <1>2, AppendBalances
<1>7. IsPrefix(d.ledger, f.ledger)
    BY <1>1, <1>2, <1>5, PrefixRules
<1>8. Unique(f.ledger)
  <2>1. \A i \in DOMAIN d.ledger : ~SameCharge(d.ledger[i], c)
    BY <1>4 DEF LedgerExistsForReport, SameCharge, IsCharge
  <2> QED BY <1>1, <1>2, <1>5, <2>1, AppendUnique
<1> HIDE DEF f
<1>9. /\ f.ledger[Len(d.ledger) + 1] = c /\ Len(d.ledger) + 1 \in DOMAIN f.ledger
      /\ \A i \in DOMAIN d.ledger : f.ledger[i] = d.ledger[i]
      /\ \A i \in DOMAIN f.ledger : i \in DOMAIN d.ledger \/ i = Len(d.ledger) + 1
    BY <1>1, <1>2, <1>5, AppendEntries
<1>10. Charged(d, a, f)
    BY <1>4, <1>5, <1>6, <1>7, <1>8, <1>9 DEF Charged
<1>11. AppendConsumptionLedger(d, a) = AppendLedgerEntry(d, ConsumeEntry(d, a))
    BY <1>3 DEF f, c
<1>12. Charged(d, a, AppendConsumptionLedger(d, a))
    BY <1>3, <1>10
<1> QED BY <1>2, <1>11, <1>12 DEF c

\* The credit that follows it.
LEMMA ProductionCharged ==
    ASSUME NEW d \in Database, NEW a \in Attempts, NEW f, Charged(d, a, f),
           \A i \in DOMAIN f.ledger : ~SameCharge(f.ledger[i], ProduceEntry(f, a))
    PROVE  Charged(d, a, AppendProductionLedger(f, a))
<1> DEFINE c == ProduceEntry(f, a)
           g == AppendLedgerEntry(f, c)
<1>1. CASE f.owner = NoUser
    BY <1>1 DEF AppendProductionLedger
<1>2. CASE f.owner # NoUser
  <2>1. f \in Database
    BY DEF Charged
  <2>2. /\ f.attempts \in [Attempts -> AttemptRecord] /\ f.ledger \in Seq(LedgerEntry)
        /\ f.owner \in Users /\ d.ledger \in Seq(LedgerEntry)
    BY <1>2, <2>1, Fields
  <2>3. c \in LedgerEntry
    BY <2>2 DEF ProduceEntry, LedgerEntry, AttemptRecord
  <2>4. AppendProductionLedger(f, a) = g
    BY <1>2 DEF AppendProductionLedger, ProduceEntry
  <2>5. ChargeFor(d, a, c)
    BY DEF ProduceEntry, ChargeFor, Charged
  <2> HIDE DEF c
  <2>6. /\ g \in Database /\ g.ledger = Append(f.ledger, c)
        /\ g.tasks = f.tasks /\ g.attempts = f.attempts /\ g.reports = f.reports /\ g.keys = f.keys
        /\ \A u \in Users : g.users[u].exists = f.users[u].exists
    BY <2>1, <2>3, AppendFields
  <2>7. BalancesOK(g)
    BY <2>1, <2>3, AppendBalances DEF Charged
  <2>8. IsPrefix(d.ledger, g.ledger)
    <3>1. IsPrefix(f.ledger, g.ledger)
      BY <2>2, <2>3, <2>6, PrefixRules
    <3>2. g.ledger \in Seq(LedgerEntry) /\ IsPrefix(d.ledger, f.ledger)
      BY <2>6, Fields DEF Charged
    <3> QED BY <2>2, <3>1, <3>2, PrefixRules
  <2>9. Unique(g.ledger)
    <3>1. \A i \in DOMAIN f.ledger : ~SameCharge(f.ledger[i], c)
      BY DEF c
    <3> QED BY <2>2, <2>3, <2>6, <3>1, AppendUnique DEF Charged
  <2> HIDE DEF g
  <2>10. /\ g.ledger[Len(f.ledger) + 1] = c
         /\ \A i \in DOMAIN f.ledger : g.ledger[i] = f.ledger[i] /\ i \in DOMAIN g.ledger
         /\ \A i \in DOMAIN g.ledger : i \in DOMAIN f.ledger \/ i = Len(f.ledger) + 1
    BY <2>2, <2>3, <2>6, AppendEntries
  <2>11. \A i \in DOMAIN g.ledger : \/ i \in DOMAIN d.ledger /\ g.ledger[i] = d.ledger[i]
                                    \/ ChargeFor(d, a, g.ledger[i])
    BY <2>5, <2>10 DEF Charged
  <2>12. \E i \in DOMAIN g.ledger : g.ledger[i].type = "consume_compute" /\ g.ledger[i].report = a
    BY <2>10 DEF Charged
  <2>13. Charged(d, a, g)
    BY <2>6, <2>7, <2>8, <2>9, <2>11, <2>12 DEF Charged
  <2> QED BY <2>4, <2>13
<1> QED BY <1>1, <1>2

Due(d, a, st) == st = "completed" /\ d.attempts[a].cost > 0

\* applyReportAccounting charges a report that is due, once, and no other.
LEMMA AccountingDone ==
    ASSUME NEW d, NEW r, DbOK(d, r), NEW a \in Attempts, d.attempts[a].status # "none",
           d.reports[a] = "none", NEW st \in {"completed", "failed", "cancelled"}
    PROVE  /\ Due(d, a, st) => Charged(d, a, ApplyReportAccounting(d, a, st))
           /\ ~Due(d, a, st) => ApplyReportAccounting(d, a, st) = d
<1> DEFINE t == TaskOf(a)
           f == ApplyReportAccounting(d, a, st)
           g == AppendConsumptionLedger(d, a)
<1>0. t \in Tasks
    BY DEF Attempts, TaskOf
<1>1. /\ d \in Database /\ BalancesOK(d) /\ ChargesOK(d) /\ Unique(d.ledger)
      /\ TasksOK(d, r) /\ AttemptsOK(d, r)
    BY DEF DbOK, ChargesOK, Unique
<1>2. d.ledger \in Seq(LedgerEntry) /\ d.attempts[a].cost \in Nat
    BY <1>1, Fields DEF AttemptRecord
<1>3. d.tasks[t].status # "none" /\ d.tasks[t].user \in Users /\ d.users[d.tasks[t].user].exists
    BY <1>0, <1>1 DEF AttemptsOK, TasksOK
<1>4. ~LedgerExistsForReport(d, a)
    BY <1>1 DEF LedgerExistsForReport, ChargesOK, EntryOK, IsCharge
<1>5. ASSUME ~Due(d, a, st) PROVE f = d
    BY <1>2, <1>5 DEF ApplyReportAccounting, Due
<1>6. ASSUME Due(d, a, st) PROVE Charged(d, a, f)
  <2>1. f = AppendProductionLedger(g, a)
    BY <1>2, <1>4, <1>6 DEF ApplyReportAccounting, Due
  <2>2. /\ Charged(d, a, g) /\ ConsumeEntry(d, a) \in LedgerEntry
        /\ g = AppendLedgerEntry(d, ConsumeEntry(d, a))
    BY <1>1, <1>3, <1>4, ConsumptionCharged
  <2>3. g.ledger = Append(d.ledger, ConsumeEntry(d, a))
    BY <1>1, <2>2, AppendFields
  <2> HIDE DEF g
  <2>4. ASSUME NEW i \in DOMAIN g.ledger PROVE ~SameCharge(g.ledger[i], ProduceEntry(g, a))
    <3>1. (i \in DOMAIN d.ledger /\ g.ledger[i] = d.ledger[i]) \/ g.ledger[i] = ConsumeEntry(d, a)
      BY <1>2, <2>2, <2>3, AppendEntries
    <3>2. CASE i \in DOMAIN d.ledger /\ g.ledger[i] = d.ledger[i]
      BY <1>4, <3>2 DEF LedgerExistsForReport, SameCharge, IsCharge, ProduceEntry
    <3>3. CASE g.ledger[i] = ConsumeEntry(d, a)
      BY <3>3 DEF ConsumeEntry, ProduceEntry, SameCharge
    <3> QED BY <3>1, <3>2, <3>3
  <2> QED BY <1>1, <2>1, <2>2, <2>4, ProductionCharged
<1> QED BY <1>5, <1>6

WithReport(f, a, st, s) ==
    [f EXCEPT !.reports[a] = st, !.attempts[a].status = st, !.tasks[TaskOf(a)].status = s]

\* The accounting, if it is due, and the new states.
Recorded(d, a, st, s) == WithReport(ApplyReportAccounting(d, a, st), a, st, s)

\* What it leaves, field by field.
IsRecorded(e, f, a, st, s) ==
    /\ e \in Database /\ e.users = f.users /\ e.keys = f.keys /\ e.ledger = f.ledger
    /\ e.reports[a] = st /\ \A b \in Attempts : b # a => e.reports[b] = f.reports[b]
    /\ e.attempts[a].status = st
    /\ \A b \in Attempts : /\ e.attempts[b].cost = f.attempts[b].cost
                           /\ b # a => e.attempts[b] = f.attempts[b]
    /\ e.tasks[TaskOf(a)].status = s
    /\ \A x \in Tasks : /\ e.tasks[x].user = f.tasks[x].user
                        /\ e.tasks[x].cost = f.tasks[x].cost
                        /\ x # TaskOf(a) => e.tasks[x] = f.tasks[x]

LEMMA RecordedFields ==
    ASSUME NEW f \in Database, NEW a \in Attempts, NEW st \in {"completed", "failed", "cancelled"},
           NEW s \in TaskStatus
    PROVE  IsRecorded(WithReport(f, a, st, s), f, a, st, s)
<1> DEFINE t == TaskOf(a)
           rs == [f.reports EXCEPT ![a] = st]
           as == [f.attempts EXCEPT ![a].status = st]
           ts == [f.tasks EXCEPT ![t].status = s]
           e == [f EXCEPT !.reports = rs, !.attempts = as, !.tasks = ts]
<1>0. t \in Tasks
    BY DEF Attempts, TaskOf
<1>1. /\ f.attempts \in [Attempts -> AttemptRecord] /\ f.tasks \in [Tasks -> TaskRecord]
      /\ f.reports \in [Attempts -> {"none", "completed", "failed", "cancelled"}]
    BY Fields
<1>2. rs \in [Attempts -> {"none", "completed", "failed", "cancelled"}]
    BY <1>1
<1>3. as \in [Attempts -> AttemptRecord]
  <2>1. [f.attempts[a] EXCEPT !.status = st] \in AttemptRecord
    BY <1>1 DEF AttemptRecord, TaskStatus
  <2> QED BY <1>1, <2>1
<1> HIDE DEF t
<1>4. ts \in [Tasks -> TaskRecord]
  <2>1. [f.tasks[t] EXCEPT !.status = s] \in TaskRecord
    BY <1>0, <1>1 DEF TaskRecord
  <2> QED BY <1>1, <2>1
<1>5. e \in Database
  <2> HIDE DEF rs, as, ts
  <2> QED BY <1>2, <1>3, <1>4 DEF Database
<1>6. /\ e.users = f.users /\ e.keys = f.keys /\ e.ledger = f.ledger
      /\ e.reports = rs /\ e.attempts = as /\ e.tasks = ts
    BY Fields
<1>7. rs[a] = st /\ \A b \in Attempts : b # a => rs[b] = f.reports[b]
    BY <1>1
<1>8. /\ as[a].status = st /\ as[a].cost = f.attempts[a].cost
      /\ \A b \in Attempts : b # a => as[b] = f.attempts[b]
    BY <1>1 DEF AttemptRecord
<1>9. /\ ts[t].status = s /\ ts[t].user = f.tasks[t].user /\ ts[t].cost = f.tasks[t].cost
      /\ \A x \in Tasks : x # t => ts[x] = f.tasks[x]
    BY <1>0, <1>1 DEF TaskRecord
<1>10. e = WithReport(f, a, st, s)
    BY Fields DEF t, WithReport
<1> HIDE DEF rs, as, ts, e
<1>11. /\ e.reports[a] = st /\ \A b \in Attempts : b # a => e.reports[b] = f.reports[b]
       /\ e.attempts[a].status = st
       /\ \A b \in Attempts : /\ e.attempts[b].cost = f.attempts[b].cost
                              /\ b # a => e.attempts[b] = f.attempts[b]
    BY <1>6, <1>7, <1>8
<1>12. /\ e.tasks[t].status = s
       /\ \A x \in Tasks : /\ e.tasks[x].user = f.tasks[x].user
                           /\ e.tasks[x].cost = f.tasks[x].cost
                           /\ x # t => e.tasks[x] = f.tasks[x]
    BY <1>6, <1>9
<1>13. IsRecorded(e, f, a, st, s)
    BY <1>5, <1>6, <1>11, <1>12 DEF t, IsRecorded
<1> QED BY <1>10, <1>13

\* Recorded leaves a database in order that has grown.
LEMMA ReportRecorded ==
    ASSUME NEW d, NEW r, DbOK(d, r), NEW a \in Attempts, d.attempts[a].status # "none",
           d.reports[a] = "none", NEW st \in {"completed", "failed", "cancelled"},
           NEW s \in TaskStatus \ {"none"}
    PROVE  LET e == Recorded(d, a, st, s)
           IN  /\ DbOK(e, r) /\ IsPrefix(d.ledger, e.ledger) /\ e.keys = d.keys
               /\ \A u \in Users : e.users[u].exists = d.users[u].exists
               /\ e.tasks[TaskOf(a)].status = s
               /\ \A x \in Tasks : x # TaskOf(a) => e.tasks[x] = d.tasks[x]
               /\ \A b \in Attempts : d.attempts[b].status # "none" => e.attempts[b].status # "none"
<1> DEFINE t == TaskOf(a)
           f == ApplyReportAccounting(d, a, st)
           e == Recorded(d, a, st, s)
<1>0. t \in Tasks /\ \A b \in Attempts : TaskOf(b) \in Tasks
    BY DEF Attempts, TaskOf
<1>1. /\ d \in Database /\ BalancesOK(d) /\ ChargesOK(d) /\ Unique(d.ledger)
      /\ TasksOK(d, r) /\ AttemptsOK(d, r)
    BY DEF DbOK, ChargesOK, Unique
<1>2. d.ledger \in Seq(LedgerEntry)
    BY <1>1, Fields
<1>3. (Due(d, a, st) => Charged(d, a, f)) /\ (~Due(d, a, st) => f = d)
    BY AccountingDone
<1> HIDE DEF f
<1>4. /\ f \in Database /\ BalancesOK(f)
      /\ f.tasks = d.tasks /\ f.attempts = d.attempts /\ f.reports = d.reports /\ f.keys = d.keys
      /\ \A u \in Users : f.users[u].exists = d.users[u].exists
      /\ IsPrefix(d.ledger, f.ledger) /\ Unique(f.ledger)
      /\ \A i \in DOMAIN f.ledger : \/ i \in DOMAIN d.ledger /\ f.ledger[i] = d.ledger[i]
                                    \/ Due(d, a, st) /\ ChargeFor(d, a, f.ledger[i])
      /\ Due(d, a, st) => \E i \in DOMAIN f.ledger :
                              f.ledger[i].type = "consume_compute" /\ f.ledger[i].report = a
  <2>1. CASE Due(d, a, st)
    BY <1>3, <2>1 DEF Charged
  <2>2. CASE ~Due(d, a, st)
    BY <1>1, <1>2, <1>3, <2>2, PrefixRules
  <2> QED BY <2>1, <2>2
<1>5. e = WithReport(f, a, st, s)
    BY DEF Recorded, f
<1>6. /\ e \in Database /\ e.users = f.users /\ e.keys = f.keys /\ e.ledger = f.ledger
      /\ e.reports[a] = st /\ \A b \in Attempts : b # a => e.reports[b] = f.reports[b]
      /\ e.attempts[a].status = st
      /\ \A b \in Attempts : /\ e.attempts[b].cost = f.attempts[b].cost
                             /\ b # a => e.attempts[b] = f.attempts[b]
      /\ e.tasks[TaskOf(a)].status = s
      /\ \A x \in Tasks : /\ e.tasks[x].user = f.tasks[x].user
                          /\ e.tasks[x].cost = f.tasks[x].cost
                          /\ x # TaskOf(a) => e.tasks[x] = f.tasks[x]
  <2>1. f \in Database /\ s \in TaskStatus
    BY <1>4
  <2>2. IsRecorded(e, f, a, st, s)
    BY <1>5, <2>1, RecordedFields
  <2> HIDE DEF e
  <2> QED BY <2>2 DEF IsRecorded
<1> HIDE DEF e
<1>7. /\ \A b \in Attempts : d.attempts[b].status # "none" => e.attempts[b].status # "none"
      /\ \A x \in Tasks : d.tasks[x].status # "none" => e.tasks[x].status # "none"
    BY <1>4, <1>6
<1>8. d.tasks[t].status # "none"
    BY <1>1 DEF AttemptsOK
<1>9. TasksOK(e, r)
  <2>1. \A x \in Tasks : e.tasks[x].status # "none" => d.tasks[x].status # "none"
    BY <1>4, <1>6, <1>8
  <2> QED BY <1>1, <1>4, <1>6, <2>1 DEF TasksOK
<1>10. AttemptsOK(e, r)
  <2>1. \A b \in Attempts : e.attempts[b].status # "none" => d.attempts[b].status # "none"
    BY <1>4, <1>6
  <2>2. \A b \in Attempts : e.reports[b] # "none" => e.attempts[b].status # "none"
    BY <1>1, <1>4, <1>6 DEF AttemptsOK
  <2> QED BY <1>0, <1>1, <1>4, <1>6, <1>7, <2>1, <2>2 DEF AttemptsOK
<1>11. ASSUME NEW i \in DOMAIN e.ledger PROVE EntryOK(e, e.ledger[i])
  <2>0. e.ledger[i] = f.ledger[i] /\ i \in DOMAIN f.ledger
    BY <1>6
  <2>1. CASE i \in DOMAIN d.ledger /\ f.ledger[i] = d.ledger[i]
    <3>1. EntryOK(d, d.ledger[i])
      BY <1>1, <2>1 DEF ChargesOK
    <3>2. IsCharge(e.ledger[i]) => e.ledger[i].report \in Attempts
      <4>1. e.ledger[i] \in LedgerEntry
        BY <1>6, Fields
      <4> QED BY <4>1 DEF IsCharge, LedgerEntry
    <3>3. IsCharge(e.ledger[i]) => e.ledger[i].report # a
      BY <2>0, <2>1, <3>1 DEF EntryOK
    <3> QED BY <1>0, <1>4, <1>6, <2>0, <2>1, <3>1, <3>2, <3>3 DEF EntryOK
  <2>2. CASE Due(d, a, st) /\ ChargeFor(d, a, f.ledger[i])
    BY <1>0, <1>4, <1>6, <2>0, <2>2 DEF EntryOK, Due, ChargeFor
  <2> QED BY <1>4, <2>0, <2>1, <2>2
<1>12. \A i, j \in DOMAIN e.ledger : SameCharge(e.ledger[i], e.ledger[j]) => i = j
    BY <1>4, <1>6 DEF Unique
<1>13. ASSUME NEW b \in Attempts PROVE Debited(e, b)
  <2>1. CASE b = a
    BY <1>4, <1>6, <2>1 DEF Debited, Due
  <2>2. CASE b # a
    <3>1. Debited(d, b)
      BY <1>1 DEF ChargesOK
    <3>2. \A i \in DOMAIN d.ledger : i \in DOMAIN e.ledger /\ e.ledger[i] = d.ledger[i]
      <4>1. Len(d.ledger) <= Len(f.ledger) /\ \A i \in DOMAIN d.ledger : f.ledger[i] = d.ledger[i]
        BY <1>2, <1>4, Fields, PrefixEntries
      <4>2. f.ledger \in Seq(LedgerEntry)
        BY <1>4, Fields
      <4>3. \A i \in DOMAIN d.ledger : i \in DOMAIN f.ledger
        BY <1>2, <4>1, <4>2
      <4> QED BY <1>6, <4>1, <4>3
    <3> QED BY <1>4, <1>6, <2>2, <3>1, <3>2 DEF Debited
  <2> QED BY <2>1, <2>2
<1>14. ChargesOK(e)
    BY <1>11, <1>12, <1>13 DEF ChargesOK
<1>15. BalancesOK(e)
    BY <1>4, <1>6 DEF BalancesOK
<1>16. DbOK(e, r)
    BY <1>6, <1>9, <1>10, <1>14, <1>15 DEF DbOK
<1> QED BY <1>4, <1>6, <1>7, <1>16 DEF e

\* handleComputeReport.
LEMMA HandleComputeReportGood ==
    ASSUME IndInv, NEW a \in Attempts, NEW st \in {"completed", "failed", "cancelled"},
           NEW retry \in BOOLEAN, HandleComputeReport(a, st, retry), UNCHANGED edits
    PROVE  Good
<1> DEFINE t == TaskOf(a)
           s == IF retry THEN "queued" ELSE st
           e == Recorded(mem, a, st, s)
<1>1. /\ mem \in Database /\ req \in [Tasks -> Request] /\ stranded \subseteq Tasks
      /\ live \subseteq Attempts /\ acked \subseteq Adjustments \cup Keys /\ edits \in 0..MaxEdits
    BY DEF IndInv, TypeOK
<1>2. t \in Tasks
    BY DEF Attempts, TaskOf
<1>3. UNCHANGED <<alive, acked>> /\ alive /\ live' \subseteq Attempts
    BY <1>1 DEF HandleComputeReport
<1>4. CASE mem.attempts[a].status = "none" \/ mem.reports[a] # "none"
  <2>1. UNCHANGED <<mem, disk, count, req, stranded>>
    BY <1>4 DEF HandleComputeReport
  <2>2. Later(req, req')
    BY <1>1, <2>1, LedgerConstants DEF Later, Request
  <2>3. RequestsOK' /\ HeldBalanceIsServed'
    BY <1>3, <2>1 DEF IndInv, RequestsOK, HeldBalanceIsServed
  <2> QED BY <1>1, <1>3, <2>1, <2>2, <2>3, NoUpdateGood
<1>5. CASE ~(mem.attempts[a].status = "none" \/ mem.reports[a] # "none")
  <2>1. PICK ok \in BOOLEAN : Update(e, ok) /\ req' = IF ok THEN Tell(a, retry) ELSE req
    BY <1>5 DEF HandleComputeReport, Recorded, WithReport
  <2>2. stranded' = Requeued(a, retry)
    BY <1>5 DEF HandleComputeReport
  <2>3. s \in TaskStatus \ {"none"} /\ (s \in Pending => retry)
    BY DEF TaskStatus, Pending
  <2> HIDE DEF s
  <2>4. /\ req' \in [Tasks -> Request] /\ Later(req, req')
        /\ req'[t].user = req[t].user /\ req'[t].n = req[t].n
        /\ \/ req'[t].pc = req[t].pc
           \/ req[t].pc = "wait" /\ req'[t].pc = IF retry THEN "start" ELSE "done"
        /\ \A x \in Tasks : x # t => req'[x] = req[x]
    <3>1. CASE ok
      BY <1>1, <2>1, <3>1, TellFacts
    <3>2. CASE ~ok
      <4>1. Later(req, req)
        BY <1>1, LedgerConstants DEF Later, Request
      <4> QED BY <1>1, <2>1, <3>2, <4>1
    <3> QED BY <3>1, <3>2
  <2>5. DbOK(mem, req')
    BY <1>1, <2>4, LaterKeeps DEF IndInv
  <2>6. /\ DbOK(e, req') /\ IsPrefix(mem.ledger, e.ledger) /\ e.keys = mem.keys
        /\ \A u \in Users : e.users[u].exists = mem.users[u].exists
        /\ e.tasks[t].status = s
        /\ \A x \in Tasks : x # t => e.tasks[x] = mem.tasks[x]
        /\ \A b \in Attempts : mem.attempts[b].status # "none" => e.attempts[b].status # "none"
    BY <1>5, <2>3, <2>5, ReportRecorded
  <2> HIDE DEF e, t
  <2>7. mem' = e /\ e \in Database
    BY <2>1, <2>6 DEF Update, DbOK
  <2>8. AckedIn(e, acked')
    BY <1>1, <1>3, <2>6, <2>7, AckedGrows DEF IndInv
  <2>9. /\ stranded \subseteq stranded' /\ stranded' \subseteq Tasks
        /\ (retry /\ req[t].pc = "done" => t \in stranded')
    BY <1>1, <1>2, <2>2 DEF Requeued, t
  <2>10. e.tasks[t].status \in Pending => req'[t].pc # "done" \/ t \in stranded'
    BY <2>3, <2>4, <2>6, <2>9
  <2>11. /\ req[t].pc = "new" => req[t].user \in Users /\ mem.users[req[t].user].exists
         /\ req[t].pc = "dispatch" =>
              <<t, req[t].n>> \in Attempts /\ mem.attempts[<<t, req[t].n>>].status # "none"
    BY <1>2 DEF IndInv, RequestsOK
  <2>12. e.tasks[t].status # "none"
    BY <2>3, <2>6
  <2>13. /\ req'[t].pc = "new" => req'[t].user \in Users /\ e.users[req'[t].user].exists
         /\ req'[t].pc = "dispatch" =>
              <<t, req'[t].n>> \in Attempts /\ e.attempts[<<t, req'[t].n>>].status # "none"
    BY <2>4, <2>6, <2>11
  <2>14. RequestsOK' /\ HeldBalanceIsServed'
    BY <1>1, <1>2, <1>3, <2>4, <2>6, <2>7, <2>9, <2>10, <2>12, <2>13, OthersKeep
  <2> QED BY <1>1, <1>3, <2>1, <2>4, <2>6, <2>8, <2>9, <2>14, UpdateGood
<1> QED BY <1>4, <1>5

-----------------------------------------------------------------------------
(* Start, crash and restart *)

\* ensureConfiguredClientKey edits a user and a key.
LEMMA EnsureEdits ==
    ASSUME NEW d \in Database
    PROVE  EnsureConfiguredClientKey(d) \in Database /\ RecordsOnly(d, EnsureConfiguredClientKey(d))
<1> DEFINE e == [d EXCEPT !.users[DefaultUser].exists = TRUE, !.keys[ConfiguredKey] = "active"]
           us == [d.users EXCEPT ![DefaultUser].exists = TRUE]
           ks == [d.keys EXCEPT ![ConfiguredKey] = "active"]
<1>1. d.users \in [Users -> UserRecord] /\ d.keys \in [Keys -> {"none", "active", "revoked"}]
    BY Fields
<1>2. DefaultUser \in Users /\ ConfiguredKey \in Keys
    BY LedgerConstants
<1>3. us \in [Users -> UserRecord]
  <2>1. [d.users[DefaultUser] EXCEPT !.exists = TRUE] \in UserRecord
    BY <1>1, <1>2 DEF UserRecord
  <2> QED BY <1>1, <2>1
<1>4. ks \in [Keys -> {"none", "active", "revoked"}]
    BY <1>1
<1>5. e = [d EXCEPT !.users = us, !.keys = ks]
    OBVIOUS
<1>6. \A u \in Users : us[u].balance = d.users[u].balance /\ (d.users[u].exists => us[u].exists)
    BY <1>1, <1>2 DEF UserRecord
<1>7. \A k \in Keys \ {ConfiguredKey} : ks[k] = d.keys[k]
    BY <1>1
<1> HIDE DEF e, us, ks
<1>8. e \in Database
    BY <1>3, <1>4, <1>5 DEF Database
<1>9. /\ e.tasks = d.tasks /\ e.attempts = d.attempts /\ e.reports = d.reports /\ e.ledger = d.ledger
      /\ e.users = us /\ e.keys = ks
    BY <1>5, Fields
<1>10. RecordsOnly(d, e)
    BY <1>6, <1>7, <1>9 DEF RecordsOnly
<1>11. RecordsOnly(d, d)
    BY DEF RecordsOnly
<1>12. EnsureConfiguredClientKey(d) = d \/ EnsureConfiguredClientKey(d) = e
    BY DEF EnsureConfiguredClientKey, e
<1> QED BY <1>8, <1>10, <1>11, <1>12

\* Crash.
LEMMA CrashGood ==
    ASSUME IndInv, Crash, UNCHANGED edits PROVE Good
<1>1. /\ mem \in Database /\ disk \in Database /\ req \in [Tasks -> Request] /\ stranded \subseteq Tasks
      /\ live \subseteq Attempts /\ acked \subseteq Adjustments \cup Keys /\ edits \in 0..MaxEdits
      /\ count \in [saves : 0..MaxFailedSaves, crashes : 0..MaxCrashes]
    BY DEF IndInv, TypeOK
<1>2. UNCHANGED <<mem, disk, live, acked>> /\ alive /\ alive' = FALSE
    BY DEF Crash
<1>3. req' = [t \in Tasks |-> IF req[t].pc = "none" THEN req[t] ELSE [req[t] EXCEPT !.pc = "done"]]
    BY DEF Crash
<1>4. ASSUME NEW t \in Tasks
      PROVE  /\ req'[t] \in Request /\ req'[t].cost = req[t].cost /\ req'[t].n = req[t].n
             /\ req'[t].pc \in {"none", "done"} /\ (req[t].pc # "none" => req'[t].pc = "done")
  <2>1. req[t] \in Request
    BY <1>1
  <2>2. CASE req[t].pc = "none"
    BY <1>3, <2>1, <2>2
  <2>3. CASE req[t].pc # "none"
    <3>1. req'[t] = [req[t] EXCEPT !.pc = "done"]
      BY <1>3, <2>3
    <3> QED BY <2>1, <3>1 DEF Request
  <2> QED BY <2>2, <2>3
<1>5. req' \in [Tasks -> Request]
    BY <1>3, <1>4
<1>6. Later(req, req')
  <2>1. \A t \in Tasks : req[t].n \in Nat
    BY <1>1, LedgerConstants DEF Request
  <2> QED BY <1>4, <2>1 DEF Later
<1>7. DbOK(mem, req') /\ DbOK(disk, req')
    BY <1>1, <1>5, <1>6, LaterKeeps DEF IndInv
<1>8. DbOK(mem, req)' /\ DbOK(disk, req)'
    BY <1>2, <1>7 DEF DbOK, TasksOK, AttemptsOK, ChargesOK, BalancesOK, EntryOK, Debited
<1>9. count' \in [saves : 0..MaxFailedSaves, crashes : 0..MaxCrashes] /\ stranded' \subseteq Tasks
    BY <1>1, LedgerConstants DEF Crash
<1>10. TypeOK'
    BY <1>1, <1>2, <1>5, <1>9 DEF TypeOK
<1>11. RequestsOK'
    BY <1>4 DEF RequestsOK
<1>12. StrandedOK' /\ HeldBalanceIsServed'
    BY <1>2 DEF Crash, StrandedOK, HeldBalanceIsServed
<1>13. AckedIn(mem, acked)' /\ AckedIn(disk, acked)'
    BY <1>2 DEF IndInv, AckedIn, AdjustmentIn
<1>14. IsPrefix(disk'.ledger, mem'.ledger) /\ IsPrefix(disk.ledger, disk'.ledger)
    BY <1>1, <1>2, Fields, PrefixRules DEF IndInv
<1> QED BY <1>8, <1>10, <1>11, <1>12, <1>13, <1>14 DEF Good, IndInv

\* NewManager.
LEMMA RestartGood ==
    ASSUME IndInv, Restart, UNCHANGED edits PROVE Good
<1> DEFINE e == EnsureConfiguredClientKey(disk)
<1>1. /\ disk \in Database /\ req \in [Tasks -> Request] /\ acked \subseteq Adjustments \cup Keys
    BY DEF IndInv, TypeOK
<1>2. mem' = e /\ disk' = e /\ ~alive /\ alive' = TRUE /\ UNCHANGED <<req, live, acked, stranded, count>>
    BY DEF Restart
<1>3. e \in Database /\ RecordsOnly(disk, e)
    BY <1>1, EnsureEdits
<1> HIDE DEF e
<1>4. DbOK(e, req)
    BY <1>3, RecordsKeep DEF IndInv
<1>5. DbOK(mem, req)' /\ DbOK(disk, req)'
    BY <1>2, <1>4 DEF DbOK, TasksOK, AttemptsOK, ChargesOK, BalancesOK, EntryOK, Debited
<1>6. disk.ledger \in Seq(LedgerEntry) /\ e.ledger = disk.ledger
    BY <1>1, <1>3, Fields DEF RecordsOnly
<1>7. IsPrefix(disk'.ledger, mem'.ledger) /\ IsPrefix(disk.ledger, disk'.ledger)
    BY <1>2, <1>6, PrefixRules
<1>8. AckedIn(e, acked)
    BY <1>1, <1>2, <1>3, <1>7, AckedGrows DEF IndInv, RecordsOnly
<1>9. AckedIn(mem, acked)' /\ AckedIn(disk, acked)'
    BY <1>2, <1>8 DEF AckedIn, AdjustmentIn
<1>10. TypeOK'
    BY <1>2, <1>3 DEF IndInv, TypeOK
<1>11. RequestsOK'
    BY <1>2 DEF IndInv, RequestsOK
<1>12. HeldBalanceIsServed' /\ StrandedOK'
    BY <1>2, <1>3 DEF IndInv, StrandedOK, HeldBalanceIsServed, RecordsOnly
<1> QED BY <1>5, <1>7, <1>9, <1>10, <1>11, <1>12 DEF Good, IndInv

\* A database without tasks or entries is in order, whoever its users are.
LEMMA SetUpOK ==
    ASSUME NEW s \in SetUps, NEW r
    PROVE  DbOK(SetUpDatabase(s), r)
<1> DEFINE z == EnsureConfiguredClientKey(EmptyDatabase)
           us == [u \in Users |-> [z.users[u] EXCEPT !.exists = z.users[u].exists \/ u \in s.users]]
           ks == [k \in Keys |-> IF k \in s.keys THEN "active" ELSE z.keys[k]]
           d == [z EXCEPT !.users = us, !.keys = ks, !.owner = s.owner]
<1>1. EmptyDatabase \in Database
  <2>1. [u \in Users |-> [exists |-> FALSE, disabled |-> FALSE, balance |-> 0]] \in [Users -> UserRecord]
    BY DEF UserRecord
  <2>2. [t \in Tasks |-> [status |-> "none", user |-> NoUser, cost |-> 0]] \in [Tasks -> TaskRecord]
    BY DEF TaskRecord, TaskStatus
  <2>3. [a \in Attempts |-> [status |-> "none", cost |-> 0]] \in [Attempts -> AttemptRecord]
    BY DEF AttemptRecord, TaskStatus
  <2>4. <<>> \in Seq(LedgerEntry)
    OBVIOUS
  <2> QED BY <2>1, <2>2, <2>3, <2>4 DEF EmptyDatabase, Database
<1>2. z \in Database /\ RecordsOnly(EmptyDatabase, z)
    BY <1>1, EnsureEdits
<1> HIDE DEF z
<1>3. /\ \A t \in Tasks : z.tasks[t].status = "none"
      /\ \A a \in Attempts : z.attempts[a].status = "none" /\ z.reports[a] = "none"
      /\ z.ledger = <<>> /\ \A u \in Users : z.users[u].balance = 0
    BY <1>2 DEF RecordsOnly, EmptyDatabase
<1>4. /\ z.users \in [Users -> UserRecord] /\ z.keys \in [Keys -> {"none", "active", "revoked"}]
    BY <1>2, Fields
<1>5. ASSUME NEW u \in Users PROVE us[u] \in UserRecord /\ us[u].balance = z.users[u].balance
  <2>1. us[u] = [z.users[u] EXCEPT !.exists = (z.users[u].exists \/ u \in s.users)]
    OBVIOUS
  <2>2. (z.users[u].exists \/ u \in s.users) \in BOOLEAN
    OBVIOUS
  <2> QED BY <1>4, <2>1, <2>2 DEF UserRecord
<1>6. us \in [Users -> UserRecord] /\ ks \in [Keys -> {"none", "active", "revoked"}]
    BY <1>4, <1>5
<1>7. s.owner \in Users \cup {NoUser}
    BY LedgerConstants
<1> HIDE DEF us, ks
<1>8. d \in Database
    BY <1>2, <1>6, <1>7 DEF Database
<1>9. /\ d.users = us /\ d.ledger = z.ledger /\ d.tasks = z.tasks /\ d.attempts = z.attempts
      /\ d.reports = z.reports
    BY <1>2, Fields
<1> HIDE DEF d
<1>10. TasksOK(d, r) /\ AttemptsOK(d, r)
    BY <1>3, <1>9 DEF TasksOK, AttemptsOK
<1>11. DOMAIN d.ledger = {}
    BY <1>3, <1>9
<1>12. ChargesOK(d)
    BY <1>3, <1>9, <1>11 DEF ChargesOK, Debited
<1>13. BalancesOK(d)
    BY <1>3, <1>5, <1>9, LedgerSumEmpty DEF BalancesOK
<1>14. DbOK(d, r)
    BY <1>8, <1>10, <1>12, <1>13 DEF DbOK
<1>15. d = SetUpDatabase(s)
    BY DEF SetUpDatabase, d, us, ks, z
<1> QED BY <1>14, <1>15

\* The initial states satisfy the invariant.
LEMMA InitOK == Init => IndInv
<1> SUFFICES ASSUME Init PROVE IndInv
    OBVIOUS
<1>1. PICK s \in SetUps : mem = SetUpDatabase(s)
    BY DEF Init
<1>2. DbOK(mem, req) /\ disk = mem
    BY <1>1, SetUpOK DEF Init
<1>3. mem \in Database
    BY <1>2 DEF DbOK
<1>4. TypeOK
    BY <1>2, <1>3, LedgerConstants DEF Init, TypeOK, Request
<1>5. RequestsOK /\ StrandedOK
    BY DEF Init, RequestsOK, StrandedOK
<1>6. HeldBalanceIsServed
    BY DEF Init, HeldBalanceIsServed
<1>7. AckedIn(mem, acked)
    BY DEF Init, AckedIn
<1>8. IsPrefix(mem.ledger, mem.ledger)
    BY <1>3, Fields, PrefixRules
<1> QED BY <1>2, <1>4, <1>5, <1>6, <1>7, <1>8 DEF IndInv

-----------------------------------------------------------------------------
(* The step *)

\* upsertAdminNode sets the owner, a registration takes it away.
LEMMA SetOwnerGood ==
    ASSUME IndInv, NEW u \in Users, SetOwner(u) PROVE Good
<1>1. edits \in 0..MaxEdits
    BY DEF IndInv, TypeOK
<1>2. PICK ok \in BOOLEAN : Update([mem EXCEPT !.owner = u], ok)
    BY DEF SetOwner, Edit
<1>3. UNCHANGED <<alive, req, live, acked, stranded>> /\ edits' \in 0..MaxEdits
    BY <1>1, LedgerConstants DEF SetOwner, Edit
<1>4. u \in Users \cup {NoUser}
    OBVIOUS
<1> QED BY <1>2, <1>3, <1>4, OwnerGood

LEMMA RegisterGood ==
    ASSUME IndInv, Register, UNCHANGED edits PROVE Good
<1>1. edits' \in 0..MaxEdits
    BY DEF IndInv, TypeOK
<1>2. PICK ok \in BOOLEAN : Update([mem EXCEPT !.owner = NoUser], ok)
    BY DEF Register
<1>3. UNCHANGED <<alive, req, live, acked, stranded>>
    BY DEF Register
<1>4. NoUser \in Users \cup {NoUser}
    OBVIOUS
<1> QED BY <1>1, <1>2, <1>3, <1>4, OwnerGood

\* A step that changes nothing.
LEMMA StutterGood ==
    ASSUME IndInv, UNCHANGED vars PROVE Good
<1>1. UNCHANGED <<mem, disk, alive, acked, count, edits>> /\ req' = req /\ live' = live
      /\ stranded' = stranded
    BY DEF vars
<1>2. req \in [Tasks -> Request] /\ live \subseteq Attempts
    BY DEF IndInv, TypeOK
<1>3. Later(req, req')
    BY <1>1, <1>2, LedgerConstants DEF Later, Request
<1>4. RequestsOK' /\ HeldBalanceIsServed'
    BY <1>1 DEF IndInv, RequestsOK, HeldBalanceIsServed
<1> QED BY <1>1, <1>2, <1>3, <1>4, NoUpdateGood

\* Every step keeps the invariant and the saved ledger.
LEMMA StepGood == IndInv /\ [Next]_vars => Good
<1> SUFFICES ASSUME IndInv, [Next]_vars PROVE Good
    OBVIOUS
<1>1. CASE AdminEdit
  <2>1. CASE \E u \in Users : CreateUser(u) \/ SetOwner(u) \/ \E b \in BOOLEAN : UpdateUser(u, b)
    BY <2>1, CreateUserGood, SetOwnerGood, UpdateUserGood
  <2>2. CASE \E k \in Keys : IssueAPIKey(k) \/ RevokeAPIKey(k)
    BY <2>2, IssueAPIKeyGood, RevokeAPIKeyGood
  <2>3. CASE \E c \in Costs : SetProfileComputeCost(c)
    BY <2>3, SetProfileComputeCostGood
  <2>4. CASE \E i \in Adjustments : Adjust(i)
    BY <2>4, AdjustGood
  <2> QED BY <1>1, <2>1, <2>2, <2>3, <2>4 DEF AdminEdit
<1>2. CASE Crash /\ UNCHANGED edits
    BY <1>2, CrashGood
<1>3. CASE Restart /\ UNCHANGED edits
    BY <1>3, RestartGood
<1>4. CASE Register /\ UNCHANGED edits
    BY <1>4, RegisterGood
<1>5. ASSUME NEW t \in Tasks, RequestStep(t), UNCHANGED edits PROVE Good
  <2>1. CASE \E k \in Keys : Authenticate(t, k)
    BY <1>5, <2>1, AuthenticateGood
  <2>2. CASE CreateChatTask(t)
    BY <1>5, <2>2, CreateChatTaskGood
  <2>3. CASE BeginAttempt(t)
    BY <1>5, <2>3, BeginAttemptGood
  <2>4. CASE Dispatch(t)
    BY <1>5, <2>4, DispatchGood
  <2>5. CASE DispatchFails(t)
    BY <1>5, <2>5, DispatchFailsGood
  <2>6. CASE NoCapacity(t)
    BY <1>5, <2>6, NoCapacityGood
  <2>7. CASE StartCancelled(t)
    BY <1>5, <2>7, StartCancelledGood
  <2>8. CASE \E gone \in BOOLEAN : CancelTask(t, gone)
    BY <1>5, <2>8, CancelTaskGood
  <2> QED BY <1>5, <2>1, <2>2, <2>3, <2>4, <2>5, <2>6, <2>7, <2>8 DEF RequestStep
<1>6. ASSUME NEW a \in Attempts, WorkerStep(a), UNCHANGED edits PROVE Good
  <2>1. CASE Lose(a)
    BY <1>6, <2>1, LoseGood
  <2>2. CASE \E retry \in BOOLEAN : FailAttempt(a, retry)
    BY <1>6, <2>2, FailAttemptGood
  <2>3. CASE \E retry \in BOOLEAN, st \in {"completed", "failed", "cancelled"} :
                HandleComputeReport(a, st, retry)
    BY <1>6, <2>3, HandleComputeReportGood
  <2> QED BY <1>6, <2>1, <2>2, <2>3 DEF WorkerStep
<1>7. CASE UNCHANGED vars
    BY <1>7, StutterGood
<1> QED BY <1>1, <1>2, <1>3, <1>4, <1>5, <1>6, <1>7 DEF Next

\* The invariant is one of the specification.
LEMMA Inductive == Spec => []IndInv
<1>1. IndInv /\ [Next]_vars => IndInv'
    BY StepGood DEF Good
<1> QED BY InitOK, <1>1, PTL DEF Spec

-----------------------------------------------------------------------------
(* Results *)

\* What the program keeps in memory and on disk, its requests and the history
\* are always of their types: no step of the admin API, of a request, of a
\* Worker or of a restart takes them out of it.
THEOREM LedgerTypeCorrect == Spec => []TypeOK
<1>1. IndInv => TypeOK
    BY DEF IndInv
<1> QED BY Inductive, <1>1, PTL

\* appendLedgerEntry, updateUser and the store together: the balance cached in a
\* user's record is what the user's entries add up to, in memory and on disk.
THEOREM BalancesAreLedgers == Spec => []BalanceIsLedger
<1>1. IndInv => BalanceIsLedger
    BY DEF IndInv, DbOK, BalancesOK, BalanceIsLedger
<1> QED BY Inductive, <1>1, PTL

\* failTask, cancelTask, reports: a pending task is served or recorded as stranded.
THEOREM HeldBalanceServed == Spec => []HeldBalanceIsServed
<1>1. IndInv => HeldBalanceIsServed
    BY DEF IndInv
<1> QED BY Inductive, <1>1, PTL

\* Store.Update: what was answered with success is on disk.
THEOREM AcknowledgedDurable == Spec => []AcknowledgedIsDurable
<1>1. IndInv => AcknowledgedIsDurable
    BY DEF IndInv, AckedIn, AdjustmentIn, AcknowledgedIsDurable
<1> QED BY Inductive, <1>1, PTL

\* Store.Update and Load: the saved ledger only grows at its end.
THEOREM SavedLedgerGrows == Spec => LedgerAppendOnly
<1>1. IndInv /\ [Next]_vars => [IsPrefix(disk.ledger, disk'.ledger)]_vars
    BY StepGood DEF Good
<1> QED BY Inductive, <1>1, PTL DEF Spec, LedgerAppendOnly

\* The entries a report of an attempt has made, in a state that is in order.
LEMMA ChargesInOrder ==
    ASSUME IndInv, NEW a \in Attempts, NEW type \in {"consume_compute", "produce_compute"}
    PROVE  /\ IsFiniteSet(EntriesOf(a, type)) /\ Cardinality(EntriesOf(a, type)) \in {0, 1}
           /\ \A i \in EntriesOf(a, type) :
                /\ mem.ledger[i].type = type /\ mem.ledger[i].report = a
                /\ EntryOK(mem, mem.ledger[i])
<1>1. ChargesOK(mem)
    BY DEF IndInv, DbOK
<1>2. \A i \in EntriesOf(a, type) :
        /\ i \in DOMAIN mem.ledger /\ mem.ledger[i].type = type /\ mem.ledger[i].report = a
        /\ EntryOK(mem, mem.ledger[i])
    BY <1>1 DEF EntriesOf, ChargesOK
<1>3. \A i, j \in EntriesOf(a, type) : i = j
    BY <1>1, <1>2 DEF ChargesOK, SameCharge, IsCharge
<1>4. CASE EntriesOf(a, type) = {}
    BY <1>2, <1>4, FS_EmptySet
<1>5. CASE EntriesOf(a, type) # {}
  <2>1. PICK i : EntriesOf(a, type) = {i}
    BY <1>3, <1>5
  <2> QED BY <1>2, <2>1, FS_Singleton
<1> QED BY <1>4, <1>5

\* applyReportAccounting: an attempt is debited once, at the price its request was
\* admitted with, exactly when its stored report is a completed one that costs.
THEOREM ChargesAreReports == Spec => []ChargesFollowReports
<1>1. ASSUME IndInv PROVE ChargesFollowReports
  <2> SUFFICES ASSUME NEW a \in Attempts
      PROVE  LET price == mem.attempts[a].cost
                 owed == mem.reports[a] = "completed" /\ price > 0
                 debits == EntriesOf(a, "consume_compute")
                 credits == EntriesOf(a, "produce_compute")
             IN  /\ Cardinality(debits) = IF owed THEN 1 ELSE 0
                 /\ Cardinality(credits) <= IF owed THEN 1 ELSE 0
                 /\ \A i \in debits \cup credits : mem.ledger[i].amount = req[TaskOf(a)].cost
                 /\ \A i \in debits : mem.ledger[i].user = mem.tasks[TaskOf(a)].user
    BY DEF ChargesFollowReports
  <2> DEFINE owed == mem.reports[a] = "completed" /\ mem.attempts[a].cost > 0
             debits == EntriesOf(a, "consume_compute")
             credits == EntriesOf(a, "produce_compute")
  <2>1. /\ IsFiniteSet(debits) /\ Cardinality(debits) \in {0, 1}
        /\ \A i \in debits : /\ mem.ledger[i].type = "consume_compute" /\ mem.ledger[i].report = a
                             /\ EntryOK(mem, mem.ledger[i])
    BY <1>1, ChargesInOrder
  <2>2. /\ IsFiniteSet(credits) /\ Cardinality(credits) \in {0, 1}
        /\ \A i \in credits : /\ mem.ledger[i].type = "produce_compute" /\ mem.ledger[i].report = a
                              /\ EntryOK(mem, mem.ledger[i])
    BY <1>1, ChargesInOrder
  <2>3. owed => debits # {}
    BY <1>1 DEF IndInv, DbOK, ChargesOK, Debited, EntriesOf
  <2> HIDE DEF debits, credits
  <2>4. \A i \in debits \cup credits : owed /\ mem.ledger[i].amount = mem.attempts[a].cost
    BY <2>1, <2>2 DEF EntryOK, IsCharge
  <2>5. \A i \in debits : mem.ledger[i].user = mem.tasks[TaskOf(a)].user
    BY <2>1 DEF EntryOK, IsCharge
  <2>6. owed => mem.attempts[a].cost = req[TaskOf(a)].cost
    BY <1>1 DEF IndInv, DbOK, AttemptsOK
  <2>7. Cardinality(debits) = IF owed THEN 1 ELSE 0
    BY <2>1, <2>3, <2>4, FS_EmptySet
  <2>8. Cardinality(credits) <= IF owed THEN 1 ELSE 0
    BY <2>2, <2>4, FS_EmptySet
  <2> QED BY <2>4, <2>5, <2>6, <2>7, <2>8 DEF debits, credits
<1> QED BY Inductive, <1>1, PTL

-----------------------------------------------------------------------------
(* What a user can still spend *)

\* A step leaves the user able to pay, or is one of the three exceptions.
Covered(u) ==
    Available(u) >= 0 /\ Available(u)' < 0 => AdminDebit(u) \/ LateCharge(u) \/ Revived(u)

\* Balances and what tasks hold are whole numbers, before and after a step.
LEMMA AvailableType ==
    ASSUME mem \in Database, mem' \in Database, NEW u \in Users
    PROVE  /\ mem.users[u].balance \in Int /\ mem'.users[u].balance \in Int
           /\ PendingComputeCost(mem, u) \in Nat /\ PendingComputeCost(mem', u) \in Nat
           /\ \A t \in Tasks : Held(mem, u)[t] \in Nat /\ Held(mem', u)[t] \in Nat
           /\ Available(u) = mem.users[u].balance - PendingComputeCost(mem, u)
           /\ Available(u)' = mem'.users[u].balance - PendingComputeCost(mem', u)
<1>1. mem.users \in [Users -> UserRecord] /\ mem'.users \in [Users -> UserRecord]
    BY Fields
<1>2. mem.tasks \in [Tasks -> TaskRecord] /\ mem'.tasks \in [Tasks -> TaskRecord]
    BY Fields
<1>3. mem.users[u].balance \in Int /\ mem'.users[u].balance \in Int
    BY <1>1 DEF UserRecord
<1>4. PendingComputeCost(mem, u) \in Nat /\ PendingComputeCost(mem', u) \in Nat
    BY <1>2, PendingType
<1>5. \A t \in Tasks : Held(mem, u)[t] \in Nat /\ Held(mem', u)[t] \in Nat
    BY <1>2, HeldType
<1>6. /\ Available(u) = mem.users[u].balance - PendingComputeCost(mem, u)
      /\ Available(u)' = mem'.users[u].balance - PendingComputeCost(mem', u)
    BY DEF Available
<1> QED BY <1>3, <1>4, <1>5, <1>6

\* The tasks alone decide what is pending.
LEMMA PendingSame ==
    ASSUME NEW d, NEW e, e.tasks = d.tasks, NEW u
    PROVE  PendingComputeCost(e, u) = PendingComputeCost(d, u)
<1>1. PICK sd : /\ IsSum(sd, Tasks, AnyOf(Tasks), Held(d, u))
                /\ PendingComputeCost(d, u) = sd[Tasks]
    BY PendingIsSum
<1>2. PICK se : /\ IsSum(se, Tasks, AnyOf(Tasks), Held(e, u))
                /\ PendingComputeCost(e, u) = se[Tasks]
    BY PendingIsSum
<1>3. Held(e, u) = Held(d, u)
    BY DEF Held
<1>4. IsFiniteSet(Tasks) /\ Tasks \subseteq Tasks /\ Tasks \in SUBSET Tasks
    BY LedgerConstants
<1>5. se[Tasks] = sd[Tasks]
    BY <1>1, <1>2, <1>3, <1>4, AnyOfPicks, SumExtends
<1> QED BY <1>1, <1>2, <1>5

\* A step that leaves the tasks alone and takes nothing off a balance.
LEMMA RecordsCovered ==
    ASSUME mem \in Database, mem' \in Database, NEW u \in Users,
           mem'.tasks = mem.tasks, mem'.users[u].balance >= mem.users[u].balance
    PROVE  Covered(u)
<1>1. PendingComputeCost(mem', u) = PendingComputeCost(mem, u)
    BY PendingSame
<1> QED BY <1>1, AvailableType DEF Covered

\* A step that changes one task: what becomes of its user's means.
LEMMA AvailableChange ==
    ASSUME mem \in Database, mem' \in Database, NEW u \in Users, NEW t \in Tasks,
           \A x \in Tasks : x # t => mem'.tasks[x] = mem.tasks[x]
    PROVE  Available(u)' = Available(u) + (mem'.users[u].balance - mem.users[u].balance)
                                        - (Held(mem', u)[t] - Held(mem, u)[t])
<1>1. mem.tasks \in [Tasks -> TaskRecord] /\ mem'.tasks \in [Tasks -> TaskRecord]
    BY Fields
<1>2. PendingComputeCost(mem', u) = PendingComputeCost(mem, u) + (Held(mem', u)[t] - Held(mem, u)[t])
    BY <1>1, PendingChange
<1> QED BY <1>2, AvailableType

\* A step that changes the state of one task there is, and takes nothing off a
\* balance: the task held its cost before, or holds nothing now, or is revived.
LEMMA StatusCovered ==
    ASSUME mem \in Database, mem' \in Database, NEW u \in Users, NEW t \in Tasks,
           \A x \in Tasks : x # t => mem'.tasks[x] = mem.tasks[x],
           mem.tasks[t].status # "none",
           mem'.tasks[t].user = mem.tasks[t].user, mem'.tasks[t].cost = mem.tasks[t].cost,
           mem'.users[u].balance >= mem.users[u].balance
    PROVE  Covered(u)
<1>1. mem.tasks[t] \in TaskRecord
    BY Fields
<1>2. CASE mem.tasks[t].status \in Pending \/ mem'.tasks[t].status \notin Pending \/ mem.tasks[t].user # u
  <2>1. Held(mem', u)[t] <= Held(mem, u)[t]
    BY <1>1, <1>2 DEF Held, TaskRecord
  <2>2. Available(u)' = Available(u) + (mem'.users[u].balance - mem.users[u].balance)
                                     - (Held(mem', u)[t] - Held(mem, u)[t])
    BY AvailableChange
  <2> QED BY <2>1, <2>2, AvailableType DEF Covered
<1>3. CASE mem.tasks[t].status \notin Pending /\ mem'.tasks[t].status \in Pending /\ mem.tasks[t].user = u
  <2>1. mem.tasks[t].status \in Terminal
    BY <1>1, <1>3 DEF TaskRecord, TaskStatus, Pending, Terminal
  <2>2. Revived(u)
    BY <1>3, <2>1 DEF Revived
  <2> QED BY <2>2 DEF Covered
<1> QED BY <1>2, <1>3

\* Edits of records, registrations and requests that only authenticate.
LEMMA EditCovered ==
    ASSUME IndInv, Good, NEW u \in Users,
           \/ \E v \in Users : CreateUser(v) \/ SetOwner(v) \/ \E b \in BOOLEAN : UpdateUser(v, b)
           \/ \E k \in Keys : IssueAPIKey(k) \/ RevokeAPIKey(k)
           \/ \E c \in Costs : SetProfileComputeCost(c)
           \/ Register
           \/ \E t \in Tasks, k \in Keys : Authenticate(t, k)
    PROVE  Covered(u)
<1>1. mem \in Database /\ mem' \in Database
    BY DEF IndInv, Good, TypeOK
<1>2. mem.users \in [Users -> UserRecord] /\ mem.users[u].balance \in Int
    BY <1>1, Fields DEF UserRecord
<1>3. mem'.tasks = mem.tasks /\ mem'.users[u].balance = mem.users[u].balance
  <2>1. ASSUME NEW v \in Users, CreateUser(v)
        PROVE  mem'.tasks = mem.tasks /\ mem'.users[u].balance = mem.users[u].balance
    <3>1. mem' = [mem EXCEPT !.users[v].exists = TRUE]
      BY <2>1 DEF CreateUser, Edit, Update
    <3> QED BY <1>1, <1>2, <3>1, Fields DEF UserRecord
  <2>2. ASSUME NEW v \in Users, NEW b \in BOOLEAN, UpdateUser(v, b)
        PROVE  mem'.tasks = mem.tasks /\ mem'.users[u].balance = mem.users[u].balance
    <3>1. mem' = [mem EXCEPT !.users[v].disabled = b]
      BY <2>2 DEF UpdateUser, Edit, Update
    <3> QED BY <1>1, <1>2, <3>1, Fields DEF UserRecord
  <2>3. ASSUME NEW v \in Users \cup {NoUser}, mem' = [mem EXCEPT !.owner = v]
        PROVE  mem'.tasks = mem.tasks /\ mem'.users[u].balance = mem.users[u].balance
    BY <1>1, <2>3, Fields
  <2>4. ASSUME NEW k \in Keys, NEW x, mem' = [mem EXCEPT !.keys[k] = x]
        PROVE  mem'.tasks = mem.tasks /\ mem'.users[u].balance = mem.users[u].balance
    BY <1>1, <2>4, Fields
  <2>5. ASSUME NEW c, mem' = [mem EXCEPT !.cost = c]
        PROVE  mem'.tasks = mem.tasks /\ mem'.users[u].balance = mem.users[u].balance
    BY <1>1, <2>5, Fields
  <2>6. \A v \in Users : SetOwner(v) => mem' = [mem EXCEPT !.owner = v]
    BY DEF SetOwner, Edit, Update
  <2>7. Register => mem' = [mem EXCEPT !.owner = NoUser]
    BY DEF Register, Update
  <2>8. \A k \in Keys : /\ IssueAPIKey(k) => mem' = [mem EXCEPT !.keys[k] = "active"]
                        /\ RevokeAPIKey(k) => mem' = [mem EXCEPT !.keys[k] = "revoked"]
    BY DEF IssueAPIKey, RevokeAPIKey, Edit, Update
  <2>9. \A c \in Costs : SetProfileComputeCost(c) => mem' = [mem EXCEPT !.cost = c]
    BY DEF SetProfileComputeCost, Edit, Update
  <2>10. \A t \in Tasks, k \in Keys : Authenticate(t, k) => mem' = mem
    BY DEF Authenticate, Update
  <2> QED BY <2>1, <2>2, <2>3, <2>4, <2>5, <2>6, <2>7, <2>8, <2>9, <2>10
<1> QED BY <1>1, <1>2, <1>3, RecordsCovered

\* An admin's credit adds to the balance, a debit is one of the exceptions.
LEMMA AdjustCovered ==
    ASSUME IndInv, Good, NEW u \in Users, NEW i \in Adjustments, Adjust(i) PROVE Covered(u)
<1> DEFINE e == AdjustmentEntry(i)
<1>1. mem \in Database /\ mem' \in Database
    BY DEF IndInv, Good, TypeOK
<1>2. e \in LedgerEntry
    BY AdjustmentEntryType
<1>3. mem' = AppendLedgerEntry(mem, e)
    BY DEF Adjust, AdjustmentEntry, Update
<1>4. e.type = "admin_adjustment" /\ e.user = i.user /\ e.direction \in {"debit", "credit"} /\ e.amount \in Nat
    BY <1>2 DEF AdjustmentEntry, LedgerEntry
<1> HIDE DEF e
<1>5. /\ mem'.ledger = Append(mem.ledger, e) /\ mem'.tasks = mem.tasks
      /\ mem'.users[u].balance = mem.users[u].balance + Worth(e, u)
    BY <1>1, <1>2, <1>3, AppendFields
<1>6. CASE e.direction = "debit" /\ e.user = u
  <2>1. mem.ledger \in Seq(LedgerEntry)
    BY <1>1, Fields
  <2>2. Len(mem'.ledger) > Len(mem.ledger) /\ Last(mem'.ledger) = e
    BY <1>2, <1>5, <2>1 DEF Last
  <2> QED BY <1>4, <1>6, <2>2 DEF AdminDebit, Covered
<1>7. CASE ~(e.direction = "debit" /\ e.user = u)
  <2>1. Worth(e, u) >= 0 /\ Worth(e, u) \in Int
    BY <1>2, <1>4, <1>7, WorthType DEF Worth
  <2>2. mem'.users[u].balance >= mem.users[u].balance
    BY <1>1, <1>5, <2>1, AvailableType
  <2> QED BY <1>1, <1>5, <2>2, RecordsCovered
<1> QED BY <1>6, <1>7

\* ensureSufficientAvailableBalance: the new task holds no more than there is.
LEMMA CreateChatTaskCovered ==
    ASSUME IndInv, Good, Enforce, NEW u \in Users, NEW t \in Tasks, CreateChatTask(t) PROVE Covered(u)
<1> DEFINE x == [status |-> "queued", user |-> req[t].user, cost |-> req[t].cost]
<1>1. mem \in Database /\ mem' \in Database /\ req \in [Tasks -> Request]
    BY DEF IndInv, Good, TypeOK
<1>2. mem.tasks[t].status = "none" /\ req[t].cost \in Nat
    BY <1>1 DEF CreateChatTask, IndInv, DbOK, TasksOK, Request
<1>3. CASE ~EnsureSufficientAvailableBalance(mem, req[t].user, req[t].cost)
  <2>1. mem' = mem
    BY <1>3 DEF CreateChatTask
  <2> QED BY <1>1, <2>1, AvailableType, RecordsCovered
<1>4. CASE EnsureSufficientAvailableBalance(mem, req[t].user, req[t].cost)
  <2>1. mem' = [mem EXCEPT !.tasks[t] = x]
    BY <1>4 DEF CreateChatTask, Update
  <2>2. mem.tasks \in [Tasks -> TaskRecord]
    BY <1>1, Fields
  <2>3. /\ mem'.users = mem.users /\ mem'.tasks[t] = x
        /\ \A y \in Tasks : y # t => mem'.tasks[y] = mem.tasks[y]
    BY <1>1, <2>1, <2>2, Fields
  <2>4. Held(mem, u)[t] = 0
    BY <1>2 DEF Held, Pending
  <2>5. Held(mem', u)[t] = IF req[t].user = u THEN req[t].cost ELSE 0
    BY <2>3 DEF Held, Pending
  <2>6. Available(u)' = Available(u) + (mem'.users[u].balance - mem.users[u].balance)
                                     - (Held(mem', u)[t] - Held(mem, u)[t])
    BY <1>1, <2>3, AvailableChange
  <2>7. req[t].user = u => req[t].cost = 0 \/ Available(u) >= req[t].cost
    BY <1>2, <1>4 DEF EnsureSufficientAvailableBalance, Available
  <2> QED BY <1>1, <1>2, <2>3, <2>4, <2>5, <2>6, <2>7, AvailableType DEF Covered
<1> QED BY <1>3, <1>4

\* A database with other states takes nothing off a balance.
LEMMA StatesCovered ==
    ASSUME mem \in Database, mem' \in Database, StatusOnly(mem, mem'), NEW t \in Tasks,
           mem.tasks[t].status # "none",
           \A x \in Tasks : x # t => mem'.tasks[x] = mem.tasks[x], NEW u \in Users
    PROVE  Covered(u)
<1>1. mem.users[u].balance \in Int /\ mem'.users[u].balance = mem.users[u].balance
    BY AvailableType DEF StatusOnly
<1>2. mem'.users[u].balance >= mem.users[u].balance
    BY <1>1
<1>3. mem'.tasks[t].user = mem.tasks[t].user /\ mem'.tasks[t].cost = mem.tasks[t].cost
    BY DEF StatusOnly
<1> QED BY <1>2, <1>3, StatusCovered

\* The ends of a request and of an attempt.
LEMMA EndsCovered ==
    ASSUME IndInv, Good, NEW u \in Users, NEW t \in Tasks,
           NoCapacity(t) \/ (\E gone \in BOOLEAN : CancelTask(t, gone)) \/ DispatchFails(t)
    PROVE  Covered(u)
<1>1. mem \in Database /\ mem' \in Database
    BY DEF IndInv, Good, TypeOK
<1>2. mem.tasks[t].status # "none"
    BY DEF NoCapacity, CancelTask, DispatchFails, IndInv, RequestsOK
<1>3. mem.tasks[t].status \in TaskStatus
    BY <1>1, Fields DEF TaskRecord
<1>4. ASSUME NEW s \in TaskStatus \ {"none"}, mem' = [mem EXCEPT !.tasks[t].status = s] PROVE Covered(u)
  <2>1. StatusOnly(mem, mem') /\ \A x \in Tasks : x # t => mem'.tasks[x] = mem.tasks[x]
    BY <1>1, <1>2, <1>4, TaskState
  <2> QED BY <1>1, <1>2, <2>1, StatesCovered
<1>5. CASE NoCapacity(t)
  <2> DEFINE s == IF mem.tasks[t].status \in Terminal THEN mem.tasks[t].status ELSE "failed"
  <2>1. mem' = [mem EXCEPT !.tasks[t].status = s] /\ s \in TaskStatus \ {"none"}
    BY <1>2, <1>3, <1>5 DEF NoCapacity, FailTask, Update, TaskStatus
  <2> HIDE DEF s
  <2> QED BY <1>4, <2>1
<1>6. CASE \E gone \in BOOLEAN : CancelTask(t, gone)
  <2> DEFINE s == IF mem.tasks[t].status \in Terminal THEN mem.tasks[t].status ELSE "cancelled"
  <2>1. mem' = [mem EXCEPT !.tasks[t].status = s] /\ s \in TaskStatus \ {"none"}
    BY <1>2, <1>3, <1>6 DEF CancelTask, Update, TaskStatus
  <2> HIDE DEF s
  <2> QED BY <1>4, <2>1
<1>7. CASE DispatchFails(t)
  <2> DEFINE a == <<t, req[t].n>>
  <2>1. TaskOf(a) = t
    BY DEF TaskOf
  <2>2. mem' = WithStates(mem, a, "queued", "failed")
    BY <1>7, <2>1 DEF DispatchFails, WithStates, Update
  <2>3. a \in Attempts /\ mem.attempts[a].status # "none"
    BY <1>7 DEF DispatchFails, IndInv, RequestsOK
  <2> HIDE DEF a
  <2>4. "queued" \in TaskStatus \ {"none"} /\ "failed" \in TaskStatus \ {"none"}
    BY DEF TaskStatus
  <2>5. StatusOnly(mem, mem') /\ \A x \in Tasks : x # t => mem'.tasks[x] = mem.tasks[x]
    BY <1>1, <1>2, <2>1, <2>2, <2>3, <2>4, AttemptState
  <2> QED BY <1>1, <1>2, <2>5, StatesCovered
<1> QED BY <1>5, <1>6, <1>7

LEMMA FailAttemptCovered ==
    ASSUME IndInv, Good, NEW u \in Users, NEW a \in Attempts, NEW retry \in BOOLEAN, FailAttempt(a, retry)
    PROVE  Covered(u)
<1> DEFINE s == IF retry THEN "queued" ELSE "failed"
<1>1. mem \in Database /\ mem' \in Database /\ TaskOf(a) \in Tasks
    BY DEF IndInv, Good, TypeOK, Attempts, TaskOf
<1>2. mem.attempts[a].status # "none"
    BY DEF FailAttempt
<1>3. mem.tasks[TaskOf(a)].status # "none"
    BY <1>2 DEF IndInv, DbOK, AttemptsOK
<1>4. mem' = [mem EXCEPT !.attempts[a].status = "failed", !.tasks[TaskOf(a)].status = s]
    BY DEF FailAttempt, Update
<1>5. mem' = WithStates(mem, a, s, "failed")
    BY <1>1, <1>4, Fields DEF WithStates
<1>6. s \in TaskStatus \ {"none"} /\ "failed" \in TaskStatus \ {"none"}
    BY DEF TaskStatus
<1> HIDE DEF s
<1>7. StatusOnly(mem, mem') /\ \A x \in Tasks : x # TaskOf(a) => mem'.tasks[x] = mem.tasks[x]
    BY <1>1, <1>2, <1>3, <1>5, <1>6, AttemptState
<1> QED BY <1>1, <1>3, <1>7, StatesCovered

\* reserveAttemptSlot: the task runs at the cost it was queued with.
LEMMA BeginAttemptCovered ==
    ASSUME IndInv, Good, NEW u \in Users, NEW t \in Tasks, BeginAttempt(t) PROVE Covered(u)
<1> DEFINE a == <<t, req[t].n + 1>>
           y == [status |-> "running", cost |-> req[t].cost]
<1>1. mem \in Database /\ mem' \in Database
    BY DEF IndInv, Good, TypeOK
<1>2. mem.tasks[t].status # "none"
    BY DEF BeginAttempt
<1>3. mem.tasks[t].cost = req[t].cost
    BY <1>2 DEF IndInv, DbOK, TasksOK
<1>4. mem' = [mem EXCEPT !.tasks[t].status = "running", !.tasks[t].cost = req[t].cost, !.attempts[a] = y]
    BY DEF BeginAttempt, Reserved, Update
<1> HIDE DEF a, y
<1>5. mem.tasks \in [Tasks -> TaskRecord]
    BY <1>1, Fields
<1>6. mem'.users = mem.users
      /\ mem'.tasks = [mem.tasks EXCEPT ![t].status = "running", ![t].cost = req[t].cost]
    BY <1>1, <1>4, Fields
<1>7. /\ mem'.tasks[t].user = mem.tasks[t].user /\ mem'.tasks[t].cost = mem.tasks[t].cost
      /\ \A x \in Tasks : x # t => mem'.tasks[x] = mem.tasks[x]
    BY <1>3, <1>5, <1>6 DEF TaskRecord
<1>8. mem'.users[u].balance >= mem.users[u].balance
    BY <1>1, <1>6, AvailableType
<1> QED BY <1>1, <1>2, <1>7, <1>8, StatusCovered

\* A report takes off a balance what its attempt costs its user, and no more.
LEMMA AccountingTakes ==
    ASSUME NEW d, NEW r, DbOK(d, r), NEW a \in Attempts, d.attempts[a].status # "none",
           d.reports[a] = "none", Due(d, a, "completed"), NEW u \in Users
    PROVE  ApplyReportAccounting(d, a, "completed").users[u].balance >=
             IF u = d.tasks[TaskOf(a)].user THEN d.users[u].balance - d.attempts[a].cost
             ELSE d.users[u].balance
<1> DEFINE t == TaskOf(a)
           f == ApplyReportAccounting(d, a, "completed")
           g == AppendConsumptionLedger(d, a)
           c == ConsumeEntry(d, a)
           p == ProduceEntry(g, a)
<1>0. t \in Tasks
    BY DEF Attempts, TaskOf
<1>1. /\ d \in Database /\ BalancesOK(d) /\ ChargesOK(d) /\ Unique(d.ledger)
      /\ TasksOK(d, r) /\ AttemptsOK(d, r)
    BY DEF DbOK, ChargesOK, Unique
<1>2. d.attempts[a].cost \in Nat /\ d.users[u].balance \in Int
    BY <1>1, Fields DEF AttemptRecord, UserRecord
<1>3. d.tasks[t].user \in Users /\ d.users[d.tasks[t].user].exists
    BY <1>0, <1>1 DEF AttemptsOK, TasksOK
<1>4. ~LedgerExistsForReport(d, a)
    BY <1>1 DEF LedgerExistsForReport, ChargesOK, EntryOK, IsCharge
<1>5. f = AppendProductionLedger(g, a)
    BY <1>2, <1>4 DEF ApplyReportAccounting, Due
<1>6. c \in LedgerEntry /\ g = AppendLedgerEntry(d, c) /\ Charged(d, a, g)
    BY <1>1, <1>3, <1>4, ConsumptionCharged
<1>7. c.user = d.tasks[t].user /\ c.direction = "debit" /\ c.amount = d.attempts[a].cost
    BY DEF ConsumeEntry
<1> HIDE DEF c
<1>8. g.users[u].balance = d.users[u].balance + Worth(c, u)
    BY <1>1, <1>6, AppendFields
<1>9. g.users[u].balance = IF u = d.tasks[t].user THEN d.users[u].balance - d.attempts[a].cost
                           ELSE d.users[u].balance
    BY <1>2, <1>7, <1>8 DEF Worth
<1> HIDE DEF g
<1>10. g \in Database
    BY <1>6 DEF Charged
<1>11. g.users[u].balance \in Int
    BY <1>10, Fields DEF UserRecord
<1>12. CASE g.owner = NoUser
    BY <1>5, <1>9, <1>11, <1>12 DEF AppendProductionLedger
<1>13. CASE g.owner # NoUser
  <2>1. f = AppendLedgerEntry(g, p)
    BY <1>5, <1>13 DEF AppendProductionLedger, ProduceEntry
  <2>2. g.attempts \in [Attempts -> AttemptRecord] /\ g.owner \in Users
    BY <1>10, <1>13, Fields
  <2>3. p \in LedgerEntry /\ p.direction = "credit" /\ p.amount \in Nat
    BY <2>2 DEF ProduceEntry, LedgerEntry, AttemptRecord
  <2> HIDE DEF p
  <2>4. f.users[u].balance = g.users[u].balance + Worth(p, u)
    BY <1>10, <2>1, <2>3, AppendFields
  <2>5. Worth(p, u) \in Nat
    BY <2>3 DEF Worth
  <2> HIDE DEF f
  <2>6. f.users[u].balance >= g.users[u].balance
    BY <1>11, <2>4, <2>5
  <2> QED BY <1>9, <2>6 DEF f
<1> QED BY <1>12, <1>13

\* handleComputeReport: the debit is what the pending task held, or it is late.
LEMMA ReportCovered ==
    ASSUME IndInv, Good, NEW u \in Users, NEW a \in Attempts, NEW retry \in BOOLEAN,
           NEW st \in {"completed", "failed", "cancelled"}, HandleComputeReport(a, st, retry)
    PROVE  Covered(u)
<1> DEFINE t == TaskOf(a)
           s == IF retry THEN "queued" ELSE st
           f == ApplyReportAccounting(mem, a, st)
<1>1. mem \in Database /\ mem' \in Database
    BY DEF IndInv, Good, TypeOK
<1>2. t \in Tasks
    BY DEF Attempts, TaskOf
<1>3. CASE mem.attempts[a].status = "none" \/ mem.reports[a] # "none"
  <2>1. mem' = mem
    BY <1>3 DEF HandleComputeReport
  <2> QED BY <1>1, <2>1, AvailableType, RecordsCovered
<1>4. CASE ~(mem.attempts[a].status = "none" \/ mem.reports[a] # "none")
  <2>1. mem' = WithReport(f, a, st, s)
    BY <1>4 DEF HandleComputeReport, WithReport, Update
  <2>2. DbOK(mem, req) /\ mem.tasks[t].status # "none" /\ mem.attempts[a].cost = mem.tasks[t].cost
    BY <1>2, <1>4 DEF IndInv, DbOK, AttemptsOK, TasksOK
  <2>3. (Due(mem, a, st) => Charged(mem, a, f)) /\ (~Due(mem, a, st) => f = mem)
    BY <1>4, <2>2, AccountingDone
  <2>4. s \in TaskStatus /\ (Due(mem, a, st) => s = "completed")
    BY DEF TaskStatus, Due, HandleComputeReport
  <2>5. f \in Database /\ f.tasks = mem.tasks /\ f.reports = mem.reports
    BY <1>1, <2>3 DEF Charged
  <2> HIDE DEF f, s
  <2>6. IsRecorded(mem', f, a, st, s)
    BY <2>1, <2>4, <2>5, RecordedFields
  <2>7. /\ mem'.users = f.users /\ mem'.tasks[t].status = s /\ mem'.reports[a] = st
        /\ mem'.tasks[t].user = mem.tasks[t].user /\ mem'.tasks[t].cost = mem.tasks[t].cost
        /\ \A x \in Tasks : x # t => mem'.tasks[x] = mem.tasks[x]
    BY <1>2, <2>5, <2>6 DEF IsRecorded
  <2>8. CASE ~Due(mem, a, st)
    <3>1. mem'.users[u].balance >= mem.users[u].balance
      BY <1>1, <2>3, <2>7, <2>8, AvailableType
    <3> QED BY <1>1, <1>2, <2>2, <2>7, <3>1, StatusCovered
  <2>9. CASE Due(mem, a, st)
    <3>1. st = "completed" /\ Due(mem, a, "completed")
      BY <2>9 DEF Due
    <3>2. f.users[u].balance >= IF u = mem.tasks[t].user THEN mem.users[u].balance - mem.attempts[a].cost
                                ELSE mem.users[u].balance
      BY <1>4, <2>2, <3>1, AccountingTakes DEF f
    <3>3. CASE u # mem.tasks[t].user
      <4>1. mem'.users[u].balance >= mem.users[u].balance
        BY <2>7, <3>2, <3>3
      <4> QED BY <1>1, <1>2, <2>2, <2>7, <4>1, StatusCovered
    <3>4. CASE u = mem.tasks[t].user /\ mem.tasks[t].status \in Pending
      <4>1. Held(mem, u)[t] = mem.attempts[a].cost /\ Held(mem', u)[t] = 0
        BY <1>2, <2>2, <2>4, <2>7, <2>9, <3>4 DEF Held, Pending
      <4>2. Available(u)' = Available(u) + (mem'.users[u].balance - mem.users[u].balance)
                                         - (Held(mem', u)[t] - Held(mem, u)[t])
        BY <1>1, <1>2, <2>7, AvailableChange
      <4>3. mem'.users[u].balance >= mem.users[u].balance - mem.attempts[a].cost
        BY <2>7, <3>2, <3>4
      <4>4. mem.attempts[a].cost \in Nat
        BY <1>1, Fields DEF AttemptRecord
      <4> QED BY <1>1, <4>1, <4>2, <4>3, <4>4, AvailableType DEF Covered
    <3>5. CASE u = mem.tasks[t].user /\ mem.tasks[t].status \notin Pending
      <4>1. mem.tasks[t].status \in Terminal
        <5>1. mem.tasks[t].status \in TaskStatus
          BY <1>1, <1>2, Fields DEF TaskRecord
        <5> QED BY <2>2, <3>5, <5>1 DEF TaskStatus, Terminal, Pending
      <4>2. LateCharge(u)
        BY <1>4, <2>7, <3>1, <3>5, <4>1 DEF LateCharge
      <4> QED BY <4>2 DEF Covered
    <3> QED BY <3>3, <3>4, <3>5
  <2> QED BY <2>8, <2>9
<1> QED BY <1>3, <1>4

\* ensureSufficientAvailableBalance, the accounting and the edits of users
\* together: with enforcement on, the balance less the cost of pending tasks only
\* becomes negative by an admin's debit, or for a task that was already over.
THEOREM NeverOverspent == Spec => NoOverspending
<1> DEFINE Step == Enforce /\ alive /\ alive' => \A u \in Users : Covered(u)
<1>1. ASSUME IndInv, Next, Good, Enforce, alive, alive', NEW u \in Users PROVE Covered(u)
  <2>1. CASE AdminEdit
    BY <1>1, <2>1, EditCovered, AdjustCovered DEF AdminEdit
  <2>2. CASE Crash \/ Restart
    BY <1>1, <2>2 DEF Crash, Restart
  <2>3. CASE Register
    BY <1>1, <2>3, EditCovered
  <2>4. ASSUME mem' = mem PROVE Covered(u)
    <3>1. mem \in Database
      BY <1>1 DEF IndInv, TypeOK
    <3> QED BY <2>4, <3>1, AvailableType, RecordsCovered
  <2>5. ASSUME NEW t \in Tasks, RequestStep(t) PROVE Covered(u)
    <3>1. CASE \E k \in Keys : Authenticate(t, k)
      BY <1>1, <3>1, EditCovered
    <3>2. CASE CreateChatTask(t)
      BY <1>1, <3>2, CreateChatTaskCovered
    <3>3. CASE BeginAttempt(t)
      BY <1>1, <3>3, BeginAttemptCovered
    <3>4. CASE Dispatch(t) \/ StartCancelled(t)
      BY <2>4, <3>4 DEF Dispatch, StartCancelled
    <3>5. CASE NoCapacity(t) \/ (\E gone \in BOOLEAN : CancelTask(t, gone)) \/ DispatchFails(t)
      BY <1>1, <3>5, EndsCovered
    <3> QED BY <2>5, <3>1, <3>2, <3>3, <3>4, <3>5 DEF RequestStep
  <2>6. ASSUME NEW a \in Attempts, WorkerStep(a) PROVE Covered(u)
    <3>1. CASE Lose(a)
      BY <2>4, <3>1 DEF Lose
    <3>2. CASE \E retry \in BOOLEAN : FailAttempt(a, retry)
      BY <1>1, <3>2, FailAttemptCovered
    <3>3. CASE \E retry \in BOOLEAN, st \in {"completed", "failed", "cancelled"} :
                  HandleComputeReport(a, st, retry)
      BY <1>1, <3>3, ReportCovered
    <3> QED BY <2>6, <3>1, <3>2, <3>3 DEF WorkerStep
  <2> QED BY <1>1, <2>1, <2>2, <2>3, <2>5, <2>6 DEF Next
<1>2. IndInv /\ [Next]_vars => [Step]_vars
    BY <1>1, StepGood
<1>3. [Step]_vars => [Enforce /\ alive /\ alive' =>
        \A u \in Users : Available(u) >= 0 /\ Available(u)' < 0
            => AdminDebit(u) \/ LateCharge(u) \/ Revived(u)]_vars
    BY DEF Covered
<1> QED BY Inductive, <1>2, <1>3, PTL DEF Spec, NoOverspending
=============================================================================
