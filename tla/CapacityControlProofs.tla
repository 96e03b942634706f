----------------------- MODULE CapacityControlProofs ------------------------
(***************************************************************************)
(* What is proved of module CapacityControl, for every fleet, catalogue    *)
(* and number of tasks, and every start that SetUpConstants allows: the    *)
(* types of the state, that no profile lacks a file, that slots take       *)
(* requests as the stored plan says, but for those that a writer without   *)
(* a replan has written since, and the planner's promises about            *)
(* every plan that a goroutine is about to store.                          *)
(***************************************************************************)
EXTENDS CapacityControl, PlacementPlanProofs, TLAPS

\* What a goroutine holds: the plan of its snapshot, until it is stored, and then
\* the assignments to send, with the versions of their profiles.
PlanHeld(H) == H.pc = "commit" => PlanDatabase(H.snapshot) /\ H.plan = RunPlanner(H.snapshot, FALSE).plan
SendEntry(version, a) == /\ a.profile \in Profiles /\ version[a.profile] \in Nat \ {0}
                         /\ a.warm \in BOOLEAN /\ a.place \in Places /\ GoodEntry(a)
SendHeld(H) == H.pc = "send" => /\ Len(H.plan) \in Nat /\ DOMAIN H.plan = 1..Len(H.plan)
                                /\ \A i \in DOMAIN H.plan : SendEntry(H.snapshot.version, H.plan[i])
HandlerOK(H) == /\ H.pc \in {"idle", "plan", "commit", "send", "stale", "evict"}
                /\ H.targets \subseteq Nodes \X Artifacts /\ PlanHeld(H) /\ SendHeld(H)
HandlersOK == handler = [h \in Handlers |-> handler[h]] /\ \A h \in Handlers : HandlerOK(handler[h])

LinkOK == link \in [Nodes -> {"down", "open", "registered"}]
DownOK == down \in [Nodes -> Seq(DownMessage)]
UpOK == up = [n \in Nodes |-> up[n]] /\ \A n \in Nodes : up[n] \in Seq(UpMessage(n))
CacheOK == cache \in [Nodes -> SUBSET Artifacts]
RunsOK == wslot = [s \in Slots |-> wslot[s]] /\ \A s \in Slots : RunOK(wslot[s])
JobsOK == jobs \in [Nodes -> SUBSET Job]
WorkOK == work \subseteq Execution

\* What is reserved and not sent yet is of a task that was stored.
SendingOK == sending \subseteq Reserved /\ \A x \in sending : db.task[x.task].status # "none"

\* Whoever has changed what a slot accepts has yet to store a plan, or is one of the
\* three that do not replan, and the slot is then among the unplanned ones.
Replanning == \E h \in Handlers : handler[h].pc \in {"plan", "commit"}
DrainInv == Replanning \/ FollowsPlan(db, unplanned)

\* The inductive invariant.
Inv == /\ DatabaseOK(db) /\ NoDanglingArtifact /\ HandlersOK /\ LinkOK /\ DownOK /\ UpOK
       /\ CacheOK /\ RunsOK /\ JobsOK /\ WorkOK /\ SendingOK /\ DrainInv

-----------------------------------------------------------------------------
(* The database *)

\* The fields of a database: its attempts are of tasks that were stored.
AttemptsOK(attempts, task) == /\ attempts \in Seq(AttemptRecord)
                              /\ \A i \in DOMAIN attempts : task[attempts[i].task].status # "none"
IsDatabase(d) ==
    /\ d = [version |-> d.version, policy |-> d.policy, node |-> d.node, slot |-> d.slot,
            task |-> d.task, attempts |-> d.attempts, assignments |-> d.assignments,
            artifacts |-> d.artifacts, intents |-> d.intents]
    /\ AttemptsOK(d.attempts, d.task)
VersionsOK(f) == f \in [Profiles -> Nat]
PoliciesOK(f) == /\ f = [p \in Profiles |-> f[p]]
                 /\ \A p \in Profiles : f[p] # NoPolicy => GoodPolicy(f[p]) /\ ValidPolicy(f[p])
NodesOK(f) == f \in [Nodes -> NodeRecord]
SlotsOK(f) == f = [s \in Slots |-> f[s]] /\ \A s \in Slots : SlotOK(f[s])
TaskOK(r) == r \in TaskRecord /\ (r.status # "none" => r.profile \in Profiles)
TasksOK(f) == f = [t \in Tasks |-> f[t]] /\ \A t \in Tasks : TaskOK(f[t])

\* No step forgets a task.
TasksKept(d) == \A t \in Tasks : db.task[t].status # "none" => d.task[t].status # "none"

\* A database is well formed when its fields are.
LEMMA DatabaseParts ==
    ASSUME NEW d
    PROVE  DatabaseOK(d) <=> /\ IsDatabase(d) /\ VersionsOK(d.version) /\ PoliciesOK(d.policy)
                             /\ NodesOK(d.node) /\ SlotsOK(d.slot) /\ TasksOK(d.task)
<1> DEFINE f == d.task
<1>1. TasksOK(f) <=> /\ f \in [Tasks -> TaskRecord]
                     /\ \A t \in Tasks : f[t].status # "none" => f[t].profile \in Profiles
  <2> HIDE DEF f
  <2>1. f \in [Tasks -> TaskRecord] <=> f = [t \in Tasks |-> f[t]] /\ \A t \in Tasks : f[t] \in TaskRecord
    OBVIOUS
  <2> QED BY <2>1 DEF TasksOK, TaskOK
<1> QED BY <1>1 DEF DatabaseOK, IsDatabase, AttemptsOK, VersionsOK, PoliciesOK, NodesOK, SlotsOK

\* A database that is well formed is one the planner can work with.
LEMMA DatabasePlanned ==
    ASSUME NEW d, DatabaseOK(d)
    PROVE  PlanDatabase(d)
<1>1. d.version \in [Profiles -> Nat] /\ \A p \in Profiles : d.policy[p] # NoPolicy => GoodPolicy(d.policy[p])
    BY DEF DatabaseOK
<1>2. \A s \in Slots : d.slot[s].failures \in Nat
    BY DEF DatabaseOK, SlotOK, SlotRecord
<1>3. IsFiniteSet(DOMAIN d.task)
    BY SetUpConstants DEF DatabaseOK
<1> QED BY <1>1, <1>2, <1>3 DEF PlanDatabase

\* The files of a profile are artifacts.
LEMMA FilesAre ==
    ASSUME NEW p \in Profiles
    PROVE  ProfileArtifacts(p) \in SUBSET Artifacts
    BY VariantFacts DEF ProfileArtifacts

\* recordSlotFailure: the state, the profile and the task are as they were, and no slot
\* begins to take requests.
LEMMA RecordFailureOK ==
    ASSUME NEW old, SlotOK(old), NEW reason \in Reasons, NEW k \in Nat
    PROVE  LET r == RecordFailure(old, reason, k)
           IN  SlotOK(r) /\ r.state = old.state /\ r.task = old.task /\ (r.accepts => old.accepts)
<1> DEFINE count == old.counts[reason] + k
           banned == count >= QuarantineThreshold
           failures == old.failures + k
           counts == [old.counts EXCEPT ![reason] = count]
           quarantined == old.quarantined \/ banned
           expired == old.expired /\ ~banned
           accepts == old.accepts /\ ~banned
           r == [old EXCEPT !.failures = failures, !.counts = counts, !.quarantined = quarantined,
                            !.expired = expired, !.accepts = accepts]
<1>1. /\ old \in SlotRecord /\ (old.accepts => old.state \in {"ready", "idle"} /\ ~old.task)
      /\ old.expired => old.quarantined
    BY DEF SlotOK
<1>2. failures \in Nat /\ counts \in [Reasons -> Nat]
    BY <1>1 DEF SlotRecord
<1>3. quarantined \in BOOLEAN /\ expired \in BOOLEAN /\ accepts \in BOOLEAN
    OBVIOUS
<1>4. (accepts => old.accepts) /\ (expired => quarantined)
    BY <1>1
<1>5. RecordFailure(old, reason, k) = r
    BY DEF RecordFailure
<1> HIDE DEF count, banned, failures, counts, quarantined, expired, accepts
<1>6. r \in SlotRecord
    BY <1>1, <1>2, <1>3 DEF SlotRecord
<1>7. /\ r.state = old.state /\ r.task = old.task /\ r.accepts = accepts
      /\ r.expired = expired /\ r.quarantined = quarantined
    BY <1>1 DEF SlotRecord
<1> HIDE DEF r
<1> QED BY <1>1, <1>4, <1>5, <1>6, <1>7 DEF SlotOK

\* clearSlotQuarantine
LEMMA ClearSlotQuarantineOK ==
    ASSUME NEW old, SlotOK(old)
    PROVE  SlotOK(ClearSlotQuarantine(old))
<1> DEFINE accepts == old.accepts \/ (old.state = "ready" /\ ~old.task)
           r == [old EXCEPT !.quarantined = FALSE, !.expired = FALSE, !.accepts = accepts]
<1>1. old \in SlotRecord /\ (old.accepts => old.state \in {"ready", "idle"} /\ ~old.task)
    BY DEF SlotOK
<1>2. accepts \in BOOLEAN /\ (accepts => old.state \in {"ready", "idle"} /\ ~old.task)
    BY <1>1 DEF SlotRecord
<1>3. ClearSlotQuarantine(old) = r
    BY DEF ClearSlotQuarantine
<1> HIDE DEF accepts
<1>4. r \in SlotRecord
    BY <1>1, <1>2 DEF SlotRecord
<1>5. r.state = old.state /\ r.task = old.task /\ r.accepts = accepts /\ r.expired = FALSE
    BY <1>1 DEF SlotRecord
<1> HIDE DEF r
<1> QED BY <1>2, <1>3, <1>4, <1>5 DEF SlotOK

\* What has expired is forgotten; no other slot is changed.
LEMMA ClearedOK ==
    ASSUME NEW d, DatabaseOK(d)
    PROVE  LET d2 == ClearExpired(d)
           IN  /\ DatabaseOK(d2) /\ d2.policy = d.policy /\ d2.version = d.version /\ d2.task = d.task
               /\ d2.assignments = d.assignments /\ d2.artifacts = d.artifacts
               /\ \A s \in Slots : ~d.slot[s].expired => d2.slot[s] = d.slot[s]
<1> DEFINE d2 == ClearExpired(d)
           nodes == [n \in Nodes |-> IF d.node[n].suppressed = "expired"
                                     THEN [d.node[n] EXCEPT !.suppressed = "no"] ELSE d.node[n]]
           slots == [s \in Slots |-> IF d.slot[s].expired THEN ClearSlotQuarantine(d.slot[s]) ELSE d.slot[s]]
           d1 == [d EXCEPT !.node = nodes]
<1>1. /\ IsDatabase(d) /\ VersionsOK(d.version) /\ PoliciesOK(d.policy)
      /\ NodesOK(d.node) /\ SlotsOK(d.slot) /\ TasksOK(d.task)
    BY DatabaseParts
<1>2. NodesOK(nodes)
    BY <1>1, ZenonT(60) DEF NodesOK, NodeRecord
<1>3. SlotsOK(slots)
  <2>1. slots = [s \in Slots |-> slots[s]]
    OBVIOUS
  <2>2. \A s \in Slots : slots[s] = d.slot[s] \/ slots[s] = ClearSlotQuarantine(d.slot[s])
    OBVIOUS
  <2>3. \A s \in Slots : SlotOK(d.slot[s])
    BY <1>1 DEF SlotsOK
  <2> HIDE DEF slots
  <2>4. \A s \in Slots : SlotOK(slots[s])
    BY <2>2, <2>3, ClearSlotQuarantineOK
  <2> QED BY <2>1, <2>4 DEF SlotsOK
<1>4. \A s \in Slots : ~d.slot[s].expired => slots[s] = d.slot[s]
    OBVIOUS
<1>5. d2 = [d1 EXCEPT !.slot = slots]
    BY DEF ClearExpired
<1> HIDE DEF nodes, slots, d2
<1>6. /\ IsDatabase(d1) /\ d1.node = nodes /\ d1.version = d.version /\ d1.policy = d.policy
      /\ d1.task = d.task /\ d1.assignments = d.assignments /\ d1.artifacts = d.artifacts
    BY <1>1 DEF IsDatabase
<1> HIDE DEF d1
<1>7. /\ IsDatabase(d2) /\ d2.node = nodes /\ d2.version = d.version /\ d2.policy = d.policy /\ d2.slot = slots
      /\ d2.task = d.task /\ d2.assignments = d.assignments /\ d2.artifacts = d.artifacts
    BY <1>5, <1>6 DEF IsDatabase
<1>8. DatabaseOK(d2)
    BY <1>1, <1>2, <1>3, <1>7, DatabaseParts
<1> QED BY <1>4, <1>7, <1>8 DEF d2

\* The plan is stored, and the slots are made to follow it.
LEMMA DrainedOK ==
    ASSUME NEW d, DatabaseOK(d), NEW plan
    PROVE  LET d2 == ApplyPlacementDrainState([d EXCEPT !.assignments = plan])
           IN  /\ DatabaseOK(d2) /\ FollowsPlan(d2, {}) /\ d2.version = d.version
               /\ d2.artifacts = d.artifacts /\ d2.task = d.task
<1> DEFINE d1 == [d EXCEPT !.assignments = plan]
           slots == [s \in Slots |-> IF Drainable(d1, s) THEN [d1.slot[s] EXCEPT !.accepts = WantedWarm(d1, s)]
                                     ELSE d1.slot[s]]
           d2 == ApplyPlacementDrainState(d1)
<1>1. /\ IsDatabase(d) /\ VersionsOK(d.version) /\ PoliciesOK(d.policy)
      /\ NodesOK(d.node) /\ SlotsOK(d.slot) /\ TasksOK(d.task)
    BY DatabaseParts
<1>2. /\ IsDatabase(d1) /\ d1.node = d.node /\ d1.version = d.version /\ d1.policy = d.policy /\ d1.slot = d.slot
      /\ d1.task = d.task /\ d1.artifacts = d.artifacts
    BY <1>1 DEF IsDatabase
<1>3. d2 = [d1 EXCEPT !.slot = slots]
    BY DEF ApplyPlacementDrainState
<1> HIDE DEF d1, d2, slots
<1>4. /\ IsDatabase(d2) /\ d2.node = d1.node /\ d2.version = d1.version /\ d2.policy = d1.policy /\ d2.slot = slots
      /\ d2.task = d1.task /\ d2.artifacts = d1.artifacts /\ d2.assignments = d1.assignments
    BY <1>2, <1>3 DEF IsDatabase
<1>5. \A s \in Slots : d1.slot[s] \in SlotRecord /\ SlotOK(d1.slot[s])
    BY <1>1, <1>2 DEF SlotsOK, SlotOK
<1>6. ASSUME NEW s \in Slots
      PROVE  /\ SlotOK(slots[s]) /\ (Drainable(d1, s) => slots[s].accepts = WantedWarm(d1, s))
             /\ slots[s].profile = d1.slot[s].profile /\ slots[s].state = d1.slot[s].state
             /\ slots[s].task = d1.slot[s].task /\ slots[s].quarantined = d1.slot[s].quarantined
             /\ slots[s].expired = d1.slot[s].expired
  <2>1. WantedWarm(d1, s) \in BOOLEAN
    BY DEF WantedWarm
  <2>2. CASE Drainable(d1, s)
    <3> DEFINE w == WantedWarm(d1, s)
    <3>1. slots[s] = [d1.slot[s] EXCEPT !.accepts = w]
      BY <2>2 DEF slots
    <3>2. d1.slot[s].state = "ready" /\ ~d1.slot[s].task
      BY <2>2 DEF Drainable
    <3> HIDE DEF w
    <3>3. slots[s] \in SlotRecord /\ slots[s].accepts = w
      BY <1>5, <2>1, <3>1 DEF SlotRecord, w
    <3>4. /\ slots[s].profile = d1.slot[s].profile /\ slots[s].state = d1.slot[s].state
          /\ slots[s].task = d1.slot[s].task /\ slots[s].quarantined = d1.slot[s].quarantined
          /\ slots[s].expired = d1.slot[s].expired
      BY <1>5, <3>1 DEF SlotRecord
    <3> QED BY <1>5, <3>2, <3>3, <3>4 DEF SlotOK, w
  <2>3. CASE ~Drainable(d1, s)
    <3>1. slots[s] = d1.slot[s]
      BY <2>3 DEF slots
    <3> QED BY <1>5, <2>3, <3>1
  <2> QED BY <2>2, <2>3
<1>7. SlotsOK(slots)
  <2>1. slots = [s \in Slots |-> slots[s]]
    BY DEF slots
  <2> QED BY <1>6, <2>1 DEF SlotsOK
<1>8. DatabaseOK(d2)
    BY <1>1, <1>2, <1>4, <1>7, DatabaseParts
<1>9. FollowsPlan(d2, {})
  <2>1. SUFFICES ASSUME NEW s \in Slots, Drainable(d2, s) PROVE d2.slot[s].accepts = WantedWarm(d2, s)
    BY DEF FollowsPlan
  <2>2. Drainable(d1, s)
    BY <1>4, <1>6, <2>1 DEF Drainable
  <2>3. WantedWarm(d2, s) = WantedWarm(d1, s)
    BY <1>4 DEF WantedWarm
  <2> QED BY <1>4, <1>6, <2>2, <2>3
<1> QED BY <1>2, <1>4, <1>8, <1>9 DEF d2, d1

-----------------------------------------------------------------------------
(* Goroutines and sessions *)

\* The handlers, and where one comes to stand.
LEMMA HandlerSet ==
    Admin \in Handlers /\ Nodes \subseteq Handlers
    BY DEF Handlers, Admin

\* One goroutine moves on: the others keep what they hold, and a replan that is
\* under way elsewhere stays so.
LEMMA HandlerMoves ==
    ASSUME HandlersOK, NEW h \in Handlers, NEW H, HandlerOK(H), handler' = [handler EXCEPT ![h] = H]
    PROVE  /\ HandlersOK'
           /\ H.pc \in {"plan", "commit"} => Replanning'
           /\ handler[h].pc \notin {"plan", "commit"} /\ Replanning => Replanning'
<1>1. handler = [x \in Handlers |-> handler[x]] /\ \A x \in Handlers : HandlerOK(handler[x])
    BY DEF HandlersOK
<1>2. handler'[h] = H /\ \A x \in Handlers : x # h => handler'[x] = handler[x]
    BY <1>1
<1>3. handler' = [x \in Handlers |-> handler'[x]]
    BY <1>1
<1>4. \A x \in Handlers : HandlerOK(handler'[x])
    BY <1>1, <1>2
<1>5. HandlersOK'
    BY <1>3, <1>4 DEF HandlersOK, HandlerOK, PlanHeld, SendHeld
<1>6. H.pc \in {"plan", "commit"} => Replanning'
    BY <1>2 DEF Replanning
<1>7. handler[h].pc \notin {"plan", "commit"} /\ Replanning => Replanning'
    BY <1>2 DEF Replanning
<1> QED BY <1>5, <1>6, <1>7

\* Records of goroutines that hold no plan.
LEMMA EmptyHands ==
    /\ HandlerOK(Idle) /\ Idle.pc = "idle" /\ HandlerOK(Replan) /\ Replan.pc = "plan"
    /\ HandlerOK([Idle EXCEPT !.pc = "stale"]) /\ [Idle EXCEPT !.pc = "stale"].pc = "stale"
    /\ \A t \in SUBSET (Nodes \X Artifacts) :
          /\ HandlerOK([Idle EXCEPT !.pc = "evict", !.targets = t])
          /\ [Idle EXCEPT !.pc = "evict", !.targets = t].pc = "evict"
    BY DEF HandlerOK, PlanHeld, SendHeld, Idle, Replan

\* A goroutine that is to replan keeps the slots' state in order.
LEMMA Replans ==
    ASSUME HandlersOK, NEW h \in Handlers, handler' = [handler EXCEPT ![h] = Replan]
    PROVE  HandlersOK' /\ DrainInv'
<1>1. HandlerOK(Replan) /\ Replan.pc = "plan"
    BY EmptyHands
<1> QED BY <1>1, HandlerMoves DEF DrainInv

\* The slots' state is as it was when neither they nor the plan have changed.
LEMMA DrainStays ==
    ASSUME NEW d, NEW d2, NEW apart, d2.slot = d.slot, d2.policy = d.policy, d2.assignments = d.assignments
    PROVE  FollowsPlan(d, apart) => FollowsPlan(d2, apart)
    BY DEF FollowsPlan, Drainable, WantedWarm

\* What is reserved stays so while no task is forgotten.
LEMMA SendingStays ==
    ASSUME SendingOK, UNCHANGED sending, TasksKept(db')
    PROVE  SendingOK'
<1>1. \A x \in sending : x.task \in Tasks
    BY DEF SendingOK, Reserved
<1> QED BY <1>1 DEF SendingOK, TasksKept

\* The entries of a sequence at some of its places.
LEMMA EntriesAtAre ==
    ASSUME NEW seq, NEW n \in Nat, NEW places, places \subseteq 1..n
    PROVE  LET q == EntriesAt(seq, places)
               k == Cardinality(places)
           IN  k \in Nat /\ DOMAIN q = 1..k /\ \A i \in 1..k : \E j \in places : q[i] = seq[j]
<1> DEFINE q == EntriesAt(seq, places)
           k == Cardinality(places)
<1>1. IsFiniteSet(places) /\ places \subseteq Int
  <2>1. IsFiniteSet(1..n)
    BY FS_Interval
  <2>2. places \in SUBSET (1..n)
    OBVIOUS
  <2>3. IsFiniteSet(places)
    BY <2>1, <2>2, FS_Subset
  <2> QED BY <2>3
<1>2. k \in Nat /\ DOMAIN Ascending(places) = 1..k /\ \A i \in DOMAIN Ascending(places) : Ascending(places)[i] \in places
    BY <1>1, AscendingIs
<1>3. DOMAIN q = 1..k /\ \A i \in 1..k : q[i] = seq[Ascending(places)[i]]
    BY DEF EntriesAt
<1> HIDE DEF q, k
<1>4. \A i \in 1..k : \E j \in places : q[i] = seq[j]
    BY <1>2, <1>3
<1> QED BY <1>2, <1>3, <1>4 DEF q, k

\* Some of a sequence's entries, in their order, are a sequence too.
LEMMA SomeEntries ==
    ASSUME NEW T, NEW seq \in Seq(T), NEW places \in SUBSET (DOMAIN seq)
    PROVE  EntriesAt(seq, places) \in Seq(T)
<1> DEFINE q == EntriesAt(seq, places)
           k == Cardinality(places)
<1>1. Len(seq) \in Nat /\ places \subseteq 1..Len(seq) /\ \A j \in places : seq[j] \in T
    OBVIOUS
<1>2. k \in Nat /\ DOMAIN q = 1..k /\ \A i \in 1..k : \E j \in places : q[i] = seq[j]
    BY <1>1, EntriesAtAre
<1>3. q = [i \in 1..k |-> q[i]]
    BY DEF EntriesAt
<1> HIDE DEF q, k
<1>4. \A i \in 1..k : q[i] \in T
    BY <1>1, <1>2
<1>5. q \in Seq(T)
    BY <1>2, <1>3, <1>4, IsASeq
<1> QED BY <1>5 DEF q

\* Messages are added to what a Worker has sent, or some of them are.
LEMMA UpGrows ==
    ASSUME UpOK, LinkOK, NEW n \in Nodes, NEW msgs \in Seq(UpMessage(n)), Tell(n, msgs)
    PROVE  UpOK'
<1>1. up = [x \in Nodes |-> up[x]] /\ \A x \in Nodes : up[x] \in Seq(UpMessage(x))
    BY DEF UpOK
<1>2. CASE up' = up
    BY <1>1, <1>2 DEF UpOK
<1>3. ASSUME NEW more \in Seq(UpMessage(n)), up' = [up EXCEPT ![n] = up[n] \o more]
      PROVE  UpOK'
  <2>1. up[n] \o more \in Seq(UpMessage(n))
    BY <1>1
  <2>2. up' = [x \in Nodes |-> up'[x]] /\ up'[n] = up[n] \o more /\ \A x \in Nodes : x # n => up'[x] = up[x]
    BY <1>1, <1>3
  <2>3. \A x \in Nodes : up'[x] \in Seq(UpMessage(x))
    BY <1>1, <2>1, <2>2
  <2> QED BY <2>2, <2>3 DEF UpOK
<1>4. \/ up' = up \/ up' = [up EXCEPT ![n] = up[n] \o msgs]
      \/ \E kept \in SUBSET (DOMAIN msgs) : up' = [up EXCEPT ![n] = up[n] \o EntriesAt(msgs, kept)]
    BY DEF Tell
<1>5. ASSUME NEW kept \in SUBSET (DOMAIN msgs), up' = [up EXCEPT ![n] = up[n] \o EntriesAt(msgs, kept)]
      PROVE  UpOK'
  <2>1. EntriesAt(msgs, kept) \in Seq(UpMessage(n))
    BY SomeEntries
  <2> QED BY <1>3, <1>5, <2>1
<1> QED BY <1>2, <1>3, <1>4, <1>5

\* What comes up stays well formed: when one Worker's messages are replaced
LEMMA UpSet ==
    ASSUME UpOK, NEW n \in Nodes, NEW q \in Seq(UpMessage(n)), up' = [up EXCEPT ![n] = q]
    PROVE  UpOK'
<1>1. up = [x \in Nodes |-> up[x]] /\ \A x \in Nodes : up[x] \in Seq(UpMessage(x))
    BY DEF UpOK
<1>2. up' = [x \in Nodes |-> up'[x]] /\ up'[n] = q /\ \A x \in Nodes : x # n => up'[x] = up[x]
    BY <1>1
<1>3. \A x \in Nodes : up'[x] \in Seq(UpMessage(x))
    BY <1>1, <1>2
<1> QED BY <1>2, <1>3 DEF UpOK

\* ... and when a reader takes the first of them.
LEMMA UpShrinks ==
    ASSUME UpOK, NEW n \in Nodes, up[n] # <<>>
    PROVE  Head(up[n]) \in UpMessage(n) /\ (Taken(n) => UpOK')
<1>1. Head(up[n]) \in UpMessage(n) /\ Tail(up[n]) \in Seq(UpMessage(n))
    BY DEF UpOK
<1>2. Taken(n) => UpOK'
    BY <1>1, UpSet DEF Taken
<1> QED BY <1>1, <1>2

\* A Worker takes the first message that was sent to it.
LEMMA DownShrinks ==
    ASSUME DownOK, NEW n \in Nodes, down[n] # <<>>
    PROVE  Head(down[n]) \in DownMessage /\ (Dropped(n) => DownOK')
<1>1. down \in [Nodes -> Seq(DownMessage)]
    BY DEF DownOK
<1>2. Head(down[n]) \in DownMessage /\ Tail(down[n]) \in Seq(DownMessage)
    BY <1>1
<1>3. Dropped(n) => down' \in [Nodes -> Seq(DownMessage)]
    BY <1>1, <1>2 DEF Dropped
<1> QED BY <1>2, <1>3 DEF DownOK

\* Messages are added to what is sent to every Worker, or some of them are.
LEMMA DownGrows ==
    ASSUME DownOK, NEW msgs, \A n \in Nodes : msgs[n] \in Seq(DownMessage), Enqueue(msgs)
    PROVE  DownOK'
<1>1. down \in [Nodes -> Seq(DownMessage)]
    BY DEF DownOK
<1>2. \A n \in Nodes : down[n] \o msgs[n] \in Seq(DownMessage)
    BY <1>1
<1>3. \/ down' = [n \in Nodes |-> IF link[n] = "registered" THEN down[n] \o msgs[n] ELSE down[n]]
      \/ \E full \in Nodes : \E kept \in SUBSET (DOMAIN msgs[full]) :
            down' = [n \in Nodes |-> IF n = full THEN down[n] \o EntriesAt(msgs[n], kept)
                                     ELSE IF link[n] = "registered" THEN down[n] \o msgs[n]
                                     ELSE down[n]]
    BY DEF Enqueue
<1>4. CASE down' = [n \in Nodes |-> IF link[n] = "registered" THEN down[n] \o msgs[n] ELSE down[n]]
  <2>1. down' \in [Nodes -> Seq(DownMessage)]
    BY <1>1, <1>2, <1>4
  <2> QED BY <2>1 DEF DownOK
<1>5. ASSUME NEW full \in Nodes, NEW kept \in SUBSET (DOMAIN msgs[full]),
             down' = [n \in Nodes |-> IF n = full THEN down[n] \o EntriesAt(msgs[n], kept)
                                      ELSE IF link[n] = "registered" THEN down[n] \o msgs[n]
                                      ELSE down[n]]
      PROVE  DownOK'
  <2> DEFINE some == EntriesAt(msgs[full], kept)
  <2>1. some \in Seq(DownMessage)
    BY SomeEntries
  <2>2. \A n \in Nodes : down'[n] = down[n] \/ down'[n] = down[n] \o msgs[n]
                         \/ (n = full /\ down'[n] = down[n] \o some)
    BY <1>5
  <2>3. down' = [n \in Nodes |-> down'[n]]
    BY <1>5
  <2> HIDE DEF some
  <2>4. \A n \in Nodes : down[n] \o some \in Seq(DownMessage)
    BY <1>1, <2>1
  <2>5. \A n \in Nodes : down'[n] \in Seq(DownMessage)
    BY <1>1, <1>2, <2>2, <2>4
  <2>6. down' \in [Nodes -> Seq(DownMessage)]
    BY <2>3, <2>5
  <2> QED BY <2>6 DEF DownOK
<1> QED BY <1>3, <1>4, <1>5

-----------------------------------------------------------------------------
(* replanAndDispatch *)

\* A goroutine clears what has expired, takes a snapshot and plans on it; by
\* PlanKeepsPromises what it now holds is a plan that keeps the promises for it.
LEMMA TakePlanInv ==
    ASSUME Inv, NEW h \in Handlers, TakePlan(h)
    PROVE  Inv'
<1> DEFINE d == ClearExpired(db)
           plan == RunPlanner(d, FALSE).plan
           H == [pc |-> "commit", plan |-> plan, snapshot |-> d, targets |-> {}]
<1>1. db' = d /\ handler' = [handler EXCEPT ![h] = H] /\ UNCHANGED <<wire, workers, sending, unplanned>>
    BY DEF TakePlan, history
<1>2. /\ DatabaseOK(d) /\ d.version = db.version /\ d.artifacts = db.artifacts /\ d.task = db.task
    BY ClearedOK DEF Inv
<1>3. PlanDatabase(d)
    BY <1>2, DatabasePlanned
<1>4. DatabaseOK(db') /\ NoDanglingArtifact'
    BY <1>1, <1>2 DEF Inv, NoDanglingArtifact, FilesThere
<1> HIDE DEF d, plan
<1>5. HandlerOK(H) /\ H.pc = "commit"
    BY <1>3 DEF HandlerOK, PlanHeld, SendHeld, plan
<1> HIDE DEF H
<1>6. HandlersOK' /\ Replanning'
    BY <1>1, <1>5, HandlerMoves DEF Inv
<1>7. LinkOK' /\ DownOK' /\ UpOK' /\ CacheOK' /\ RunsOK' /\ JobsOK' /\ WorkOK'
    BY <1>1 DEF Inv, wire, workers, LinkOK, DownOK, UpOK, CacheOK, RunsOK, JobsOK, WorkOK
<1>8. SendingOK'
  <2>1. TasksKept(db')
    BY <1>1, <1>2 DEF TasksKept
  <2> QED BY <1>1, <2>1, SendingStays DEF Inv
<1> QED BY <1>4, <1>6, <1>7, <1>8 DEF Inv, DrainInv

\* The assignments of a plan can be sent.
LEMMA PlanCanBeSent ==
    ASSUME NEW d, PlanDatabase(d)
    PROVE  LET plan == RunPlanner(d, FALSE).plan
           IN  /\ Len(plan) \in Nat /\ DOMAIN plan = 1..Len(plan)
               /\ \A i \in DOMAIN plan : SendEntry(d.version, plan[i])
<1> DEFINE plan == RunPlanner(d, FALSE).plan
<1>1. plan \in Seq(Entries(d))
    BY PlanKeepsPromises
<1> HIDE DEF plan
<1>2. Len(plan) \in Nat /\ DOMAIN plan = 1..Len(plan) /\ \A i \in DOMAIN plan : plan[i] \in Entries(d)
    BY <1>1
<1>3. ASSUME NEW a \in Entries(d) PROVE SendEntry(d.version, a)
  <2>1. a \in PlanEntry(d) /\ GoodEntry(a)
    BY DEF Entries
  <2>2. a.profile \in Profiles /\ d.version[a.profile] > 0 /\ a.warm \in BOOLEAN /\ a.place \in Places
    BY <2>1 DEF PlanEntry, PlannedProfiles
  <2>3. d.version[a.profile] \in Nat
    BY <2>2 DEF PlanDatabase
  <2> QED BY <2>1, <2>2, <2>3 DEF SendEntry
<1> QED BY <1>2, <1>3 DEF plan

\* The plan is stored, in a database that may have moved on, and the slots follow it.
LEMMA CommitInv ==
    ASSUME Inv, NEW h \in Handlers, Commit(h)
    PROVE  Inv'
<1> DEFINE H0 == handler[h]
           stale == [Idle EXCEPT !.pc = "stale"]
           toSend == [pc |-> "send", plan |-> H0.plan, targets |-> {}, snapshot |-> [version |-> H0.snapshot.version]]
           H == IF SendPlaces(H0.plan) = {} THEN stale ELSE toSend
           d == ApplyPlacementDrainState([db EXCEPT !.assignments = Stored(H0.plan)])
<1>1. /\ H0.pc = "commit" /\ db' = d /\ handler' = [handler EXCEPT ![h] = H] /\ UNCHANGED <<wire, workers, sending>>
      /\ unplanned' = {}
    BY DEF Commit, AfterCommit
<1>2. /\ DatabaseOK(d) /\ FollowsPlan(d, {}) /\ d.version = db.version /\ d.artifacts = db.artifacts
      /\ d.task = db.task
    BY DrainedOK DEF Inv
<1>3. DatabaseOK(db') /\ NoDanglingArtifact' /\ DrainInv'
    BY <1>1, <1>2 DEF Inv, NoDanglingArtifact, FilesThere, DrainInv
<1>4. PlanDatabase(H0.snapshot) /\ H0.plan = RunPlanner(H0.snapshot, FALSE).plan
    BY <1>1 DEF Inv, HandlersOK, HandlerOK, PlanHeld
<1>5. /\ Len(H0.plan) \in Nat /\ DOMAIN H0.plan = 1..Len(H0.plan)
      /\ \A i \in DOMAIN H0.plan : SendEntry(H0.snapshot.version, H0.plan[i])
    BY <1>4, PlanCanBeSent
<1> HIDE DEF H0, d
<1>6. HandlerOK(toSend)
    BY <1>5 DEF HandlerOK, PlanHeld, SendHeld
<1>7. HandlerOK(H)
    BY <1>6, EmptyHands
<1> HIDE DEF H, toSend, stale
<1>8. HandlersOK'
    BY <1>1, <1>7, HandlerMoves DEF Inv
<1>9. LinkOK' /\ DownOK' /\ UpOK' /\ CacheOK' /\ RunsOK' /\ JobsOK' /\ WorkOK'
    BY <1>1 DEF Inv, wire, workers, LinkOK, DownOK, UpOK, CacheOK, RunsOK, JobsOK, WorkOK
<1>10. SendingOK'
  <2>1. TasksKept(db')
    BY <1>1, <1>2 DEF TasksKept
  <2> QED BY <1>1, <2>1, SendingStays DEF Inv
<1> QED BY <1>3, <1>8, <1>9, <1>10 DEF Inv

\* The message of an assignment.
LEMMA AssignIs ==
    ASSUME NEW h, NEW a, SendEntry(handler[h].snapshot.version, a), ToSend(a)
    PROVE  AssignMessage(h, a) \in DownMessage
<1> DEFINE m == AssignMessage(h, a)
           ver == handler[h].snapshot.version[a.profile]
           slot == IF a.warm THEN a.place[2] ELSE 0
           files == AssignedArtifacts(a) \cap db.artifacts
<1>1. a.profile \in Profiles /\ ver \in Nat \ {0} /\ a.warm \in BOOLEAN /\ a.place \in Places /\ GoodEntry(a)
    BY DEF SendEntry
<1>2. PICK v \in Variants(a.profile) : a.variant = v.id
    BY <1>1 DEF ToSend, GoodEntry
<1>3. /\ v.id \in Nat \ {0} /\ VariantOf(a.profile, v.id) = v /\ ToSet(v.artifacts) \in SUBSET Artifacts
    BY <1>1, VariantFacts
<1>4. files \in SUBSET Artifacts
  <2>1. AssignedArtifacts(a) = ToSet(v.artifacts)
    BY <1>2, <1>3 DEF AssignedArtifacts
  <2> QED BY <1>3, <2>1
<1>5. slot \in Slots \cup {0}
  <2>1. a.place[1] \in {"slot", "cache", "missing"}
    BY <1>1 DEF Places
  <2>2. a.warm => a.place[1] = "slot"
    BY <1>1, <2>1 DEF GoodEntry, ToSend
  <2> QED BY <1>1, <2>2 DEF GoodEntry
<1>6. m = [type |-> "assign", profile |-> a.profile, version |-> ver, variant |-> a.variant, warm |-> a.warm,
           slot |-> slot, files |-> files]
    BY DEF AssignMessage
<1> HIDE DEF m, ver, slot, files
<1>7. m \in [type : {"assign"}, profile : Profiles, version : Nat \ {0}, variant : Nat, warm : BOOLEAN,
             slot : Slots \cup {0}, files : SUBSET Artifacts]
    BY <1>1, <1>2, <1>3, <1>4, <1>5, <1>6
<1>8. KnownVariant(m)
    BY <1>1, <1>2, <1>6 DEF KnownVariant
<1> QED BY <1>7, <1>8 DEF DownMessage, m

\* What is sent of a plan names variants of the profiles of its snapshot.
LEMMA SendAssignmentsInv ==
    ASSUME Inv, NEW h \in Handlers, SendAssignments(h)
    PROVE  Inv'
<1> DEFINE plan == handler[h].plan
           mine(n) == EntriesAt(plan, {i \in SendPlaces(plan) : plan[i].node = n})
           msgs == [n \in Nodes |-> [i \in DOMAIN mine(n) |-> AssignMessage(h, mine(n)[i])]]
           H == [Idle EXCEPT !.pc = "stale"]
<1>1. /\ handler[h].pc = "send" /\ Enqueue(msgs) /\ handler' = [handler EXCEPT ![h] = H]
      /\ UNCHANGED <<db, link, up, workers, sending, unplanned>>
    BY DEF SendAssignments, history
<1>2. /\ Len(plan) \in Nat /\ DOMAIN plan = 1..Len(plan)
      /\ \A i \in DOMAIN plan : SendEntry(handler[h].snapshot.version, plan[i])
    BY <1>1 DEF Inv, HandlersOK, HandlerOK, SendHeld
<1>3. ASSUME NEW n \in Nodes PROVE msgs[n] \in Seq(DownMessage)
  <2> DEFINE places == {i \in SendPlaces(plan) : plan[i].node = n}
             q == EntriesAt(plan, places)
             k == Cardinality(places)
             ms == [i \in DOMAIN q |-> AssignMessage(h, q[i])]
  <2>1. places \subseteq 1..Len(plan) /\ \A i \in places : i \in DOMAIN plan /\ ToSend(plan[i])
    BY <1>2 DEF SendPlaces
  <2>2. msgs[n] = ms
    OBVIOUS
  <2> HIDE DEF places, plan
  <2>3. k \in Nat /\ DOMAIN q = 1..k /\ \A i \in 1..k : \E j \in places : q[i] = plan[j]
    BY <1>2, <2>1, EntriesAtAre
  <2> HIDE DEF q, k
  <2>4. ASSUME NEW i \in 1..k PROVE AssignMessage(h, q[i]) \in DownMessage
    <3>1. PICK j \in places : q[i] = plan[j]
      BY <2>3
    <3> QED BY <1>2, <2>1, <3>1, AssignIs
  <2>5. ms = [i \in 1..k |-> ms[i]] /\ \A i \in 1..k : ms[i] = AssignMessage(h, q[i])
    BY <2>3
  <2> HIDE DEF ms
  <2>6. ms \in Seq(DownMessage)
    BY <2>3, <2>4, <2>5, IsASeq
  <2> QED BY <2>2, <2>6
<1> HIDE DEF msgs, plan, H
<1>4. DownOK'
    BY <1>1, <1>3, DownGrows DEF Inv
<1>5. HandlersOK' /\ (Replanning => Replanning')
    BY <1>1, EmptyHands, HandlerMoves DEF Inv, H
<1>6. /\ DatabaseOK(db') /\ NoDanglingArtifact'
      /\ FollowsPlan(db, unplanned) => FollowsPlan(db, unplanned)'
    BY <1>1 DEF Inv, NoDanglingArtifact
<1>7. LinkOK' /\ UpOK' /\ CacheOK' /\ RunsOK' /\ JobsOK' /\ WorkOK'
    BY <1>1 DEF Inv, workers, LinkOK, UpOK, CacheOK, RunsOK, JobsOK, WorkOK
<1>8. SendingOK'
    BY <1>1 DEF Inv, SendingOK
<1> QED BY <1>4, <1>5, <1>6, <1>7, <1>8 DEF Inv, DrainInv

\* What is stale is looked for in the database as it is now.
LEMMA PlanEvictionsInv ==
    ASSUME Inv, NEW h \in Handlers, PlanEvictions(h)
    PROVE  Inv'
<1> DEFINE stale == StaleArtifactEvictions(db)
           H == IF stale = {} THEN Idle ELSE [Idle EXCEPT !.pc = "evict", !.targets = stale]
<1>1. /\ handler[h].pc = "stale" /\ handler' = [handler EXCEPT ![h] = H] /\ UNCHANGED <<db, wire, workers, sending, unplanned>>
    BY DEF PlanEvictions, history
<1>2. stale \in SUBSET (Nodes \X Artifacts)
    BY DEF StaleArtifactEvictions
<1> HIDE DEF stale
<1>3. HandlerOK(H)
    BY <1>2, EmptyHands
<1> HIDE DEF H
<1>4. HandlersOK' /\ (Replanning => Replanning')
    BY <1>1, <1>3, HandlerMoves DEF Inv
<1>5. /\ DatabaseOK(db') /\ NoDanglingArtifact'
      /\ FollowsPlan(db, unplanned) => FollowsPlan(db, unplanned)'
    BY <1>1 DEF Inv, NoDanglingArtifact
<1>6. LinkOK' /\ DownOK' /\ UpOK' /\ CacheOK' /\ RunsOK' /\ JobsOK' /\ WorkOK'
    BY <1>1 DEF Inv, wire, workers, LinkOK, DownOK, UpOK, CacheOK, RunsOK, JobsOK, WorkOK
<1>7. SendingOK'
    BY <1>1 DEF Inv, SendingOK
<1> QED BY <1>4, <1>5, <1>6, <1>7 DEF Inv, DrainInv

\* An eviction is sent for every artifact that was found stale.
LEMMA DispatchEvictionsInv ==
    ASSUME Inv, NEW h \in Handlers, DispatchEvictions(h)
    PROVE  Inv'
<1> DEFINE mine(n) == Ascending({x[2] : x \in {y \in handler[h].targets : y[1] = n}})
           msgs == [n \in Nodes |-> [i \in DOMAIN mine(n) |-> EvictMessage(mine(n)[i])]]
<1>1. /\ handler[h].pc = "evict" /\ Enqueue(msgs) /\ handler' = [handler EXCEPT ![h] = Idle]
      /\ UNCHANGED <<db, link, up, workers, sending, unplanned>>
    BY DEF DispatchEvictions, history
<1>2. handler[h].targets \subseteq Nodes \X Artifacts
    BY DEF Inv, HandlersOK, HandlerOK
<1>3. ASSUME NEW n \in Nodes PROVE msgs[n] \in Seq(DownMessage)
  <2> DEFINE S == {x[2] : x \in {y \in handler[h].targets : y[1] = n}}
             q == Ascending(S)
             k == Cardinality(S)
             ms == [i \in DOMAIN q |-> EvictMessage(q[i])]
  <2>1. S \subseteq Artifacts
    BY <1>2
  <2>2. msgs[n] = ms
    OBVIOUS
  <2> HIDE DEF S
  <2>3. IsFiniteSet(S) /\ S \subseteq Int
    <3>1. IsFiniteSet(Artifacts) /\ Artifacts \subseteq Int
      BY CatalogueConstants
    <3>2. IsFiniteSet(S)
      BY <2>1, <3>1, FS_Subset
    <3> QED BY <2>1, <3>1, <3>2
  <2>4. k \in Nat /\ DOMAIN q = 1..k /\ \A i \in DOMAIN q : q[i] \in S
    BY <2>3, AscendingIs
  <2> HIDE DEF q, k
  <2>5. \A i \in 1..k : EvictMessage(q[i]) \in DownMessage
    BY <2>1, <2>4 DEF EvictMessage, DownMessage
  <2>6. ms = [i \in 1..k |-> ms[i]] /\ \A i \in 1..k : ms[i] = EvictMessage(q[i])
    BY <2>4
  <2> HIDE DEF ms
  <2>7. ms \in Seq(DownMessage)
    BY <2>4, <2>5, <2>6, IsASeq
  <2> QED BY <2>2, <2>7
<1> HIDE DEF msgs
<1>4. DownOK'
    BY <1>1, <1>3, DownGrows DEF Inv
<1>5. HandlersOK' /\ (Replanning => Replanning')
    BY <1>1, EmptyHands, HandlerMoves DEF Inv
<1>6. /\ DatabaseOK(db') /\ NoDanglingArtifact'
      /\ FollowsPlan(db, unplanned) => FollowsPlan(db, unplanned)'
    BY <1>1 DEF Inv, NoDanglingArtifact
<1>7. LinkOK' /\ UpOK' /\ CacheOK' /\ RunsOK' /\ JobsOK' /\ WorkOK'
    BY <1>1 DEF Inv, workers, LinkOK, UpOK, CacheOK, RunsOK, JobsOK, WorkOK
<1>8. SendingOK'
    BY <1>1 DEF Inv, SendingOK
<1> QED BY <1>4, <1>5, <1>6, <1>7, <1>8 DEF Inv, DrainInv

-----------------------------------------------------------------------------
(* Edits of the database *)

\* A record is replaced in one of the tables.
LEMMA NodePut ==
    ASSUME NEW f, NodesOK(f), NEW n \in Nodes, NEW r \in NodeRecord
    PROVE  NodesOK([f EXCEPT ![n] = r])
    BY DEF NodesOK

\* One slot is replaced by a good one.
LEMMA SlotPut ==
    ASSUME NEW f, SlotsOK(f), NEW s \in Slots, NEW r, SlotOK(r)
    PROVE  SlotsOK([f EXCEPT ![s] = r])
<1> DEFINE g == [f EXCEPT ![s] = r]
<1>1. f = [k \in Slots |-> f[k]] /\ \A k \in Slots : SlotOK(f[k])
    BY DEF SlotsOK
<1>2. g = [k \in Slots |-> g[k]] /\ g[s] = r /\ \A k \in Slots : k # s => g[k] = f[k]
    BY <1>1
<1> HIDE DEF g
<1>3. \A k \in Slots : SlotOK(g[k])
    BY <1>1, <1>2
<1> QED BY <1>2, <1>3 DEF SlotsOK, g

\* The same for a task.
LEMMA TaskPut ==
    ASSUME NEW f, TasksOK(f), NEW t \in Tasks, NEW r, TaskOK(r)
    PROVE  TasksOK([f EXCEPT ![t] = r])
<1> DEFINE g == [f EXCEPT ![t] = r]
<1>1. f = [k \in Tasks |-> f[k]] /\ \A k \in Tasks : TaskOK(f[k])
    BY DEF TasksOK
<1>2. g = [k \in Tasks |-> g[k]] /\ g[t] = r /\ \A k \in Tasks : k # t => g[k] = f[k]
    BY <1>1
<1> HIDE DEF g
<1>3. \A k \in Tasks : TaskOK(g[k])
    BY <1>1, <1>2
<1> QED BY <1>2, <1>3 DEF TasksOK, g

\* The files of the profiles stay registered, and no task is forgotten, while neither
\* table changes.
LEMMA FilesStay ==
    ASSUME FilesThere(db), NEW d, d.version = db.version, d.artifacts = db.artifacts, d.task = db.task
    PROVE  FilesThere(d) /\ TasksKept(d)
    BY DEF FilesThere, TasksKept

\* The parts of the Manager's database.
LEMMA Database ==
    ASSUME Inv
    PROVE  /\ IsDatabase(db) /\ VersionsOK(db.version) /\ PoliciesOK(db.policy)
           /\ NodesOK(db.node) /\ SlotsOK(db.slot) /\ TasksOK(db.task) /\ FilesThere(db)
    BY DatabaseParts DEF Inv, NoDanglingArtifact

\* An admin's edit with a replan to come.
LEMMA ReplannedEdit ==
    ASSUME Inv, NEW d, NEW kind, Edit(kind, d), ThenReplan, DatabaseOK(d), FilesThere(d), TasksKept(d)
    PROVE  Inv'
<1>1. db' = d /\ handler' = [handler EXCEPT ![Admin] = Replan] /\ UNCHANGED <<wire, workers, sending>>
    BY DEF Edit, ThenReplan
<1>2. HandlersOK' /\ DrainInv'
    BY <1>1, HandlerSet, Replans DEF Inv
<1>3. DatabaseOK(db') /\ NoDanglingArtifact'
    BY <1>1 DEF NoDanglingArtifact, FilesThere
<1>4. LinkOK' /\ DownOK' /\ UpOK' /\ CacheOK' /\ RunsOK' /\ JobsOK' /\ WorkOK'
    BY <1>1 DEF Inv, wire, workers, LinkOK, DownOK, UpOK, CacheOK, RunsOK, JobsOK, WorkOK
<1>5. SendingOK'
    BY <1>1, SendingStays DEF Inv
<1> QED BY <1>2, <1>3, <1>4, <1>5 DEF Inv

\* A change that opens or closes no slot, but for those it sets apart.
LEMMA PlainEdit ==
    ASSUME Inv, NEW d, db' = d, DatabaseOK(d), FilesThere(d), TasksKept(d),
           FollowsPlan(db, unplanned) => FollowsPlan(d, unplanned'),
           UNCHANGED <<handler, wire, workers, sending>>
    PROVE  Inv'
<1>1. HandlersOK' /\ (Replanning => Replanning')
    BY DEF Inv, HandlersOK, Replanning
<1>2. DatabaseOK(db') /\ NoDanglingArtifact' /\ (FollowsPlan(db, unplanned) => FollowsPlan(db, unplanned)')
    BY DEF NoDanglingArtifact
<1>3. LinkOK' /\ DownOK' /\ UpOK' /\ CacheOK' /\ RunsOK' /\ JobsOK' /\ WorkOK'
    BY DEF Inv, wire, workers, LinkOK, DownOK, UpOK, CacheOK, RunsOK, JobsOK, WorkOK
<1>4. SendingOK'
    BY SendingStays DEF Inv
<1> QED BY <1>1, <1>2, <1>3, <1>4 DEF Inv, DrainInv

-----------------------------------------------------------------------------
(* The admin API *)

\* upsertProfile asks for the files.
LEMMA UpsertProfileInv ==
    ASSUME Inv, NEW p \in Profiles, UpsertProfile(p)
    PROVE  Inv'
<1> DEFINE version == [db.version EXCEPT ![p] = db.version[p] + 1]
           d == [db EXCEPT !.version = version]
<1>1. ProfileArtifacts(p) \subseteq db.artifacts /\ Edit("profile", d) /\ ThenReplan
    BY DEF UpsertProfile
<1>2. VersionsOK(version) /\ \A q \in Profiles : q # p => version[q] = db.version[q]
    BY Database DEF VersionsOK
<1> HIDE DEF version
<1>3. /\ IsDatabase(d) /\ d.version = version /\ d.policy = db.policy /\ d.node = db.node /\ d.slot = db.slot
      /\ d.task = db.task /\ d.artifacts = db.artifacts
    BY Database DEF IsDatabase
<1> HIDE DEF d
<1>4. DatabaseOK(d)
    BY <1>2, <1>3, Database, DatabaseParts
<1>5. FilesThere(d) /\ TasksKept(d)
    BY <1>1, <1>2, <1>3, Database DEF FilesThere, TasksKept
<1> QED BY <1>1, <1>4, <1>5, ReplannedEdit

\* deleteProfile
LEMMA DeleteProfileInv ==
    ASSUME Inv, NEW p \in Profiles, DeleteProfile(p)
    PROVE  Inv'
<1> DEFINE version == [db.version EXCEPT ![p] = 0]
           policy == [db.policy EXCEPT ![p] = NoPolicy]
           kept == {a \in db.assignments : a.profile # p}
           d == [db EXCEPT !.version = version, !.policy = policy, !.assignments = kept]
<1>1. Edit("profile", d) /\ ThenReplan
    BY DEF DeleteProfile
<1>2. VersionsOK(version) /\ version[p] = 0 /\ \A q \in Profiles : q # p => version[q] = db.version[q]
    BY Database DEF VersionsOK
<1>3. PoliciesOK(policy)
    BY Database DEF PoliciesOK
<1> HIDE DEF version, policy, kept
<1>4. /\ IsDatabase(d) /\ d.version = version /\ d.policy = policy /\ d.node = db.node /\ d.slot = db.slot
      /\ d.task = db.task /\ d.artifacts = db.artifacts
  <2> DEFINE d1 == [db EXCEPT !.version = version]
             d2 == [d1 EXCEPT !.policy = policy]
  <2>1. /\ IsDatabase(d1) /\ d1.version = version /\ d1.policy = db.policy /\ d1.node = db.node
        /\ d1.slot = db.slot /\ d1.task = db.task /\ d1.artifacts = db.artifacts
    BY Database DEF IsDatabase
  <2>2. d = [d2 EXCEPT !.assignments = kept]
    OBVIOUS
  <2> HIDE DEF d1, d
  <2>3. /\ IsDatabase(d2) /\ d2.version = d1.version /\ d2.policy = policy /\ d2.node = d1.node
        /\ d2.slot = d1.slot /\ d2.task = d1.task /\ d2.artifacts = d1.artifacts
    BY <2>1 DEF IsDatabase
  <2> HIDE DEF d2
  <2>4. /\ IsDatabase(d) /\ d.version = d2.version /\ d.policy = d2.policy /\ d.node = d2.node
        /\ d.slot = d2.slot /\ d.task = d2.task /\ d.artifacts = d2.artifacts
    BY <2>2, <2>3 DEF IsDatabase
  <2> QED BY <2>1, <2>3, <2>4
<1> HIDE DEF d
<1>5. DatabaseOK(d)
    BY <1>2, <1>3, <1>4, Database, DatabaseParts
<1>6. FilesThere(d) /\ TasksKept(d)
    BY <1>2, <1>4, Database DEF FilesThere, TasksKept
<1> QED BY <1>1, <1>5, <1>6, ReplannedEdit

\* A policy is checked before it is stored.
LEMMA UpsertPolicyInv ==
    ASSUME Inv, NEW p \in Profiles, NEW policy \in Policies, UpsertPolicy(p, policy)
    PROVE  Inv'
<1> DEFINE policies == [db.policy EXCEPT ![p] = policy]
           d == [db EXCEPT !.policy = policies]
<1>1. ValidPolicy(policy) /\ Edit("policy", d) /\ ThenReplan
    BY DEF UpsertPolicy
<1>2. GoodPolicy(policy)
    BY SetUpConstants
<1>3. PoliciesOK(policies)
  <2>1. /\ db.policy = [q \in Profiles |-> db.policy[q]]
        /\ \A q \in Profiles : db.policy[q] # NoPolicy => GoodPolicy(db.policy[q]) /\ ValidPolicy(db.policy[q])
    BY Database DEF PoliciesOK
  <2>2. /\ policies = [q \in Profiles |-> policies[q]] /\ policies[p] = policy
        /\ \A q \in Profiles : q # p => policies[q] = db.policy[q]
    BY <2>1
  <2> HIDE DEF policies
  <2> QED BY <1>1, <1>2, <2>1, <2>2 DEF PoliciesOK
<1> HIDE DEF policies
<1>4. /\ IsDatabase(d) /\ d.version = db.version /\ d.policy = policies /\ d.node = db.node /\ d.slot = db.slot
      /\ d.task = db.task /\ d.artifacts = db.artifacts
    BY Database DEF IsDatabase
<1> HIDE DEF d
<1>5. DatabaseOK(d)
    BY <1>3, <1>4, Database, DatabaseParts
<1>6. FilesThere(d) /\ TasksKept(d)
    BY <1>4, Database, FilesStay
<1> QED BY <1>1, <1>5, <1>6, ReplannedEdit

\* upsertAdminNode
LEMMA UpdateNodeInv ==
    ASSUME Inv, NEW n \in Nodes, NEW approved \in BOOLEAN, NEW disabled \in BOOLEAN,
           NEW state \in NodeStates \ {"absent"}, UpdateNode(n, approved, disabled, state)
    PROVE  Inv'
<1> DEFINE old == db.node[n]
           r == [old EXCEPT !.approved = approved, !.disabled = disabled, !.state = state]
           nodes == [db.node EXCEPT ![n] = r]
           d == [db EXCEPT !.node = nodes]
<1>1. old \in NodeRecord
    BY Database DEF NodesOK
<1>2. r \in NodeRecord
    BY <1>1 DEF NodeRecord
<1>3. Edit("node", d) /\ ThenReplan
    BY DEF UpdateNode
<1> HIDE DEF r
<1>4. NodesOK(nodes)
    BY <1>2, Database, NodePut
<1> HIDE DEF nodes
<1>5. /\ IsDatabase(d) /\ d.version = db.version /\ d.policy = db.policy /\ d.node = nodes /\ d.slot = db.slot
      /\ d.task = db.task /\ d.artifacts = db.artifacts
    BY Database DEF IsDatabase
<1> HIDE DEF d
<1>6. DatabaseOK(d)
    BY <1>4, <1>5, Database, DatabaseParts
<1>7. FilesThere(d) /\ TasksKept(d)
    BY <1>5, Database, FilesStay
<1> QED BY <1>3, <1>6, <1>7, ReplannedEdit

-----------------------------------------------------------------------------
(* One table of the database is replaced *)

\* Other nodes, and all else as it was.
LEMMA PutNodes ==
    ASSUME NEW d, IsDatabase(d), NEW f
    PROVE  LET d2 == [d EXCEPT !.node = f]
           IN  /\ IsDatabase(d2) /\ d2.node = f
               /\ d2.version = d.version /\ d2.policy = d.policy /\ d2.slot = d.slot /\ d2.task = d.task
               /\ d2.assignments = d.assignments /\ d2.artifacts = d.artifacts /\ d2.intents = d.intents
               /\ d2.attempts = d.attempts
    BY DEF IsDatabase

\* Other slots, and all else as it was.
LEMMA PutSlots ==
    ASSUME NEW d, IsDatabase(d), NEW f
    PROVE  LET d2 == [d EXCEPT !.slot = f]
           IN  /\ IsDatabase(d2) /\ d2.slot = f
               /\ d2.version = d.version /\ d2.policy = d.policy /\ d2.node = d.node /\ d2.task = d.task
               /\ d2.assignments = d.assignments /\ d2.artifacts = d.artifacts /\ d2.intents = d.intents
               /\ d2.attempts = d.attempts
    BY DEF IsDatabase

\* Other tasks and attempts, and all else as it was.
WithTasks(d, g, f) == [d EXCEPT !.attempts = g, !.task = f]
LEMMA PutTasks ==
    ASSUME NEW d, IsDatabase(d), NEW f, NEW g, AttemptsOK(g, f)
    PROVE  LET d2 == WithTasks(d, g, f)
           IN  /\ IsDatabase(d2) /\ d2.task = f /\ d2.attempts = g
               /\ d2.version = d.version /\ d2.policy = d.policy /\ d2.node = d.node /\ d2.slot = d.slot
               /\ d2.assignments = d.assignments /\ d2.artifacts = d.artifacts /\ d2.intents = d.intents
<1> DEFINE d1 == [d EXCEPT !.attempts = g]
           d2 == WithTasks(d, g, f)
<1>1. d1 = [version |-> d.version, policy |-> d.policy, node |-> d.node, slot |-> d.slot, task |-> d.task,
            attempts |-> g, assignments |-> d.assignments, artifacts |-> d.artifacts, intents |-> d.intents]
    BY DEF IsDatabase
<1>2. d2 = [d1 EXCEPT !.task = f]
    BY DEF WithTasks
<1> HIDE DEF d1, d2
<1>3. d2 = [version |-> d.version, policy |-> d.policy, node |-> d.node, slot |-> d.slot, task |-> f,
            attempts |-> g, assignments |-> d.assignments, artifacts |-> d.artifacts, intents |-> d.intents]
    BY <1>1, <1>2
<1> QED BY <1>3 DEF IsDatabase, d2

\* Other assignments, and all else as it was.
LEMMA PutAssignments ==
    ASSUME NEW d, IsDatabase(d), NEW f
    PROVE  LET d2 == [d EXCEPT !.assignments = f]
           IN  /\ IsDatabase(d2) /\ d2.assignments = f
               /\ d2.version = d.version /\ d2.policy = d.policy /\ d2.node = d.node /\ d2.slot = d.slot
               /\ d2.task = d.task /\ d2.artifacts = d.artifacts /\ d2.intents = d.intents
               /\ d2.attempts = d.attempts
    BY DEF IsDatabase

\* Other artifacts, and all else as it was.
LEMMA PutArtifacts ==
    ASSUME NEW d, IsDatabase(d), NEW f
    PROVE  LET d2 == [d EXCEPT !.artifacts = f]
           IN  /\ IsDatabase(d2) /\ d2.artifacts = f
               /\ d2.version = d.version /\ d2.policy = d.policy /\ d2.node = d.node /\ d2.slot = d.slot
               /\ d2.task = d.task /\ d2.assignments = d.assignments /\ d2.intents = d.intents
               /\ d2.attempts = d.attempts
    BY DEF IsDatabase

\* Other intents, and all else as it was.
LEMMA PutIntents ==
    ASSUME NEW d, IsDatabase(d), NEW f
    PROVE  LET d2 == [d EXCEPT !.intents = f]
           IN  /\ IsDatabase(d2) /\ d2.intents = f
               /\ d2.version = d.version /\ d2.policy = d.policy /\ d2.node = d.node /\ d2.slot = d.slot
               /\ d2.task = d.task /\ d2.assignments = d.assignments /\ d2.artifacts = d.artifacts
               /\ d2.attempts = d.attempts
    BY DEF IsDatabase

-----------------------------------------------------------------------------
(* The admin API: nodes, slots and caches *)

\* handleAdminNodeDelete
LEMMA DeleteNodeInv ==
    ASSUME Inv, NEW n \in Nodes, DeleteNode(n)
    PROVE  Inv'
<1> DEFINE nodes == [db.node EXCEPT ![n] = NoNode]
           slots == [s \in Slots |-> IF s \in SlotsOf(n) THEN NoSlot ELSE db.slot[s]]
           kept == {a \in db.assignments : a.node # n}
           d1 == [db EXCEPT !.node = nodes]
           d2 == [d1 EXCEPT !.slot = slots]
           d == [d2 EXCEPT !.assignments = kept]
<1>1. Edit("node", d) /\ ThenReplan
    BY DEF DeleteNode
<1>2. NodesOK(nodes)
  <2>1. NoNode \in NodeRecord
    BY DEF NoNode, NodeRecord, NodeStates
  <2> QED BY <2>1, Database, NodePut
<1>3. SlotsOK(slots)
  <2>1. SlotOK(NoSlot)
    BY DEF NoSlot, SlotOK, SlotRecord, SlotStates
  <2>2. \A s \in Slots : SlotOK(db.slot[s])
    BY Database DEF SlotsOK
  <2> QED BY <2>1, <2>2 DEF SlotsOK
<1> HIDE DEF nodes, slots, kept
<1>4. /\ IsDatabase(d1) /\ d1.node = nodes /\ d1.version = db.version /\ d1.policy = db.policy
      /\ d1.task = db.task /\ d1.artifacts = db.artifacts
    BY Database, PutNodes
<1> HIDE DEF d1
<1>5. /\ IsDatabase(d2) /\ d2.slot = slots /\ d2.node = nodes /\ d2.version = db.version
      /\ d2.policy = db.policy /\ d2.task = db.task /\ d2.artifacts = db.artifacts
    BY <1>4, PutSlots
<1> HIDE DEF d2
<1>6. /\ IsDatabase(d) /\ d.slot = slots /\ d.node = nodes /\ d.version = db.version
      /\ d.policy = db.policy /\ d.task = db.task /\ d.artifacts = db.artifacts
    BY <1>5, PutAssignments
<1> HIDE DEF d
<1>7. DatabaseOK(d)
    BY <1>2, <1>3, <1>6, Database, DatabaseParts
<1>8. FilesThere(d) /\ TasksKept(d)
    BY <1>6, Database, FilesStay
<1> QED BY <1>1, <1>7, <1>8, ReplannedEdit

\* A slot is changed.
LEMMA SlotEdit ==
    ASSUME Inv, NEW s \in Slots, NEW r, SlotOK(r)
    PROVE  LET d == [db EXCEPT !.slot[s] = r]
           IN  /\ DatabaseOK(d) /\ FilesThere(d) /\ TasksKept(d) /\ d.slot = [db.slot EXCEPT ![s] = r]
               /\ d.policy = db.policy /\ d.assignments = db.assignments
<1> DEFINE slots == [db.slot EXCEPT ![s] = r]
           d == [db EXCEPT !.slot = slots]
<1>1. SlotsOK(slots)
    BY Database, SlotPut
<1> HIDE DEF slots
<1>2. /\ IsDatabase(d) /\ d.slot = slots /\ d.node = db.node /\ d.version = db.version
      /\ d.policy = db.policy /\ d.task = db.task /\ d.artifacts = db.artifacts /\ d.assignments = db.assignments
    BY Database, PutSlots
<1> HIDE DEF d
<1>3. DatabaseOK(d)
    BY <1>1, <1>2, Database, DatabaseParts
<1>4. FilesThere(d) /\ TasksKept(d)
    BY <1>2, Database, FilesStay
<1> QED BY <1>2, <1>3, <1>4 DEF d, slots

\* A node is changed: no slot's acceptance depends on it.
LEMMA NodeEdit ==
    ASSUME Inv, NEW n \in Nodes, NEW r \in NodeRecord
    PROVE  LET d == [db EXCEPT !.node[n] = r]
           IN  /\ DatabaseOK(d) /\ FilesThere(d) /\ TasksKept(d)
               /\ FollowsPlan(db, unplanned) => FollowsPlan(d, unplanned)
<1> DEFINE nodes == [db.node EXCEPT ![n] = r]
           d == [db EXCEPT !.node = nodes]
<1>1. NodesOK(nodes)
    BY Database, NodePut
<1> HIDE DEF nodes
<1>2. /\ IsDatabase(d) /\ d.slot = db.slot /\ d.node = nodes /\ d.version = db.version
      /\ d.policy = db.policy /\ d.task = db.task /\ d.artifacts = db.artifacts /\ d.assignments = db.assignments
    BY Database, PutNodes
<1> HIDE DEF d
<1>3. DatabaseOK(d)
    BY <1>1, <1>2, Database, DatabaseParts
<1>4. FilesThere(d) /\ TasksKept(d)
    BY <1>2, Database, FilesStay
<1>5. FollowsPlan(db, unplanned) => FollowsPlan(d, unplanned)
    BY <1>2, DrainStays
<1> QED BY <1>3, <1>4, <1>5 DEF d, nodes

\* An intent is recorded.
LEMMA IntentEdit ==
    ASSUME Inv, NEW f
    PROVE  LET d == [db EXCEPT !.intents = f]
           IN  /\ DatabaseOK(d) /\ FilesThere(d) /\ TasksKept(d)
               /\ FollowsPlan(db, unplanned) => FollowsPlan(d, unplanned)
<1> DEFINE d == [db EXCEPT !.intents = f]
<1>1. /\ IsDatabase(d) /\ d.slot = db.slot /\ d.node = db.node /\ d.version = db.version
      /\ d.policy = db.policy /\ d.task = db.task /\ d.artifacts = db.artifacts /\ d.assignments = db.assignments
    BY Database, PutIntents
<1> HIDE DEF d
<1>2. DatabaseOK(d)
    BY <1>1, Database, DatabaseParts
<1>3. FilesThere(d) /\ TasksKept(d)
    BY <1>1, Database, FilesStay
<1>4. FollowsPlan(db, unplanned) => FollowsPlan(d, unplanned)
    BY <1>1, DrainStays
<1> QED BY <1>2, <1>3, <1>4 DEF d

\* handleAdminUnban: a slot that is free again takes requests.
LEMMA UnbanInv ==
    ASSUME Inv, NEW s \in Slots, Unban(s)
    PROVE  Inv'
<1> DEFINE r == ClearSlotQuarantine(db.slot[s])
           d == [db EXCEPT !.slot[s] = r]
<1>1. SlotOK(db.slot[s])
    BY Database DEF SlotsOK
<1>2. SlotOK(r)
    BY <1>1, ClearSlotQuarantineOK
<1>3. Edit("unban", d) /\ ThenReplan
    BY DEF Unban
<1> HIDE DEF r
<1>4. DatabaseOK(d) /\ FilesThere(d) /\ TasksKept(d)
    BY <1>2, SlotEdit
<1> HIDE DEF d
<1> QED BY <1>3, <1>4, ReplannedEdit

\* handleApplyPlacement
LEMMA ApplyPlacementInv ==
    ASSUME Inv, ApplyPlacement
    PROVE  Inv'
<1>1. Edit("apply", db) /\ ThenReplan
    BY DEF ApplyPlacement
<1>2. DatabaseOK(db) /\ FilesThere(db) /\ TasksKept(db)
    BY DEF Inv, NoDanglingArtifact, TasksKept
<1> QED BY <1>1, <1>2, ReplannedEdit

\* The registry of artifacts: what a profile needs stays.
LEMMA ArtifactInv ==
    ASSUME Inv, NEW a \in Artifacts, UploadArtifact(a) \/ DeleteArtifact(a)
    PROVE  Inv'
<1>1. PICK f : /\ db' = [db EXCEPT !.artifacts = f] /\ UNCHANGED <<handler, wire, workers, sending, unplanned>>
               /\ \A p \in Profiles : db.version[p] > 0 => ProfileArtifacts(p) \subseteq f
  <2>1. \A p \in Profiles : db.version[p] > 0 => ProfileArtifacts(p) \subseteq db.artifacts
    BY Database DEF FilesThere
  <2>2. CASE UploadArtifact(a)
    <3>1. db' = [db EXCEPT !.artifacts = db.artifacts \cup {a}] /\ UNCHANGED <<handler, wire, workers, sending, unplanned>>
      BY <2>2 DEF UploadArtifact, Edit, NoReplan, history
    <3> QED BY <2>1, <3>1
  <2>3. CASE DeleteArtifact(a)
    <3>1. /\ db' = [db EXCEPT !.artifacts = db.artifacts \ {a}] /\ UNCHANGED <<handler, wire, workers, sending, unplanned>>
          /\ \A p \in Profiles : db.version[p] > 0 => a \notin ProfileArtifacts(p)
      BY <2>3 DEF DeleteArtifact, Edit, NoReplan, history
    <3>2. \A p \in Profiles : db.version[p] > 0 => ProfileArtifacts(p) \subseteq db.artifacts \ {a}
      BY <2>1, <3>1
    <3> QED BY <3>1, <3>2
  <2> QED BY <2>2, <2>3
<1> DEFINE d == [db EXCEPT !.artifacts = f]
<1>2. /\ IsDatabase(d) /\ d.slot = db.slot /\ d.node = db.node /\ d.version = db.version
      /\ d.policy = db.policy /\ d.task = db.task /\ d.artifacts = f /\ d.assignments = db.assignments
    BY Database, PutArtifacts
<1>3. db' = d /\ UNCHANGED <<handler, wire, workers, sending, unplanned>>
    BY <1>1
<1> HIDE DEF d
<1>4. DatabaseOK(d)
    BY <1>2, Database, DatabaseParts
<1>5. FilesThere(d) /\ TasksKept(d)
    BY <1>1, <1>2 DEF FilesThere, TasksKept
<1>6. FollowsPlan(db, unplanned) => FollowsPlan(d, unplanned)
    BY <1>2, DrainStays
<1> QED BY <1>3, <1>4, <1>5, <1>6, PlainEdit

\* recordCacheIntent
LEMMA KeepCacheInv ==
    ASSUME Inv, NEW n \in Nodes, NEW a \in Artifacts, KeepCache(n, a)
    PROVE  Inv'
<1> DEFINE f == [db.intents EXCEPT ![n][a] = "keep"]
           d == [db EXCEPT !.intents = f]
<1>1. db' = d /\ UNCHANGED <<handler, wire, workers, sending, unplanned>>
    BY DEF KeepCache, Edit, NoReplan, history
<1> HIDE DEF f
<1>2. DatabaseOK(d) /\ FilesThere(d) /\ TasksKept(d) /\ (FollowsPlan(db, unplanned) => FollowsPlan(d, unplanned))
    BY IntentEdit
<1> HIDE DEF d
<1> QED BY <1>1, <1>2, PlainEdit

\* handleEvictCacheAction, handleEvictWhenIdleCacheAction
LEMMA RequestEvictionInv ==
    ASSUME Inv, NEW n \in Nodes, NEW a \in Artifacts, NEW whenIdle \in BOOLEAN, RequestEviction(n, a, whenIdle)
    PROVE  Inv'
<1> DEFINE f == [db.intents EXCEPT ![n][a] = IF whenIdle THEN "idle" ELSE "none"]
           d == [db EXCEPT !.intents = f]
           H == [Idle EXCEPT !.pc = "evict", !.targets = {<<n, a>>}]
<1>1. /\ db' = d /\ UNCHANGED <<wire, workers, sending, unplanned>> /\ handler[Admin].pc = "idle"
      /\ handler' = IF a \in InUse(db, n) THEN handler ELSE [handler EXCEPT ![Admin] = H]
    BY DEF RequestEviction, history
<1> HIDE DEF f
<1>2. DatabaseOK(d) /\ FilesThere(d) /\ TasksKept(d) /\ (FollowsPlan(db, unplanned) => FollowsPlan(d, unplanned))
    BY IntentEdit
<1> HIDE DEF d
<1>3. HandlerOK(H)
  <2>1. {<<n, a>>} \in SUBSET (Nodes \X Artifacts)
    OBVIOUS
  <2> QED BY <2>1, EmptyHands
<1> HIDE DEF H
<1>4. CASE a \in InUse(db, n)
  <2>1. UNCHANGED handler
    BY <1>1, <1>4
  <2> QED BY <1>1, <1>2, <2>1, PlainEdit
<1>5. CASE a \notin InUse(db, n)
  <2>1. handler' = [handler EXCEPT ![Admin] = H]
    BY <1>1, <1>5
  <2>2. HandlersOK' /\ (Replanning => Replanning')
    BY <1>1, <1>3, <2>1, HandlerSet, HandlerMoves DEF Inv
  <2>3. DatabaseOK(db') /\ NoDanglingArtifact' /\ (FollowsPlan(db, unplanned) => FollowsPlan(db, unplanned)')
    BY <1>1, <1>2 DEF NoDanglingArtifact
  <2>4. LinkOK' /\ DownOK' /\ UpOK' /\ CacheOK' /\ RunsOK' /\ JobsOK' /\ WorkOK'
    BY <1>1 DEF Inv, wire, workers, LinkOK, DownOK, UpOK, CacheOK, RunsOK, JobsOK, WorkOK
  <2>5. SendingOK'
    BY <1>1, <1>2, SendingStays DEF Inv
  <2> QED BY <2>2, <2>3, <2>4, <2>5 DEF Inv, DrainInv
<1> QED BY <1>4, <1>5

-----------------------------------------------------------------------------
(* The reader of a session *)

\* A message is read, and a replan follows.
LEMMA ReaderEdit ==
    ASSUME Inv, NEW n \in Nodes, NEW d, db' = d, DatabaseOK(d), FilesThere(d), TasksKept(d), up[n] # <<>>, Taken(n),
           ReaderReplans(n), LinkOK', UNCHANGED <<down, workers, sending>>
    PROVE  Inv'
<1>1. handler' = [handler EXCEPT ![n] = Replan] /\ n \in Handlers
    BY HandlerSet DEF ReaderReplans
<1>2. HandlersOK' /\ DrainInv'
    BY <1>1, Replans DEF Inv
<1>3. DatabaseOK(db') /\ NoDanglingArtifact'
    BY DEF NoDanglingArtifact, FilesThere
<1>4. UpOK'
    BY UpShrinks DEF Inv
<1>5. DownOK' /\ CacheOK' /\ RunsOK' /\ JobsOK' /\ WorkOK'
    BY DEF Inv, workers, DownOK, CacheOK, RunsOK, JobsOK, WorkOK
<1>6. SendingOK'
    BY SendingStays DEF Inv
<1> QED BY <1>2, <1>3, <1>4, <1>5, <1>6 DEF Inv

\* A message is read and no replan follows: the slots it opens or closes are set apart.
LEMMA ReaderWrites ==
    ASSUME Inv, NEW n \in Nodes, NEW d, db' = d, DatabaseOK(d), FilesThere(d), TasksKept(d), up[n] # <<>>, Taken(n),
           FollowsPlan(db, unplanned) => FollowsPlan(d, unplanned'),
           UNCHANGED <<handler, link, down, workers, sending>>
    PROVE  Inv'
<1>1. HandlersOK' /\ (Replanning => Replanning') /\ (FollowsPlan(db, unplanned) => FollowsPlan(db, unplanned)')
    BY DEF Inv, HandlersOK, Replanning
<1>2. DatabaseOK(db') /\ NoDanglingArtifact'
    BY DEF NoDanglingArtifact, FilesThere
<1>3. UpOK'
    BY UpShrinks DEF Inv
<1>4. LinkOK' /\ DownOK' /\ CacheOK' /\ RunsOK' /\ JobsOK' /\ WorkOK'
    BY DEF Inv, workers, LinkOK, DownOK, CacheOK, RunsOK, JobsOK, WorkOK
<1>5. SendingOK'
    BY SendingStays DEF Inv
<1> QED BY <1>1, <1>2, <1>3, <1>4, <1>5 DEF Inv, DrainInv

\* A message is read and changes nothing.
LEMMA ReaderSkips ==
    ASSUME Inv, NEW n \in Nodes, up[n] # <<>>, Taken(n),
           UNCHANGED <<db, handler, link, down, workers, sending, unplanned>>
    PROVE  Inv'
<1>1. DatabaseOK(db) /\ FilesThere(db) /\ TasksKept(db) /\ db' = db
    BY DEF Inv, NoDanglingArtifact, TasksKept
<1>2. FollowsPlan(db, unplanned) => FollowsPlan(db, unplanned')
    OBVIOUS
<1> QED BY <1>1, <1>2, ReaderWrites

\* The messages of a Worker by their type.
LEMMA UpKinds ==
    ASSUME NEW n \in Nodes, NEW m \in UpMessage(n)
    PROVE  /\ m.type = "state" => /\ m.cache \in SUBSET Artifacts
                                  /\ \A s \in SlotsOf(n) : RunOK(m.slots[s])
           /\ m.type = "slot" => m.slot \in Slots /\ RunOK(m.value)
           /\ m.type = "artifact" => m.artifact \in Artifacts
           /\ m.type = "failed" => m.attempt \in Nat /\ m.reason \in Reasons /\ m.retry \in BOOLEAN
           /\ m.type = "report" => /\ m.attempt \in Nat /\ m.status \in {"failed", "completed"}
                                   /\ m.retry \in BOOLEAN /\ (m.status = "failed" => m.reason \in Reasons)
    BY DEF UpMessage

\* recordWorkerFlapEvent
LEMMA FlapEventOK ==
    ASSUME NEW r \in NodeRecord
    PROVE  FlapEvent(r) \in NodeRecord
<1> DEFINE flaps == r.flaps + 1
           suppressed == IF flaps >= FlapThreshold THEN "yes" ELSE r.suppressed
<1>1. flaps \in Nat /\ suppressed \in {"no", "yes", "expired"}
    BY DEF NodeRecord
<1>2. FlapEvent(r) = [r EXCEPT !.flaps = flaps, !.suppressed = suppressed]
    BY DEF FlapEvent
<1> HIDE DEF flaps, suppressed
<1> QED BY <1>1, <1>2 DEF NodeRecord

\* normalizeWorkerNode and mergeExistingNode
LEMMA MergeNodeOK ==
    ASSUME NEW old \in NodeRecord, NEW cached \in SUBSET Artifacts
    PROVE  MergeNode(old, cached) \in NodeRecord
<1> DEFINE approved == old.approved \/ AutoApprove
           suppressed == IF old.suppressed = "expired" THEN "no" ELSE old.suppressed
           node == [old EXCEPT !.state = "online", !.disabled = FALSE, !.cached = cached,
                               !.approved = approved, !.suppressed = suppressed]
<1>1. approved \in BOOLEAN /\ suppressed \in {"no", "yes", "expired"}
  <2>1. approved \in BOOLEAN
    OBVIOUS
  <2>2. suppressed \in {"no", "yes", "expired"}
    BY DEF NodeRecord
  <2> QED BY <2>1, <2>2
<1> HIDE DEF approved, suppressed
<1>2. node \in NodeRecord
    BY <1>1 DEF NodeRecord, NodeStates
<1>3. MergeNode(old, cached) = IF old.state = "absent" THEN node ELSE FlapEvent(node)
    BY DEF MergeNode, approved, suppressed
<1> HIDE DEF node
<1> QED BY <1>2, <1>3, FlapEventOK

\* mergeExistingSlot
LEMMA MergeSlotOK ==
    ASSUME NEW old, SlotOK(old), NEW new, RunOK(new)
    PROVE  SlotOK(MergeSlot(old, new))
<1> DEFINE r == MergeSlot(old, new)
           banned == old.quarantined /\ ~old.expired
           profile == Or(new.profile, NoProfile, old.profile)
           version == Or(new.version, 0, old.version)
           variant == Or(new.variant, 0, old.variant)
           model == Or(new.model, 0, old.model)
           accepts == new.state = "ready" /\ ~banned
<1>1. old \in SlotRecord /\ new \in RunRecord /\ (new.state = "ready" => ~new.task)
    BY DEF SlotOK, RunOK
<1>2. /\ profile \in Profiles \cup {NoProfile} /\ version \in Nat /\ variant \in Nat
      /\ model \in Artifacts \cup {0} /\ accepts \in BOOLEAN /\ banned \in BOOLEAN
    BY <1>1 DEF SlotRecord, RunRecord, Or
<1>3. /\ new.state \in SlotStates /\ new.task \in BOOLEAN /\ old.failures \in Nat /\ old.counts \in [Reasons -> Nat]
    BY <1>1 DEF SlotRecord, RunRecord
<1>4. r = [state |-> new.state, profile |-> profile, version |-> version, variant |-> variant, model |-> model,
           task |-> new.task, quarantined |-> banned, expired |-> FALSE, failures |-> old.failures,
           counts |-> old.counts, accepts |-> accepts]
    BY DEF MergeSlot
<1>5. accepts => new.state = "ready" /\ ~new.task
    BY <1>1
<1> HIDE DEF r, banned, profile, version, variant, model, accepts
<1>6. r \in SlotRecord
    BY <1>2, <1>3, <1>4 DEF SlotRecord
<1>7. r.accepts = accepts /\ r.state = new.state /\ r.task = new.task /\ r.expired = FALSE
    BY <1>4
<1>8. SlotOK(r)
    BY <1>5, <1>6, <1>7 DEF SlotOK
<1> QED BY <1>8 DEF r

\* upsertWorkerState
LEMMA RegisterWorkerInv ==
    ASSUME Inv, NEW n \in Nodes, RegisterWorker(n)
    PROVE  Inv'
<1> DEFINE m == Head(up[n])
           r == MergeNode(db.node[n], m.cache)
           nodes == [db.node EXCEPT ![n] = r]
           slots == [s \in Slots |-> IF s \in SlotsOf(n) THEN MergeSlot(db.slot[s], m.slots[s]) ELSE db.slot[s]]
           d1 == [db EXCEPT !.node = nodes]
           d == [d1 EXCEPT !.slot = slots]
<1>1. /\ up[n] # <<>> /\ m.type = "state" /\ Taken(n) /\ db' = d /\ link' = [link EXCEPT ![n] = "registered"]
      /\ ReaderReplans(n) /\ UNCHANGED <<down, workers, sending>>
    BY DEF RegisterWorker, Reads
<1>2. m.cache \in SUBSET Artifacts /\ \A s \in SlotsOf(n) : RunOK(m.slots[s])
  <2>1. m \in UpMessage(n)
    BY <1>1, UpShrinks DEF Inv
  <2> HIDE DEF m
  <2> QED BY <1>1, <2>1, UpKinds
<1> HIDE DEF m
<1>3. NodesOK(nodes)
  <2>1. db.node[n] \in NodeRecord
    BY Database DEF NodesOK
  <2>2. r \in NodeRecord
    BY <1>2, <2>1, MergeNodeOK
  <2> HIDE DEF r
  <2> QED BY <2>2, Database, NodePut
<1>4. SlotsOK(slots)
  <2>1. \A s \in Slots : SlotOK(db.slot[s])
    BY Database DEF SlotsOK
  <2>2. ASSUME NEW s \in Slots PROVE SlotOK(slots[s])
    <3>1. CASE s \in SlotsOf(n)
      <4>1. slots[s] = MergeSlot(db.slot[s], m.slots[s])
        BY <3>1
      <4>2. SlotOK(MergeSlot(db.slot[s], m.slots[s]))
        BY <1>2, <2>1, <3>1, MergeSlotOK
      <4> HIDE DEF slots
      <4> QED BY <4>1, <4>2
    <3>2. CASE s \notin SlotsOf(n)
      <4>1. slots[s] = db.slot[s]
        BY <3>2
      <4> HIDE DEF slots
      <4> QED BY <2>1, <4>1
    <3> QED BY <3>1, <3>2
  <2>3. slots = [s \in Slots |-> slots[s]]
    OBVIOUS
  <2> HIDE DEF slots
  <2> QED BY <2>2, <2>3 DEF SlotsOK
<1> HIDE DEF nodes, slots
<1>5. /\ IsDatabase(d1) /\ d1.node = nodes /\ d1.version = db.version /\ d1.policy = db.policy
      /\ d1.task = db.task /\ d1.artifacts = db.artifacts
    BY Database, PutNodes
<1> HIDE DEF d1
<1>6. /\ IsDatabase(d) /\ d.slot = slots /\ d.node = nodes /\ d.version = db.version
      /\ d.policy = db.policy /\ d.task = db.task /\ d.artifacts = db.artifacts
    BY <1>5, PutSlots
<1> HIDE DEF d
<1>7. DatabaseOK(d)
    BY <1>3, <1>4, <1>6, Database, DatabaseParts
<1>8. FilesThere(d) /\ TasksKept(d)
    BY <1>6, Database, FilesStay
<1>9. LinkOK'
    BY <1>1 DEF Inv, LinkOK
<1> QED BY <1>1, <1>7, <1>8, <1>9, ReaderEdit

\* handleWorkerHeartbeat, the end of a suppression, and a flap that leaves the window.
LEMMA HeartbeatInv ==
    ASSUME Inv, NEW n \in Nodes, Heartbeat(n) \/ SuppressionExpires(n) \/ FlapExpires(n)
    PROVE  Inv'
<1>1. db.node[n] \in NodeRecord
    BY Database DEF NodesOK
<1>2. PICK r \in NodeRecord : db' = [db EXCEPT !.node[n] = r] /\ UNCHANGED <<handler, wire, workers, sending, unplanned>>
  <2>1. CASE Heartbeat(n)
    <3> DEFINE r == [db.node[n] EXCEPT !.state = "online"]
    <3>1. r \in NodeRecord
      BY <1>1 DEF NodeRecord, NodeStates
    <3>2. db' = [db EXCEPT !.node[n] = r] /\ UNCHANGED <<handler, wire, workers, sending, unplanned>>
      BY <2>1 DEF Heartbeat, history
    <3> HIDE DEF r
    <3> QED BY <3>1, <3>2
  <2>2. CASE SuppressionExpires(n)
    <3> DEFINE r == [db.node[n] EXCEPT !.suppressed = "expired"]
    <3>1. r \in NodeRecord
      BY <1>1 DEF NodeRecord
    <3>2. db' = [db EXCEPT !.node[n] = r] /\ UNCHANGED <<handler, wire, workers, sending, unplanned>>
      BY <2>2 DEF SuppressionExpires, history
    <3> HIDE DEF r
    <3> QED BY <3>1, <3>2
  <2>3. CASE FlapExpires(n)
    <3> DEFINE flaps == db.node[n].flaps - 1
               r == [db.node[n] EXCEPT !.flaps = flaps]
    <3>1. flaps \in Nat
      BY <1>1, <2>3 DEF NodeRecord, FlapExpires
    <3>2. db' = [db EXCEPT !.node[n] = r] /\ UNCHANGED <<handler, wire, workers, sending, unplanned>>
      BY <2>3 DEF FlapExpires, history
    <3> HIDE DEF flaps
    <3>3. r \in NodeRecord
      BY <1>1, <3>1 DEF NodeRecord
    <3> HIDE DEF r
    <3> QED BY <3>2, <3>3
  <2> QED BY <2>1, <2>2, <2>3
<1> DEFINE d == [db EXCEPT !.node[n] = r]
<1>3. DatabaseOK(d) /\ FilesThere(d) /\ TasksKept(d) /\ (FollowsPlan(db, unplanned) => FollowsPlan(d, unplanned))
    BY NodeEdit
<1>4. db' = d
    BY <1>2
<1> HIDE DEF d
<1> QED BY <1>2, <1>3, <1>4, PlainEdit

\* updateArtifactState
LEMMA UpdateArtifactStateInv ==
    ASSUME Inv, NEW n \in Nodes, UpdateArtifactState(n)
    PROVE  Inv'
<1> DEFINE m == Head(up[n])
           old == db.node[n]
           r1 == [old EXCEPT !.cached = old.cached \cup {m.artifact}]
           r2 == [old EXCEPT !.cached = old.cached \ {m.artifact}]
           nodes == [db.node EXCEPT ![n] = r2]
           f == [db.intents EXCEPT ![n][m.artifact] = "none"]
           d1 == [db EXCEPT !.node[n] = r1]
           d2 == [db EXCEPT !.node = nodes]
           d3 == [d2 EXCEPT !.intents = f]
<1>1. /\ up[n] # <<>> /\ m.type = "artifact" /\ Taken(n) /\ ReaderReplans(n) /\ UNCHANGED <<link, down, workers, sending>>
    BY DEF UpdateArtifactState, Reads
<1>2. db' = db \/ db' = d1 \/ db' = d3
    BY DEF UpdateArtifactState
<1>3. old \in NodeRecord /\ m.artifact \in Artifacts
  <2>1. m \in UpMessage(n)
    BY <1>1, UpShrinks DEF Inv
  <2> HIDE DEF m
  <2>2. m.artifact \in Artifacts
    BY <1>1, <2>1, UpKinds
  <2> QED BY <2>2, Database DEF NodesOK
<1> HIDE DEF m, old
<1>4. r1 \in NodeRecord /\ r2 \in NodeRecord
    BY <1>3 DEF NodeRecord
<1> HIDE DEF r1, r2
<1>5. DatabaseOK(db) /\ FilesThere(db) /\ TasksKept(db)
    BY DEF Inv, NoDanglingArtifact, TasksKept
<1>6. DatabaseOK(d1) /\ FilesThere(d1) /\ TasksKept(d1)
    BY <1>4, NodeEdit
<1>7. DatabaseOK(d3) /\ FilesThere(d3) /\ TasksKept(d3)
  <2>1. NodesOK(nodes)
    BY <1>4, Database, NodePut
  <2> HIDE DEF nodes, f
  <2>2. /\ IsDatabase(d2) /\ d2.slot = db.slot /\ d2.node = nodes /\ d2.version = db.version
        /\ d2.policy = db.policy /\ d2.task = db.task /\ d2.artifacts = db.artifacts
    BY Database, PutNodes
  <2> HIDE DEF d2
  <2>3. /\ IsDatabase(d3) /\ d3.slot = db.slot /\ d3.node = nodes /\ d3.version = db.version
        /\ d3.policy = db.policy /\ d3.task = db.task /\ d3.artifacts = db.artifacts
    BY <2>2, PutIntents
  <2> HIDE DEF d3
  <2>4. DatabaseOK(d3)
    BY <2>1, <2>3, Database, DatabaseParts
  <2> QED BY <2>3, <2>4, Database, FilesStay
<1> HIDE DEF d1, d3
<1>8. PICK d : db' = d /\ DatabaseOK(d) /\ FilesThere(d) /\ TasksKept(d)
    BY <1>2, <1>5, <1>6, <1>7
<1>9. LinkOK'
    BY <1>1 DEF Inv, LinkOK
<1> QED BY <1>1, <1>8, <1>9, ReaderEdit

\* applySlotStatePayload
LEMMA ApplySlotStateOK ==
    ASSUME NEW old, SlotOK(old), NEW new, RunOK(new)
    PROVE  SlotOK(ApplySlotState(old, new))
<1> DEFINE r == ApplySlotState(old, new)
           version == Or(new.version, 0, old.version)
           variant == Or(new.variant, 0, old.variant)
           model == Or(new.model, 0, old.model)
           accepts == new.state = "ready" /\ ~old.quarantined
<1>1. old \in SlotRecord /\ new \in RunRecord /\ (new.state = "ready" => ~new.task)
    BY DEF SlotOK, RunOK
<1>2. version \in Nat /\ variant \in Nat /\ model \in Artifacts \cup {0} /\ accepts \in BOOLEAN
    BY <1>1 DEF SlotRecord, RunRecord, Or
<1>3. new.state \in SlotStates /\ new.task \in BOOLEAN /\ new.profile \in Profiles \cup {NoProfile}
    BY <1>1 DEF RunRecord
<1>4. r = [old EXCEPT !.state = new.state, !.profile = new.profile, !.task = new.task, !.version = version,
                      !.variant = variant, !.model = model, !.accepts = accepts]
    BY DEF ApplySlotState
<1>5. accepts => new.state = "ready" /\ ~new.task
    BY <1>1
<1> HIDE DEF r, version, variant, model, accepts
<1>6. r \in SlotRecord
    BY <1>1, <1>2, <1>3, <1>4 DEF SlotRecord
<1>7. /\ r.accepts = accepts /\ r.state = new.state /\ r.task = new.task
      /\ r.expired = old.expired /\ r.quarantined = old.quarantined
    BY <1>1, <1>4 DEF SlotRecord
<1>8. SlotOK(r)
    BY <1>5, <1>6, <1>7 DEF SlotOK
<1> QED BY <1>8 DEF r

\* updateSlotState
LEMMA UpdateSlotStateInv ==
    ASSUME Inv, NEW n \in Nodes, UpdateSlotState(n)
    PROVE  Inv'
<1> DEFINE m == Head(up[n])
           s == m.slot
           r == ApplySlotState(db.slot[s], m.value)
           d == [db EXCEPT !.slot[s] = r]
<1>1. /\ up[n] # <<>> /\ m.type = "slot" /\ Taken(n) /\ UNCHANGED <<link, down, workers, sending, unplanned>>
      /\ (UNCHANGED <<db, handler>> \/ (db' = d /\ ReaderReplans(n)))
    BY DEF UpdateSlotState, Reads, history
<1>2. s \in Slots /\ RunOK(m.value)
  <2>1. m \in UpMessage(n)
    BY <1>1, UpShrinks DEF Inv
  <2> HIDE DEF m
  <2> QED BY <1>1, <2>1, UpKinds
<1> HIDE DEF m, s
<1>3. SlotOK(r)
  <2>1. SlotOK(db.slot[s])
    BY <1>2, Database DEF SlotsOK
  <2> QED BY <1>2, <2>1, ApplySlotStateOK
<1> HIDE DEF r
<1>4. DatabaseOK(d) /\ FilesThere(d) /\ TasksKept(d)
    BY <1>2, <1>3, SlotEdit
<1> HIDE DEF d
<1>5. LinkOK'
    BY <1>1 DEF Inv, LinkOK
<1>6. CASE UNCHANGED <<db, handler>>
    BY <1>1, <1>6, ReaderSkips
<1>7. CASE db' = d /\ ReaderReplans(n)
    BY <1>1, <1>4, <1>5, <1>7, ReaderEdit
<1> QED BY <1>1, <1>6, <1>7

\* Attempts may change their status, and tasks too as long as none is forgotten.
LEMMA AttemptsChange ==
    ASSUME NEW f, NEW g, AttemptsOK(f, g), NEW f2, f2 = [i \in DOMAIN f |-> f2[i]],
           \A i \in DOMAIN f : f2[i] \in AttemptRecord /\ f2[i].task = f[i].task,
           NEW g2, \A t \in Tasks : g[t].status # "none" => g2[t].status # "none"
    PROVE  AttemptsOK(f2, g2)
<1>1. f \in Seq(AttemptRecord) /\ \A i \in DOMAIN f : g[f[i].task].status # "none"
    BY DEF AttemptsOK
<1>2. Len(f) \in Nat /\ DOMAIN f = 1..Len(f) /\ \A i \in DOMAIN f : f[i] \in AttemptRecord
    BY <1>1
<1>3. f2 \in Seq(AttemptRecord) /\ DOMAIN f2 = DOMAIN f
    BY <1>2, IsASeq
<1>4. \A i \in DOMAIN f : f[i].task \in Tasks
    BY <1>2 DEF AttemptRecord
<1>5. \A i \in DOMAIN f2 : g2[f2[i].task].status # "none"
    BY <1>1, <1>3, <1>4
<1> QED BY <1>3, <1>5 DEF AttemptsOK

\* An attempt ends: its status, its slot and its task are written.
Ending(i, status, s, r, t, k) ==
    [db EXCEPT !.attempts[i] = [db.attempts[i] EXCEPT !.status = status], !.slot[s] = r, !.task[t] = k]

\* The plan and the slots are as they were, but for the slots set apart.
SameBut(d, apart) == /\ \A x \in Slots \ apart : d.slot[x] = db.slot[x]
                     /\ d.policy = db.policy /\ d.assignments = db.assignments

\* The database after the end of an attempt.
LEMMA AttemptEnds ==
    ASSUME Inv, NEW i, NEW status \in {"completed", "failed"}, NEW s \in Slots, NEW r, SlotOK(r),
           NEW t \in Tasks, NEW k, TaskOK(k), k.status # "none"
    PROVE  LET new == Ending(i, status, s, r, t, k)
           IN  DatabaseOK(new) /\ FilesThere(new) /\ TasksKept(new) /\ SameBut(new, {s})
<1> DEFINE new == Ending(i, status, s, r, t, k)
           ended == [db.attempts[i] EXCEPT !.status = status]
           attempts == [db.attempts EXCEPT ![i] = ended]
           slots == [db.slot EXCEPT ![s] = r]
           tasks == [db.task EXCEPT ![t] = k]
           d1 == [db EXCEPT !.attempts = attempts]
           d2 == [d1 EXCEPT !.slot = slots]
           d == [d2 EXCEPT !.task = tasks]
<1>1. new = d
    BY DEF Ending
<1>2. SlotsOK(slots) /\ TasksOK(tasks)
    BY Database, SlotPut, TaskPut
<1>3. \A x \in Tasks : db.task[x].status # "none" => tasks[x].status # "none"
    BY Database DEF TasksOK
<1>4. AttemptsOK(attempts, tasks)
  <2>1. AttemptsOK(db.attempts, db.task)
    BY Database DEF IsDatabase
  <2>2. attempts = [x \in DOMAIN db.attempts |-> attempts[x]]
    <3>1. db.attempts = [x \in DOMAIN db.attempts |-> db.attempts[x]]
      BY <2>1 DEF AttemptsOK
    <3> QED BY <3>1
  <2>3. ASSUME NEW x \in DOMAIN db.attempts
        PROVE  attempts[x] \in AttemptRecord /\ attempts[x].task = db.attempts[x].task
    <3>1. db.attempts[x] \in AttemptRecord
      BY <2>1 DEF AttemptsOK
    <3>2. CASE x = i
      <4>1. attempts[x] = [db.attempts[x] EXCEPT !.status = status]
        BY <3>2
      <4> QED BY <3>1, <4>1 DEF AttemptRecord
    <3>3. CASE x # i
      <4>1. attempts[x] = db.attempts[x]
        BY <3>3
      <4> QED BY <3>1, <4>1
    <3> QED BY <3>2, <3>3
  <2> HIDE DEF attempts, tasks
  <2> QED BY <1>3, <2>1, <2>2, <2>3, AttemptsChange
<1> HIDE DEF new, ended, attempts, slots, tasks
<1>5. d1 = [version |-> db.version, policy |-> db.policy, node |-> db.node, slot |-> db.slot, task |-> db.task,
            attempts |-> attempts, assignments |-> db.assignments, artifacts |-> db.artifacts,
            intents |-> db.intents]
    BY Database DEF IsDatabase
<1> HIDE DEF d1
<1>6. d2 = [version |-> db.version, policy |-> db.policy, node |-> db.node, slot |-> slots, task |-> db.task,
            attempts |-> attempts, assignments |-> db.assignments, artifacts |-> db.artifacts,
            intents |-> db.intents]
    BY <1>5
<1> HIDE DEF d2
<1>7. d = [version |-> db.version, policy |-> db.policy, node |-> db.node, slot |-> slots, task |-> tasks,
           attempts |-> attempts, assignments |-> db.assignments, artifacts |-> db.artifacts,
           intents |-> db.intents]
    BY <1>6
<1> HIDE DEF d
<1>8. /\ IsDatabase(d) /\ d.version = db.version /\ d.policy = db.policy /\ d.node = db.node /\ d.slot = slots
      /\ d.task = tasks /\ d.assignments = db.assignments /\ d.artifacts = db.artifacts
    BY <1>4, <1>7 DEF IsDatabase
<1>9. DatabaseOK(d)
    BY <1>2, <1>8, Database, DatabaseParts
<1>10. FilesThere(d) /\ TasksKept(d)
    BY <1>3, <1>8, Database DEF FilesThere, TasksKept
<1>11. SameBut(d, {s})
  <2>1. \A x \in Slots \ {s} : slots[x] = db.slot[x]
    BY Database DEF SlotsOK, slots
  <2> QED BY <1>8, <2>1 DEF SameBut
<1> QED BY <1>1, <1>9, <1>10, <1>11 DEF new

\* Slots are written, and set apart.
LEMMA SetApart ==
    ASSUME NEW d, NEW apart, SameBut(d, apart)
    PROVE  FollowsPlan(db, unplanned) => FollowsPlan(d, unplanned \cup apart)
<1>1. ASSUME FollowsPlan(db, unplanned), NEW x \in Slots \ (unplanned \cup apart), Drainable(d, x)
      PROVE  d.slot[x].accepts = WantedWarm(d, x)
  <2>1. d.slot[x] = db.slot[x]
    BY DEF SameBut
  <2>2. Drainable(db, x) /\ WantedWarm(d, x) = WantedWarm(db, x)
    BY <1>1, <2>1 DEF SameBut, Drainable, WantedWarm
  <2> QED BY <1>1, <2>1, <2>2 DEF FollowsPlan
<1> QED BY <1>1 DEF FollowsPlan

\* The task of an attempt that failed.
LEMMA FailedTaskOK ==
    ASSUME NEW task, TaskOK(task), task.status # "none", NEW s \in Slots, NEW retry \in BOOLEAN
    PROVE  TaskOK(FailedTask(task, s, retry)) /\ FailedTask(task, s, retry).status # "none"
<1> DEFINE status == IF retry THEN "queued" ELSE "failed"
           failed == task.failed \cup {s}
           k == [task EXCEPT !.status = status, !.failed = failed]
<1>1. task \in TaskRecord /\ task.profile \in Profiles
    BY DEF TaskOK
<1>2. status \in {"queued", "failed"} /\ failed \in SUBSET Slots
    BY <1>1 DEF TaskRecord
<1>3. FailedTask(task, s, retry) = k
    BY DEF FailedTask
<1> HIDE DEF status, failed
<1>4. k \in TaskRecord /\ k.status = status /\ k.profile = task.profile
    BY <1>1, <1>2 DEF TaskRecord, TerminalStatus
<1> HIDE DEF k
<1> QED BY <1>1, <1>2, <1>3, <1>4 DEF TaskOK

\* A slot is free again: ready, or idle.
LEMMA FreeSlotOK ==
    ASSUME NEW old, SlotOK(old), NEW state \in {"ready", "idle"}, NEW accepts \in BOOLEAN
    PROVE  SlotOK([old EXCEPT !.task = FALSE, !.state = state, !.accepts = accepts])
<1> DEFINE r == [old EXCEPT !.task = FALSE, !.state = state, !.accepts = accepts]
<1>1. old \in SlotRecord /\ (old.expired => old.quarantined)
    BY DEF SlotOK
<1>2. r \in SlotRecord
    BY <1>1 DEF SlotRecord, SlotStates
<1>3. r.state = state /\ r.task = FALSE /\ r.expired = old.expired /\ r.quarantined = old.quarantined
    BY <1>1 DEF SlotRecord
<1> HIDE DEF r
<1>4. SlotOK(r)
    BY <1>1, <1>2, <1>3 DEF SlotOK
<1> QED BY <1>4 DEF r

\* The slot of an attempt that failed.
LEMMA FailedSlotOK ==
    ASSUME NEW old, SlotOK(old), NEW p, NEW reason \in Reasons
    PROVE  SlotOK(FailedSlot(old, p, reason))
<1> DEFINE state == IF old.profile = p THEN "ready" ELSE "idle"
           accepts == old.accepts \/ old.profile = p
           r == [old EXCEPT !.task = FALSE, !.state = state, !.accepts = accepts]
<1>1. state \in {"ready", "idle"}
    OBVIOUS
<1>2. accepts \in BOOLEAN
    OBVIOUS
<1>3. FailedSlot(old, p, reason) = RecordFailure(r, reason, 1)
    BY DEF FailedSlot
<1> HIDE DEF state, accepts
<1>4. SlotOK(r)
    BY <1>1, <1>2, FreeSlotOK
<1> HIDE DEF r
<1> QED BY <1>3, <1>4, RecordFailureOK

\* The slot of an attempt that was reported.
LEMMA ReportedSlotOK ==
    ASSUME NEW old, SlotOK(old), NEW p, NEW m, m.status = "failed" => m.reason \in Reasons, NEW counted
    PROVE  SlotOK(ReportedSlot(old, p, m, counted))
<1> DEFINE state == IF old.profile = p THEN "ready" ELSE "idle"
           accepts == old.profile = p
           r == [old EXCEPT !.task = FALSE, !.state = state, !.accepts = accepts]
<1>1. state \in {"ready", "idle"}
    OBVIOUS
<1>2. accepts \in BOOLEAN
    OBVIOUS
<1>3. ReportedSlot(old, p, m, counted) = IF m.status = "failed" /\ ~counted THEN RecordFailure(r, m.reason, 1) ELSE r
    BY DEF ReportedSlot
<1> HIDE DEF state, accepts
<1>4. SlotOK(r)
    BY <1>1, <1>2, FreeSlotOK
<1> HIDE DEF r
<1>5. m.status = "failed" => SlotOK(RecordFailure(r, m.reason, 1))
    BY <1>4, RecordFailureOK
<1> QED BY <1>3, <1>4, <1>5

\* The attempt that a message is about, its slot and its task.
LEMMA AttemptIs ==
    ASSUME Inv, NEW i \in DOMAIN db.attempts
    PROVE  LET s == db.attempts[i].slot
               t == db.attempts[i].task
           IN  s \in Slots /\ t \in Tasks /\ SlotOK(db.slot[s]) /\ TaskOK(db.task[t]) /\ db.task[t].status # "none"
<1>1. db.attempts \in Seq(AttemptRecord) /\ \A x \in DOMAIN db.attempts : db.task[db.attempts[x].task].status # "none"
    BY Database DEF IsDatabase, AttemptsOK
<1>2. db.attempts[i] \in AttemptRecord
    BY <1>1
<1>3. db.attempts[i].slot \in Slots /\ db.attempts[i].task \in Tasks
    BY <1>2 DEF AttemptRecord
<1> QED BY <1>1, <1>3, Database DEF SlotsOK, TasksOK

\* handleAttemptFailed: nothing is replanned, and the slot is set apart.
LEMMA HandleAttemptFailedInv ==
    ASSUME Inv, NEW n \in Nodes, HandleAttemptFailed(n)
    PROVE  Inv'
<1> DEFINE m == Head(up[n])
           i == m.attempt
           s == db.attempts[i].slot
           t == db.attempts[i].task
           r == PutSlot(db.slot[s], FailedSlot(db.slot[s], db.task[t].profile, m.reason))
           k == FailedTask(db.task[t], s, m.retry)
           status == "failed"
           d == Ending(i, status, s, r, t, k)
<1>1. /\ up[n] # <<>> /\ m.type = "failed" /\ Taken(n) /\ UNCHANGED <<handler, link, down, workers, sending>>
    BY DEF HandleAttemptFailed, Reads
<1>2. \/ UNCHANGED <<db, unplanned>>
      \/ OwnAttempt(n, i) /\ db' = d /\ unplanned' = unplanned \cup {s}
    BY DEF HandleAttemptFailed, Ending
<1>3. m.reason \in Reasons /\ m.retry \in BOOLEAN
  <2>1. m \in UpMessage(n)
    BY <1>1, UpShrinks DEF Inv
  <2> HIDE DEF m
  <2> QED BY <1>1, <2>1, UpKinds
<1> HIDE DEF m, i
<1>4. CASE UNCHANGED <<db, unplanned>>
    BY <1>1, <1>4, ReaderSkips
<1>5. CASE OwnAttempt(n, i) /\ db' = d /\ unplanned' = unplanned \cup {s}
  <2>1. s \in Slots /\ t \in Tasks /\ SlotOK(db.slot[s]) /\ TaskOK(db.task[t]) /\ db.task[t].status # "none"
    <3>1. i \in DOMAIN db.attempts
      BY <1>5 DEF OwnAttempt
    <3> QED BY <3>1, AttemptIs
  <2> HIDE DEF s, t
  <2>2. SlotOK(r)
    <3>1. SlotOK(FailedSlot(db.slot[s], db.task[t].profile, m.reason))
      BY <1>3, <2>1, FailedSlotOK
    <3> QED BY <2>1, <3>1 DEF PutSlot
  <2>3. TaskOK(k) /\ k.status # "none"
    BY <1>3, <2>1, FailedTaskOK
  <2>4. status \in {"completed", "failed"}
    OBVIOUS
  <2> HIDE DEF r, k, status
  <2>5. DatabaseOK(d) /\ FilesThere(d) /\ TasksKept(d) /\ SameBut(d, {s})
    BY <2>1, <2>2, <2>3, <2>4, AttemptEnds
  <2> HIDE DEF d
  <2>6. FollowsPlan(db, unplanned) => FollowsPlan(d, unplanned')
    BY <1>5, <2>5, SetApart
  <2> QED BY <1>1, <1>5, <2>5, <2>6, ReaderWrites
<1> QED BY <1>2, <1>4, <1>5

\* handleComputeReport: a replan follows.
LEMMA HandleComputeReportInv ==
    ASSUME Inv, NEW n \in Nodes, HandleComputeReport(n)
    PROVE  Inv'
<1> DEFINE m == Head(up[n])
           i == m.attempt
           s == db.attempts[i].slot
           t == db.attempts[i].task
           r == PutSlot(db.slot[s], ReportedSlot(db.slot[s], db.task[t].profile, m, db.attempts[i].status = "failed"))
           k == ReportedTask(db.task[t], s, m)
           status == m.status
           d == Ending(i, status, s, r, t, k)
<1>1. /\ up[n] # <<>> /\ m.type = "report" /\ Taken(n) /\ UNCHANGED <<link, down, workers, sending, unplanned>>
    BY DEF HandleComputeReport, Reads, history
<1>2. \/ UNCHANGED <<db, handler>>
      \/ OwnAttempt(n, i) /\ db' = d /\ ReaderReplans(n)
    BY DEF HandleComputeReport, Ending
<1>3. status \in {"failed", "completed"} /\ (m.status = "failed" => m.reason \in Reasons)
  <2>1. m \in UpMessage(n)
    BY <1>1, UpShrinks DEF Inv
  <2> HIDE DEF m
  <2> QED BY <1>1, <2>1, UpKinds
<1> HIDE DEF m, i
<1>4. CASE UNCHANGED <<db, handler>>
    BY <1>1, <1>4, ReaderSkips
<1>5. CASE OwnAttempt(n, i) /\ db' = d /\ ReaderReplans(n)
  <2>1. s \in Slots /\ t \in Tasks /\ SlotOK(db.slot[s]) /\ TaskOK(db.task[t]) /\ db.task[t].status # "none"
    <3>1. i \in DOMAIN db.attempts
      BY <1>5 DEF OwnAttempt
    <3> QED BY <3>1, AttemptIs
  <2> HIDE DEF s, t
  <2>2. SlotOK(r)
    <3>1. SlotOK(ReportedSlot(db.slot[s], db.task[t].profile, m, db.attempts[i].status = "failed"))
      BY <1>3, <2>1, ReportedSlotOK
    <3> QED BY <2>1, <3>1 DEF PutSlot
  <2>3. TaskOK(k) /\ k.status # "none"
    <3> DEFINE old == db.task[t]
               other == [old EXCEPT !.status = status]
    <3>1. k = FailedTask(old, s, TRUE) \/ k = other
      BY DEF ReportedTask
    <3>2. TaskOK(FailedTask(old, s, TRUE)) /\ FailedTask(old, s, TRUE).status # "none"
      BY <2>1, FailedTaskOK
    <3>3. old \in TaskRecord /\ old.profile \in Profiles
      BY <2>1 DEF TaskOK
    <3> HIDE DEF old, status, k
    <3>4. other \in TaskRecord /\ other.status = status /\ other.profile = old.profile
      BY <1>3, <3>3 DEF TaskRecord, TerminalStatus
    <3> HIDE DEF other
    <3>5. TaskOK(other) /\ other.status # "none"
      BY <1>3, <3>3, <3>4 DEF TaskOK
    <3> QED BY <3>1, <3>2, <3>5
  <2> HIDE DEF r, k, status
  <2>4. DatabaseOK(d) /\ FilesThere(d) /\ TasksKept(d)
    BY <1>3, <2>1, <2>2, <2>3, AttemptEnds
  <2> HIDE DEF d
  <2>5. LinkOK'
    BY <1>1 DEF Inv, LinkOK
  <2> QED BY <1>1, <1>5, <2>4, <2>5, ReaderEdit
<1> QED BY <1>2, <1>4, <1>5

-----------------------------------------------------------------------------
(* Lost sessions and requests *)

\* A slot whose Worker is gone.
LEMMA GoneSlotOK ==
    ASSUME NEW old, SlotOK(old)
    PROVE  LET r == [old EXCEPT !.state = "unavailable", !.accepts = FALSE]
               r2 == [r EXCEPT !.task = FALSE]
           IN  SlotOK(r) /\ r.state = "unavailable" /\ SlotOK(r2) /\ r2.state = "unavailable"
<1> DEFINE r == [old EXCEPT !.state = "unavailable", !.accepts = FALSE]
           r2 == [r EXCEPT !.task = FALSE]
<1>1. old \in SlotRecord /\ (old.expired => old.quarantined)
    BY DEF SlotOK
<1>2. r \in SlotRecord
    BY <1>1 DEF SlotRecord, SlotStates
<1>3. r.state = "unavailable" /\ ~r.accepts /\ r.expired = old.expired /\ r.quarantined = old.quarantined
    BY <1>1 DEF SlotRecord
<1> HIDE DEF r
<1>4. r2 \in SlotRecord
    BY <1>2 DEF SlotRecord
<1>5. r2.state = r.state /\ r2.accepts = r.accepts /\ r2.expired = r.expired /\ r2.quarantined = r.quarantined
    BY <1>2 DEF SlotRecord
<1> HIDE DEF r2
<1>6. SlotOK(r) /\ SlotOK(r2)
    BY <1>1, <1>2, <1>3, <1>4, <1>5 DEF SlotOK
<1> QED BY <1>3, <1>5, <1>6 DEF r, r2

\* markDisconnectedNode and failDisconnectedAttempt: a slot is as it was, or not ready.
LEMMA DisconnectedOK ==
    ASSUME Inv, NEW n \in Nodes, NEW streamed
    PROVE  LET d == Disconnected(db, n, streamed)
           IN  /\ DatabaseOK(d) /\ FilesThere(d) /\ TasksKept(d)
               /\ d.policy = db.policy /\ d.assignments = db.assignments
               /\ \A s \in Slots : d.slot[s] = db.slot[s] \/ d.slot[s].state = "unavailable"
<1> DEFINE new == Disconnected(db, n, streamed)
           lost == RunningOn(db, n)
           on(s) == {i \in lost : db.attempts[i].slot = s}
           of(t) == {i \in lost : db.attempts[i].task = t}
           gone(slot) == [slot EXCEPT !.state = "unavailable", !.accepts = FALSE]
           cut(s) == [gone(RecordFailure(db.slot[s], "worker_disconnected", Cardinality(on(s)))) EXCEPT !.task = FALSE]
           after(s) == IF on(s) # {} THEN cut(s)
                       ELSE IF db.slot[s].state = "serving" THEN db.slot[s] ELSE gone(db.slot[s])
           node == IF db.node[n].state = "absent" THEN db.node[n]
                   ELSE [FlapEvent(db.node[n]) EXCEPT !.state = "offline"]
           status(t) == IF t \in streamed THEN "failed" ELSE "queued"
           failed(t) == db.task[t].failed \cup {db.attempts[i].slot : i \in of(t)}
           task(t) == [db.task[t] EXCEPT !.status = status(t), !.failed = failed(t)]
           nodes == [db.node EXCEPT ![n] = node]
           slots == [s \in Slots |-> IF s \in SlotsOf(n) THEN PutSlot(db.slot[s], after(s)) ELSE db.slot[s]]
           attempts == [i \in DOMAIN db.attempts |->
                            IF i \in lost THEN [db.attempts[i] EXCEPT !.status = "failed"] ELSE db.attempts[i]]
           tasks == [t \in Tasks |-> IF of(t) = {} THEN db.task[t] ELSE task(t)]
           d1 == [db EXCEPT !.node = nodes]
           d2 == [d1 EXCEPT !.slot = slots]
           d == WithTasks(d2, attempts, tasks)
<1>1. new = d
    BY DEF Disconnected, WithTasks
<1>2. /\ db.attempts \in Seq(AttemptRecord) /\ AttemptsOK(db.attempts, db.task)
      /\ \A i \in DOMAIN db.attempts : db.task[db.attempts[i].task].status # "none"
    BY Database DEF IsDatabase, AttemptsOK
<1>3. lost \subseteq DOMAIN db.attempts
    BY DEF RunningOn
<1>4. NodesOK(nodes)
  <2>1. db.node[n] \in NodeRecord
    BY Database DEF NodesOK
  <2>2. FlapEvent(db.node[n]) \in NodeRecord
    BY <2>1, FlapEventOK
  <2>3. [FlapEvent(db.node[n]) EXCEPT !.state = "offline"] \in NodeRecord
    BY <2>2 DEF NodeRecord, NodeStates
  <2>4. node \in NodeRecord
    BY <2>1, <2>3
  <2> HIDE DEF node
  <2> QED BY <2>4, Database, NodePut
<1>5. ASSUME NEW s \in Slots
      PROVE  SlotOK(slots[s]) /\ (slots[s] = db.slot[s] \/ slots[s].state = "unavailable")
  <2> DEFINE count == Cardinality(on(s))
             r == RecordFailure(db.slot[s], "worker_disconnected", count)
  <2>1. SlotOK(db.slot[s])
    BY Database DEF SlotsOK
  <2>2. count \in Nat
    <3>1. IsFiniteSet(DOMAIN db.attempts)
      <4>1. Len(db.attempts) \in Int /\ DOMAIN db.attempts = 1..Len(db.attempts)
        BY <1>2
      <4>2. IsFiniteSet(1..Len(db.attempts))
        BY <4>1, FS_Interval
      <4> QED BY <4>1, <4>2
    <3>2. on(s) \in SUBSET (DOMAIN db.attempts)
      BY <1>3
    <3> HIDE DEF on, lost
    <3>3. IsFiniteSet(on(s))
      BY <3>1, <3>2, FS_Subset
    <3> QED BY <3>3, FS_CardinalityType
  <2>3. slots[s] = db.slot[s] \/ slots[s] = [gone(r) EXCEPT !.task = FALSE] \/ slots[s] = gone(db.slot[s])
    BY DEF PutSlot
  <2> HIDE DEF count, slots, lost
  <2>4. SlotOK(r)
    <3>1. "worker_disconnected" \in Reasons
      BY DEF Reasons
    <3> QED BY <2>1, <2>2, <3>1, RecordFailureOK
  <2> HIDE DEF r
  <2>5. SlotOK([gone(r) EXCEPT !.task = FALSE]) /\ [gone(r) EXCEPT !.task = FALSE].state = "unavailable"
    BY <2>4, GoneSlotOK
  <2>6. SlotOK(gone(db.slot[s])) /\ gone(db.slot[s]).state = "unavailable"
    BY <2>1, GoneSlotOK
  <2> HIDE DEF gone
  <2> QED BY <2>1, <2>3, <2>5, <2>6
<1>6. SlotsOK(slots)
  <2>1. slots = [s \in Slots |-> slots[s]]
    OBVIOUS
  <2> HIDE DEF slots
  <2> QED BY <1>5, <2>1 DEF SlotsOK
<1>7. ASSUME NEW t \in Tasks PROVE TaskOK(tasks[t]) /\ (db.task[t].status # "none" => tasks[t].status # "none")
  <2>1. TaskOK(db.task[t]) /\ db.task[t] \in TaskRecord
    BY Database DEF TasksOK, TaskOK
  <2>2. CASE of(t) = {}
    <3>1. tasks[t] = db.task[t]
      BY <2>2
    <3> HIDE DEF tasks
    <3> QED BY <2>1, <3>1
  <2>3. CASE of(t) # {}
    <3>1. tasks[t] = task(t)
      BY <2>3
    <3>2. PICK i \in lost : db.attempts[i].task = t
      BY <2>3
    <3>3. db.task[t].status # "none" /\ db.task[t].profile \in Profiles
      BY <1>2, <1>3, <2>1, <3>2 DEF TaskOK
    <3>4. status(t) \in {"failed", "queued"}
      OBVIOUS
    <3>5. failed(t) \in SUBSET Slots
      <4>1. \A x \in DOMAIN db.attempts : db.attempts[x] \in AttemptRecord
        BY <1>2
      <4>2. \A x \in lost : db.attempts[x].slot \in Slots
        BY <1>3, <4>1 DEF AttemptRecord
      <4> HIDE DEF lost
      <4> QED BY <2>1, <4>2 DEF TaskRecord
    <3> HIDE DEF status, failed, tasks
    <3>6. task(t) \in TaskRecord /\ task(t).status = status(t) /\ task(t).profile = db.task[t].profile
      BY <2>1, <3>4, <3>5 DEF TaskRecord, TerminalStatus
    <3> HIDE DEF task
    <3> QED BY <3>1, <3>3, <3>4, <3>6 DEF TaskOK
  <2> QED BY <2>2, <2>3
<1>8. TasksOK(tasks)
  <2>1. tasks = [t \in Tasks |-> tasks[t]]
    OBVIOUS
  <2> HIDE DEF tasks
  <2> QED BY <1>7, <2>1 DEF TasksOK
<1>9. AttemptsOK(attempts, tasks)
  <2>1. attempts = [i \in DOMAIN db.attempts |-> attempts[i]]
    OBVIOUS
  <2>2. ASSUME NEW i \in DOMAIN db.attempts
        PROVE  attempts[i] \in AttemptRecord /\ attempts[i].task = db.attempts[i].task
    <3>1. db.attempts[i] \in AttemptRecord
      BY <1>2
    <3>2. attempts[i] = db.attempts[i] \/ attempts[i] = [db.attempts[i] EXCEPT !.status = "failed"]
      OBVIOUS
    <3> HIDE DEF attempts
    <3> QED BY <3>1, <3>2 DEF AttemptRecord
  <2>3. \A t \in Tasks : db.task[t].status # "none" => tasks[t].status # "none"
    BY <1>7
  <2>4. \A i \in DOMAIN db.attempts : attempts[i] \in AttemptRecord /\ attempts[i].task = db.attempts[i].task
    BY <2>2
  <2>5. AttemptsOK(db.attempts, db.task)
    BY <1>2
  <2> HIDE DEF attempts, tasks, lost
  <2> QED BY <2>1, <2>3, <2>4, <2>5, AttemptsChange
<1> HIDE DEF new, nodes, slots, attempts, tasks
<1>10. /\ IsDatabase(d1) /\ d1.node = nodes /\ d1.version = db.version /\ d1.policy = db.policy
       /\ d1.artifacts = db.artifacts /\ d1.assignments = db.assignments
    BY Database, PutNodes
<1> HIDE DEF d1
<1>11. /\ IsDatabase(d2) /\ d2.slot = slots /\ d2.node = nodes /\ d2.version = db.version
       /\ d2.policy = db.policy /\ d2.artifacts = db.artifacts /\ d2.assignments = db.assignments
    BY <1>10, PutSlots
<1> HIDE DEF d2
<1>12. /\ IsDatabase(d) /\ d.slot = slots /\ d.node = nodes /\ d.version = db.version /\ d.task = tasks
       /\ d.policy = db.policy /\ d.artifacts = db.artifacts /\ d.assignments = db.assignments
    BY <1>9, <1>11, PutTasks
<1> HIDE DEF d
<1>13. DatabaseOK(d)
    BY <1>4, <1>6, <1>8, <1>12, Database, DatabaseParts
<1>14. FilesThere(d) /\ TasksKept(d)
    BY <1>7, <1>12, Database DEF FilesThere, TasksKept
<1>15. \A s \in Slots : d.slot[s] = db.slot[s] \/ d.slot[s].state = "unavailable"
    BY <1>5, <1>12
<1> QED BY <1>1, <1>12, <1>13, <1>14, <1>15 DEF new

\* Slots that are not ready any more are none of the plan's.
LEMMA NotReady ==
    ASSUME NEW d, d.policy = db.policy, d.assignments = db.assignments,
           \A s \in Slots : d.slot[s] = db.slot[s] \/ d.slot[s].state # "ready"
    PROVE  FollowsPlan(db, unplanned) => FollowsPlan(d, unplanned)
<1>1. ASSUME FollowsPlan(db, unplanned), NEW s \in Slots \ unplanned, Drainable(d, s)
      PROVE  d.slot[s].accepts = WantedWarm(d, s)
  <2>1. d.slot[s] = db.slot[s]
    BY <1>1 DEF Drainable
  <2>2. Drainable(db, s) /\ WantedWarm(d, s) = WantedWarm(db, s)
    BY <1>1, <2>1 DEF Drainable, WantedWarm
  <2> QED BY <1>1, <2>1, <2>2 DEF FollowsPlan
<1> QED BY <1>1 DEF FollowsPlan

\* The session goes, and with it the messages and the slots' readiness.
LEMMA DisconnectInv ==
    ASSUME Inv, NEW n \in Nodes, Disconnect(n)
    PROVE  Inv'
<1>1. /\ link' = [link EXCEPT ![n] = "down"] /\ down' = [down EXCEPT ![n] = <<>>]
      /\ up' = [up EXCEPT ![n] = <<>>] /\ UNCHANGED <<handler, workers, unplanned>>
      /\ sending' = {[x EXCEPT !.open = x.open /\ x.slot \notin SlotsOf(n)] : x \in sending}
    BY DEF Disconnect, history
<1>2. PICK streamed : db' = Disconnected(db, n, streamed)
    BY DEF Disconnect
<1> DEFINE d == Disconnected(db, n, streamed)
<1>3. /\ DatabaseOK(d) /\ FilesThere(d) /\ TasksKept(d)
      /\ d.policy = db.policy /\ d.assignments = db.assignments
      /\ \A s \in Slots : d.slot[s] = db.slot[s] \/ d.slot[s].state = "unavailable"
    BY DisconnectedOK
<1>4. db' = d
    BY <1>2
<1> HIDE DEF d
<1>5. FollowsPlan(db, unplanned) => FollowsPlan(d, unplanned)
    BY <1>3, NotReady
<1>6. DatabaseOK(db') /\ NoDanglingArtifact' /\ (FollowsPlan(db, unplanned) => FollowsPlan(db, unplanned)')
    BY <1>1, <1>3, <1>4, <1>5 DEF NoDanglingArtifact
<1>7. HandlersOK' /\ (Replanning => Replanning')
    BY <1>1 DEF Inv, HandlersOK, Replanning
<1>8. UpOK'
  <2>1. <<>> \in Seq(UpMessage(n))
    OBVIOUS
  <2> QED BY <1>1, <2>1, UpSet DEF Inv
<1>9. DownOK' /\ LinkOK'
    BY <1>1 DEF Inv, DownOK, LinkOK
<1>10. CacheOK' /\ RunsOK' /\ JobsOK' /\ WorkOK'
    BY <1>1 DEF Inv, workers, CacheOK, RunsOK, JobsOK, WorkOK
<1>11. SendingOK'
  <2>1. ASSUME NEW x \in sending
        PROVE  LET y == [x EXCEPT !.open = x.open /\ x.slot \notin SlotsOf(n)]
               IN  y \in Reserved /\ db'.task[y.task].status # "none"
    <3> DEFINE open == x.open /\ x.slot \notin SlotsOf(n)
               y == [x EXCEPT !.open = open]
    <3>1. x \in Reserved /\ db.task[x.task].status # "none"
      BY DEF Inv, SendingOK
    <3>2. open \in BOOLEAN
      OBVIOUS
    <3> HIDE DEF open
    <3>3. /\ y \in [attempt : Nat, task : Tasks, slot : Slots, profile : Profiles, version : Nat,
                    variant : Nat, open : BOOLEAN]
          /\ y.profile = x.profile /\ y.variant = x.variant /\ y.task = x.task /\ x.task \in Tasks
      BY <3>1, <3>2 DEF Reserved
    <3> HIDE DEF y
    <3>4. KnownVariant(y)
      BY <3>1, <3>3 DEF Reserved, KnownVariant
    <3>5. y \in Reserved
      BY <3>3, <3>4 DEF Reserved
    <3>6. db'.task[y.task].status # "none"
      BY <1>3, <1>4, <3>1, <3>3 DEF TasksKept
    <3> QED BY <3>5, <3>6 DEF y, open
  <2> QED BY <1>1, <2>1 DEF SendingOK
<1> QED BY <1>6, <1>7, <1>8, <1>9, <1>10, <1>11 DEF Inv, DrainInv

\* A quarantine expires, and its slot stays quarantined for the time being.
LEMMA QuarantineExpiresInv ==
    ASSUME Inv, NEW s \in Slots, QuarantineExpires(s)
    PROVE  Inv'
<1> DEFINE old == db.slot[s]
           r == [old EXCEPT !.expired = TRUE]
           d == [db EXCEPT !.slot[s] = r]
<1>1. old.quarantined /\ db' = d /\ UNCHANGED <<handler, wire, workers, sending, unplanned>>
    BY DEF QuarantineExpires, history
<1>2. SlotOK(old)
    BY Database DEF SlotsOK
<1> HIDE DEF old
<1>3. SlotOK(r) /\ r.quarantined
  <2>1. old \in SlotRecord /\ (old.accepts => old.state \in {"ready", "idle"} /\ ~old.task)
    BY <1>2 DEF SlotOK
  <2>2. r \in SlotRecord
    BY <2>1 DEF SlotRecord
  <2>3. r.state = old.state /\ r.task = old.task /\ r.accepts = old.accepts /\ r.quarantined = old.quarantined
    BY <2>1 DEF SlotRecord
  <2> HIDE DEF r
  <2> QED BY <1>1, <2>1, <2>2, <2>3 DEF SlotOK
<1> HIDE DEF r
<1>4. /\ DatabaseOK(d) /\ FilesThere(d) /\ TasksKept(d) /\ d.slot = [db.slot EXCEPT ![s] = r]
      /\ d.policy = db.policy /\ d.assignments = db.assignments
    BY <1>3, SlotEdit
<1> HIDE DEF d
<1>5. FollowsPlan(db, unplanned) => FollowsPlan(d, unplanned')
  <2>1. d.slot[s] = r /\ \A x \in Slots : x # s => d.slot[x] = db.slot[x]
    BY <1>4, Database DEF SlotsOK
  <2>2. ASSUME FollowsPlan(db, unplanned), NEW x \in Slots \ unplanned, Drainable(d, x)
        PROVE  d.slot[x].accepts = WantedWarm(d, x)
    <3>1. x # s
      BY <1>3, <2>1, <2>2 DEF Drainable
    <3>2. d.slot[x] = db.slot[x]
      BY <2>1, <3>1
    <3>3. Drainable(db, x) /\ WantedWarm(d, x) = WantedWarm(db, x)
      BY <1>4, <2>2, <3>2 DEF Drainable, WantedWarm
    <3> QED BY <2>2, <3>2, <3>3 DEF FollowsPlan
  <2> QED BY <1>1, <2>2 DEF FollowsPlan
<1> QED BY <1>1, <1>4, <1>5, PlainEdit

\* selectReadySlot and stateResponse clear what has expired, make no plan, and the
\* slots are set apart.
LEMMA ClearExpiredQuarantinesInv ==
    ASSUME Inv, ClearExpiredQuarantines
    PROVE  Inv'
<1> DEFINE d == ClearExpired(db)
           apart == {s \in Slots : db.slot[s].expired}
<1>1. db' = d /\ unplanned' = unplanned \cup apart /\ UNCHANGED <<handler, wire, workers, sending>>
    BY DEF ClearExpiredQuarantines
<1>2. /\ DatabaseOK(d) /\ d.policy = db.policy /\ d.version = db.version /\ d.task = db.task
      /\ d.assignments = db.assignments /\ d.artifacts = db.artifacts
      /\ \A s \in Slots : ~db.slot[s].expired => d.slot[s] = db.slot[s]
    BY ClearedOK DEF Inv
<1> HIDE DEF d
<1>3. SameBut(d, apart)
    BY <1>2 DEF SameBut
<1> HIDE DEF apart
<1>4. FollowsPlan(db, unplanned) => FollowsPlan(d, unplanned')
    BY <1>1, <1>3, SetApart
<1>5. FilesThere(d) /\ TasksKept(d)
    BY <1>2, Database, FilesStay
<1> QED BY <1>1, <1>2, <1>4, <1>5, PlainEdit

\* storeNewTask
LEMMA RequestInv ==
    ASSUME Inv, NEW t \in Tasks, NEW p \in Profiles, Request(t, p)
    PROVE  Inv'
<1> DEFINE old == db.task[t]
           k == [old EXCEPT !.status = "queued", !.profile = p]
           tasks == [db.task EXCEPT ![t] = k]
           d == [db EXCEPT !.task = tasks]
           d2 == WithTasks(db, db.attempts, tasks)
<1>1. db' = d /\ UNCHANGED <<handler, wire, workers, sending, unplanned>>
    BY DEF Request, history
<1>2. TaskOK(k) /\ k.status = "queued"
  <2>1. old \in TaskRecord
    BY Database DEF TasksOK, TaskOK
  <2> HIDE DEF old
  <2>2. k \in TaskRecord /\ k.profile = p /\ k.status = "queued"
    BY <2>1 DEF TaskRecord
  <2> HIDE DEF k
  <2> QED BY <2>2 DEF TaskOK
<1> HIDE DEF k
<1>3. TasksOK(tasks)
    BY <1>2, Database, TaskPut
<1>4. \A x \in Tasks : db.task[x].status # "none" => tasks[x].status # "none"
    BY <1>2, Database DEF TasksOK
<1> HIDE DEF tasks
<1>5. AttemptsOK(db.attempts, tasks)
  <2>1. AttemptsOK(db.attempts, db.task)
    BY Database DEF IsDatabase
  <2>2. \A i \in DOMAIN db.attempts : db.attempts[i] \in AttemptRecord
    BY <2>1 DEF AttemptsOK
  <2>3. \A i \in DOMAIN db.attempts : db.attempts[i].task \in Tasks
    BY <2>2 DEF AttemptRecord
  <2> QED BY <1>4, <2>1, <2>3 DEF AttemptsOK
<1>6. d = d2
    BY Database DEF IsDatabase, WithTasks
<1>7. /\ IsDatabase(d2) /\ d2.slot = db.slot /\ d2.node = db.node /\ d2.version = db.version /\ d2.task = tasks
      /\ d2.policy = db.policy /\ d2.artifacts = db.artifacts /\ d2.assignments = db.assignments
    BY <1>5, Database, PutTasks
<1> HIDE DEF d, d2
<1>8. DatabaseOK(d2)
    BY <1>3, <1>7, Database, DatabaseParts
<1>9. FilesThere(d2) /\ TasksKept(d2)
    BY <1>4, <1>7, Database DEF FilesThere, TasksKept
<1>10. FollowsPlan(db, unplanned) => FollowsPlan(d2, unplanned')
    BY <1>1, <1>7, DrainStays
<1> QED BY <1>1, <1>6, <1>8, <1>9, <1>10, PlainEdit

\* reserveAttemptInDB: the slot takes no more requests, and the plan is not asked
\* about it while it serves.
LEMMA StartTaskInv ==
    ASSUME Inv, NEW t \in Tasks, NEW s \in Slots, StartTask(t, s)
    PROVE  Inv'
<1> DEFINE p == db.task[t].profile
           k == [db.task[t] EXCEPT !.status = "running"]
           r == [db.slot[s] EXCEPT !.task = TRUE, !.state = "serving", !.accepts = FALSE]
           a == [task |-> t, slot |-> s, status |-> "running"]
           tasks == [db.task EXCEPT ![t] = k]
           attempts == Append(db.attempts, a)
           slots == [db.slot EXCEPT ![s] = r]
           d1 == [db EXCEPT !.slot = slots]
           d == WithTasks(d1, attempts, tasks)
           e1 == [db EXCEPT !.task = tasks]
           e2 == [e1 EXCEPT !.attempts = attempts]
           e == [e2 EXCEPT !.slot = slots]
           x(v) == [attempt |-> Len(db.attempts) + 1, task |-> t, slot |-> s, profile |-> p,
                    version |-> db.version[p], variant |-> v.id, open |-> TRUE]
<1>1. db' = e /\ db.task[t].status = "queued" /\ UNCHANGED <<handler, wire, workers, unplanned>>
    BY DEF StartTask, history
<1>2. PICK v \in Variants(p) : sending' = sending \cup {x(v)}
    BY DEF StartTask
<1>3. TaskOK(db.task[t]) /\ db.task[t] \in TaskRecord /\ p \in Profiles
    BY <1>1, Database DEF TasksOK, TaskOK
<1>4. db.attempts \in Seq(AttemptRecord) /\ AttemptsOK(db.attempts, db.task)
    BY Database DEF IsDatabase, AttemptsOK
<1>5. TaskOK(k) /\ k.status = "running"
  <2>1. k \in TaskRecord /\ k.profile = p /\ k.status = "running"
    BY <1>3 DEF TaskRecord
  <2> HIDE DEF k, p
  <2> QED BY <1>3, <2>1 DEF TaskOK
<1>6. SlotOK(r) /\ r.state = "serving"
  <2>1. db.slot[s] \in SlotRecord /\ (db.slot[s].expired => db.slot[s].quarantined)
    BY Database DEF SlotsOK, SlotOK
  <2>2. /\ r \in SlotRecord /\ ~r.accepts /\ r.state = "serving"
        /\ r.expired = db.slot[s].expired /\ r.quarantined = db.slot[s].quarantined
    BY <2>1 DEF SlotRecord, SlotStates
  <2> HIDE DEF r
  <2> QED BY <2>1, <2>2 DEF SlotOK
<1>7. x(v) \in Reserved
  <2> DEFINE y == x(v)
  <2>1. v.id \in Nat
    BY <1>3, VariantFacts
  <2>2. db.version[p] \in Nat
    BY <1>3, Database DEF VersionsOK
  <2>3. Len(db.attempts) + 1 \in Nat
    BY <1>4
  <2>4. /\ y \in [attempt : Nat, task : Tasks, slot : Slots, profile : Profiles, version : Nat,
                  variant : Nat, open : BOOLEAN]
        /\ y.profile = p /\ y.variant = v.id
    BY <1>3, <2>1, <2>2, <2>3
  <2> HIDE DEF y, p
  <2>5. KnownVariant(y)
    BY <1>3, <2>4 DEF KnownVariant
  <2>6. y \in Reserved
    BY <2>4, <2>5 DEF Reserved
  <2> QED BY <2>6 DEF y
<1>8. x(v).task = t
    OBVIOUS
<1> HIDE DEF k, r, x
<1>9. TasksOK(tasks) /\ SlotsOK(slots)
    BY <1>5, <1>6, Database, TaskPut, SlotPut
<1>10. slots[s] = r /\ \A y \in Slots : y # s => slots[y] = db.slot[y]
    BY Database DEF SlotsOK
<1>11. tasks[t].status # "none" /\ \A y \in Tasks : db.task[y].status # "none" => tasks[y].status # "none"
    BY <1>5, Database DEF TasksOK
<1> HIDE DEF tasks, slots
<1>12. AttemptsOK(attempts, tasks)
  <2>1. a \in AttemptRecord /\ a.task = t
    BY DEF AttemptRecord
  <2> HIDE DEF a
  <2>2. /\ attempts \in Seq(AttemptRecord)
        /\ \A i \in DOMAIN attempts : attempts[i] = a \/ (i \in DOMAIN db.attempts /\ attempts[i] = db.attempts[i])
    BY <1>4, <2>1
  <2>3. \A i \in DOMAIN db.attempts : db.attempts[i].task \in Tasks
    <3>1. \A i \in DOMAIN db.attempts : db.attempts[i] \in AttemptRecord
      BY <1>4
    <3> QED BY <3>1 DEF AttemptRecord
  <2>4. \A i \in DOMAIN db.attempts : db.task[db.attempts[i].task].status # "none"
    BY <1>4 DEF AttemptsOK
  <2> HIDE DEF attempts
  <2> QED BY <1>11, <2>1, <2>2, <2>3, <2>4 DEF AttemptsOK
<1> HIDE DEF attempts
<1>13. e = d
  <2>1. /\ IsDatabase(d1) /\ d1.slot = slots /\ d1.node = db.node /\ d1.version = db.version
        /\ d1.policy = db.policy /\ d1.artifacts = db.artifacts /\ d1.assignments = db.assignments
        /\ d1.intents = db.intents
    BY Database, PutSlots
  <2> HIDE DEF d1
  <2>2. /\ IsDatabase(d) /\ d.slot = slots /\ d.node = db.node /\ d.version = db.version /\ d.task = tasks
        /\ d.attempts = attempts /\ d.policy = db.policy /\ d.artifacts = db.artifacts
        /\ d.assignments = db.assignments /\ d.intents = db.intents
    BY <1>12, <2>1, PutTasks
  <2> HIDE DEF d
  <2>3. d = [version |-> db.version, policy |-> db.policy, node |-> db.node, slot |-> slots, task |-> tasks,
             attempts |-> attempts, assignments |-> db.assignments, artifacts |-> db.artifacts,
             intents |-> db.intents]
    BY <2>2 DEF IsDatabase
  <2>4. e1 = [version |-> db.version, policy |-> db.policy, node |-> db.node, slot |-> db.slot, task |-> tasks,
              attempts |-> db.attempts, assignments |-> db.assignments, artifacts |-> db.artifacts,
              intents |-> db.intents]
    BY Database DEF IsDatabase
  <2> HIDE DEF e1
  <2>5. e2 = [version |-> db.version, policy |-> db.policy, node |-> db.node, slot |-> db.slot, task |-> tasks,
              attempts |-> attempts, assignments |-> db.assignments, artifacts |-> db.artifacts,
              intents |-> db.intents]
    BY <2>4
  <2> HIDE DEF e2
  <2>6. e = [version |-> db.version, policy |-> db.policy, node |-> db.node, slot |-> slots, task |-> tasks,
             attempts |-> attempts, assignments |-> db.assignments, artifacts |-> db.artifacts,
             intents |-> db.intents]
    BY <2>5
  <2> QED BY <2>3, <2>6
<1> HIDE DEF e
<1>14. /\ IsDatabase(d1) /\ d1.slot = slots /\ d1.node = db.node /\ d1.version = db.version
       /\ d1.policy = db.policy /\ d1.artifacts = db.artifacts /\ d1.assignments = db.assignments
    BY Database, PutSlots
<1> HIDE DEF d1
<1>15. /\ IsDatabase(d) /\ d.slot = slots /\ d.node = db.node /\ d.version = db.version /\ d.task = tasks
       /\ d.policy = db.policy /\ d.artifacts = db.artifacts /\ d.assignments = db.assignments
    BY <1>12, <1>14, PutTasks
<1> HIDE DEF d
<1>16. DatabaseOK(d)
    BY <1>9, <1>15, Database, DatabaseParts
<1>17. FilesThere(d) /\ TasksKept(d)
    BY <1>11, <1>15, Database DEF FilesThere, TasksKept
<1>18. FollowsPlan(db, unplanned) => FollowsPlan(d, unplanned)
  <2>1. \A y \in Slots : d.slot[y] = db.slot[y] \/ d.slot[y].state # "ready"
    BY <1>6, <1>10, <1>15
  <2> QED BY <1>15, <2>1, NotReady
<1>19. DatabaseOK(db') /\ NoDanglingArtifact' /\ (FollowsPlan(db, unplanned) => FollowsPlan(db, unplanned)')
    BY <1>1, <1>13, <1>16, <1>17, <1>18 DEF NoDanglingArtifact
<1>20. HandlersOK' /\ (Replanning => Replanning')
    BY <1>1 DEF Inv, HandlersOK, Replanning
<1>21. LinkOK' /\ DownOK' /\ UpOK' /\ CacheOK' /\ RunsOK' /\ JobsOK' /\ WorkOK'
    BY <1>1 DEF Inv, wire, workers, LinkOK, DownOK, UpOK, CacheOK, RunsOK, JobsOK, WorkOK
<1>22. SendingOK'
  <2>1. \A y \in sending : y \in Reserved /\ y.task \in Tasks /\ db.task[y.task].status # "none"
    BY DEF Inv, SendingOK, Reserved
  <2>2. \A y \in sending : tasks[y.task].status # "none"
    BY <1>11, <2>1
  <2>3. db'.task = tasks
    BY <1>1, <1>13, <1>15
  <2> QED BY <1>2, <1>7, <1>8, <1>11, <2>1, <2>2, <2>3 DEF SendingOK
<1> QED BY <1>19, <1>20, <1>21, <1>22 DEF Inv, DrainInv

\* dispatchAttempt
LEMMA DispatchAttemptInv ==
    ASSUME Inv, NEW x \in sending, DispatchAttempt(x)
    PROVE  Inv'
<1> DEFINE n == NodeOf[x.slot]
           m == TaskMessage(x)
<1>1. /\ sending' = sending \ {x} /\ UNCHANGED <<db, handler, link, up, workers, unplanned>>
      /\ down' = down \/ down' = [down EXCEPT ![n] = Append(down[n], m)]
    BY DEF DispatchAttempt, history
<1>2. /\ KnownVariant(x) /\ x.attempt \in Nat /\ x.slot \in Slots /\ x.profile \in Profiles
      /\ x.version \in Nat /\ x.variant \in Nat
    BY DEF Inv, SendingOK, Reserved
<1>3. n \in Nodes
    BY <1>2, PlanConstants
<1>4. m \in DownMessage
  <2>1. m \in [type : {"task"}, attempt : Nat, slot : Slots, profile : Profiles, version : Nat, variant : Nat]
        /\ m.profile = x.profile /\ m.variant = x.variant
    BY <1>2 DEF TaskMessage
  <2> HIDE DEF m
  <2>2. KnownVariant(m)
    BY <1>2, <2>1 DEF KnownVariant
  <2> QED BY <2>1, <2>2 DEF DownMessage
<1> HIDE DEF n, m
<1>5. DownOK'
  <2>1. down \in [Nodes -> Seq(DownMessage)]
    BY DEF Inv, DownOK
  <2>2. down' \in [Nodes -> Seq(DownMessage)]
    BY <1>1, <1>3, <1>4, <2>1
  <2> QED BY <2>2 DEF DownOK
<1>6. HandlersOK' /\ (Replanning => Replanning') /\ (FollowsPlan(db, unplanned) => FollowsPlan(db, unplanned)')
    BY <1>1 DEF Inv, HandlersOK, Replanning
<1>7. DatabaseOK(db') /\ NoDanglingArtifact' /\ SendingOK'
    BY <1>1 DEF Inv, NoDanglingArtifact, SendingOK
<1>8. LinkOK' /\ UpOK' /\ CacheOK' /\ RunsOK' /\ JobsOK' /\ WorkOK'
    BY <1>1 DEF Inv, workers, LinkOK, UpOK, CacheOK, RunsOK, JobsOK, WorkOK
<1> QED BY <1>5, <1>6, <1>7, <1>8 DEF Inv, DrainInv

\* markAttemptFailed: nothing is replanned, and the slot is set apart.
LEMMA MarkAttemptFailedInv ==
    ASSUME Inv, NEW x \in sending, MarkAttemptFailed(x)
    PROVE  Inv'
<1> DEFINE s == x.slot
           t == x.task
           i == x.attempt
           old == db.slot[s]
           free == [old EXCEPT !.state = "ready", !.task = FALSE]
           r == PutSlot(old, RecordFailure(free, "worker_disconnected", 1))
           k == FailedTask(db.task[t], s, TRUE)
           status == "failed"
           d == Ending(i, status, s, r, t, k)
<1>1. /\ db' = d /\ sending' = sending \ {x} /\ unplanned' = unplanned \cup {s}
      /\ UNCHANGED <<handler, wire, workers>>
    BY DEF MarkAttemptFailed, Ending
<1>2. s \in Slots /\ t \in Tasks /\ db.task[t].status # "none"
    BY DEF Inv, SendingOK, Reserved
<1> HIDE DEF s, t, i
<1>3. SlotOK(old) /\ TaskOK(db.task[t])
    BY <1>2, Database DEF SlotsOK, TasksOK
<1>4. SlotOK(r)
  <2> HIDE DEF old
  <2>1. SlotOK(free)
    <3>1. /\ old \in SlotRecord /\ (old.accepts => old.state \in {"ready", "idle"} /\ ~old.task)
          /\ old.expired => old.quarantined
      BY <1>3 DEF SlotOK
    <3>2. free \in SlotRecord
      BY <3>1 DEF SlotRecord, SlotStates
    <3>3. /\ free.state = "ready" /\ free.task = FALSE
          /\ free.expired = old.expired /\ free.quarantined = old.quarantined
      BY <3>1 DEF SlotRecord
    <3> HIDE DEF free
    <3> QED BY <3>1, <3>2, <3>3 DEF SlotOK
  <2> HIDE DEF free
  <2>2. SlotOK(RecordFailure(free, "worker_disconnected", 1))
    <3>1. "worker_disconnected" \in Reasons
      BY DEF Reasons
    <3> QED BY <2>1, <3>1, RecordFailureOK
  <2> QED BY <1>3, <2>2 DEF PutSlot
<1>5. TaskOK(k) /\ k.status # "none"
    BY <1>2, <1>3, FailedTaskOK
<1>6. status \in {"completed", "failed"}
    OBVIOUS
<1> HIDE DEF old, r, k, status
<1>7. DatabaseOK(d) /\ FilesThere(d) /\ TasksKept(d) /\ SameBut(d, {s})
    BY <1>2, <1>4, <1>5, <1>6, AttemptEnds
<1> HIDE DEF d
<1>8. FollowsPlan(db, unplanned) => FollowsPlan(d, unplanned')
    BY <1>1, <1>7, SetApart
<1>9. HandlersOK' /\ (Replanning => Replanning')
    BY <1>1 DEF Inv, HandlersOK, Replanning
<1>10. DatabaseOK(db') /\ NoDanglingArtifact' /\ (FollowsPlan(db, unplanned) => FollowsPlan(db, unplanned)')
    BY <1>1, <1>7, <1>8 DEF NoDanglingArtifact
<1>11. LinkOK' /\ DownOK' /\ UpOK' /\ CacheOK' /\ RunsOK' /\ JobsOK' /\ WorkOK'
    BY <1>1 DEF Inv, wire, workers, LinkOK, DownOK, UpOK, CacheOK, RunsOK, JobsOK, WorkOK
<1>12. SendingOK'
  <2>1. \A y \in sending : y \in Reserved /\ y.task \in Tasks /\ db.task[y.task].status # "none"
    BY DEF Inv, SendingOK, Reserved
  <2> QED BY <1>1, <1>7, <2>1 DEF SendingOK, TasksKept
<1> QED BY <1>9, <1>10, <1>11, <1>12 DEF Inv, DrainInv

-----------------------------------------------------------------------------
(* The Worker *)

\* What the Worker does leaves the Manager as it is.
LEMMA ManagerStays ==
    ASSUME Inv, UNCHANGED <<db, handler, sending, unplanned>>
    PROVE  DatabaseOK(db') /\ NoDanglingArtifact' /\ HandlersOK' /\ DrainInv' /\ SendingOK'
<1>1. HandlersOK' /\ (Replanning => Replanning') /\ (FollowsPlan(db, unplanned) => FollowsPlan(db, unplanned)')
    BY DEF Inv, HandlersOK, Replanning
<1>2. DatabaseOK(db') /\ NoDanglingArtifact' /\ SendingOK'
    BY DEF Inv, NoDanglingArtifact, SendingOK
<1> QED BY <1>1, <1>2 DEF Inv, DrainInv

\* What the Worker runs for an assignment or a task.
LEMMA RunningOK ==
    ASSUME NEW x, KnownVariant(x), x.version \in Nat, x.variant \in Nat, NEW state \in SlotStates
    PROVE  /\ RunOK(Running(x, state))
           /\ state # "ready" => RunOK([Running(x, state) EXCEPT !.task = TRUE])
           /\ ArtifactsOf(x) \in SUBSET Artifacts
<1> DEFINE model == ConcreteModel(VariantOf(x.profile, x.variant))
           r == [state |-> state, profile |-> x.profile, version |-> x.version, variant |-> x.variant,
                 model |-> model, task |-> FALSE]
           r2 == [r EXCEPT !.task = TRUE]
<1>1. PICK v \in Variants(x.profile) : x.variant = v.id
    BY DEF KnownVariant
<1>2. x.profile \in Profiles /\ VariantOf(x.profile, x.variant) = v
    BY <1>1, VariantFacts DEF KnownVariant
<1>3. model \in Artifacts /\ ArtifactsOf(x) \in SUBSET Artifacts
    BY <1>1, <1>2, VariantFacts DEF ArtifactsOf
<1>4. Running(x, state) = r
    BY DEF Running
<1> HIDE DEF model
<1>5. r \in RunRecord /\ ~r.task /\ r2 \in RunRecord /\ r2.state = state
    BY <1>2, <1>3 DEF RunRecord
<1> HIDE DEF r
<1>6. RunOK(r) /\ (state # "ready" => RunOK(r2))
    BY <1>5 DEF RunOK
<1> QED BY <1>3, <1>4, <1>6

\* The empty slot.
LEMMA EmptySlotOK ==
    RunOK(EmptySlot)
    BY DEF EmptySlot, RunOK, RunRecord, SlotStates

\* A slot's value is set.
LEMMA RunPut ==
    ASSUME RunsOK, NEW s \in Slots, NEW r, RunOK(r), wslot' = [wslot EXCEPT ![s] = r]
    PROVE  RunsOK'
<1>1. wslot = [k \in Slots |-> wslot[k]] /\ \A k \in Slots : RunOK(wslot[k])
    BY DEF RunsOK
<1>2. wslot' = [k \in Slots |-> wslot'[k]] /\ wslot'[s] = r /\ \A k \in Slots : k # s => wslot'[k] = wslot[k]
    BY <1>1
<1>3. \A k \in Slots : RunOK(wslot'[k])
    BY <1>1, <1>2
<1> QED BY <1>2, <1>3 DEF RunsOK, RunOK

\* A slot's value is set, if there is a slot.
LEMMA SetSlotOK ==
    ASSUME RunsOK, NEW s \in Slots \cup {0}, NEW r, RunOK(r), SetSlot(s, r)
    PROVE  RunsOK'
<1>1. CASE s = 0
    BY <1>1 DEF SetSlot, RunsOK
<1>2. CASE s # 0
  <2>1. s \in Slots /\ wslot' = [wslot EXCEPT ![s] = r]
    BY <1>2 DEF SetSlot
  <2> QED BY <2>1, RunPut
<1> QED BY <1>1, <1>2

\* The messages of a Worker.
LEMMA MessagesOK ==
    ASSUME NEW n \in Nodes
    PROVE  /\ \A s \in Slots : \A r : RunOK(r) => SlotMessage(s, r) \in UpMessage(n)
           /\ \A a \in Artifacts : \A state \in {"verified", "evicted", "evict_failed"} :
                ArtifactMessage(a, state) \in UpMessage(n)
           /\ \A i \in Nat : /\ [type |-> "report", attempt |-> i, status |-> "completed",
                              reason |-> "none", retry |-> FALSE] \in UpMessage(n)
                           /\ \A reason \in Reasons : \A retry \in BOOLEAN :
                                FailureNews(i, reason, retry) \in Seq(UpMessage(n))
<1>1. ASSUME NEW s \in Slots, NEW r, RunOK(r) PROVE SlotMessage(s, r) \in UpMessage(n)
  <2> DEFINE m == SlotMessage(s, r)
  <2>1. r \in RunRecord
    BY <1>1 DEF RunOK
  <2>2. m \in [type : {"slot"}, slot : Slots, value : RunRecord] /\ m.value = r
    BY <2>1 DEF SlotMessage
  <2> HIDE DEF m
  <2>3. m \in UpMessage(n)
    BY <1>1, <2>2 DEF UpMessage
  <2> QED BY <2>3 DEF m
<1>2. \A a \in Artifacts : \A state \in {"verified", "evicted", "evict_failed"} :
        ArtifactMessage(a, state) \in UpMessage(n)
    BY DEF ArtifactMessage, UpMessage
<1>3. ASSUME NEW i \in Nat
      PROVE  [type |-> "report", attempt |-> i, status |-> "completed", reason |-> "none",
              retry |-> FALSE] \in UpMessage(n)
    BY DEF UpMessage
<1>4. ASSUME NEW i \in Nat, NEW reason \in Reasons, NEW retry \in BOOLEAN
      PROVE  FailureNews(i, reason, retry) \in Seq(UpMessage(n))
  <2> DEFINE failed == [type |-> "failed", attempt |-> i, reason |-> reason, retry |-> retry]
             report == [type |-> "report", attempt |-> i, status |-> "failed", reason |-> reason, retry |-> retry]
  <2>1. failed \in [type : {"failed"}, attempt : Nat, reason : Reasons, retry : BOOLEAN]
    OBVIOUS
  <2>2. report \in [type : {"report"}, attempt : Nat, status : {"failed"}, reason : Reasons, retry : BOOLEAN]
    OBVIOUS
  <2>3. FailureNews(i, reason, retry) = <<failed, report>>
    BY DEF FailureNews
  <2> HIDE DEF failed, report
  <2>4. failed \in UpMessage(n) /\ report \in UpMessage(n)
    BY <2>1, <2>2 DEF UpMessage
  <2> QED BY <2>3, <2>4
<1> QED BY <1>1, <1>2, <1>3, <1>4

\* The message about a slot, if there is one.
LEMMA SlotNewsOK ==
    ASSUME NEW n \in Nodes, NEW s \in Slots \cup {0}, NEW r, RunOK(r)
    PROVE  SlotNews(s, r) \in Seq(UpMessage(n))
<1>1. CASE s = 0
    BY <1>1 DEF SlotNews
<1>2. CASE s # 0
  <2>1. SlotMessage(s, r) \in UpMessage(n)
    BY <1>2, MessagesOK
  <2>2. SlotNews(s, r) = <<SlotMessage(s, r)>>
    BY <1>2 DEF SlotNews
  <2> QED BY <2>1, <2>2
<1> QED BY <1>1, <1>2

\* The assignments at work on a Worker.
LEMMA JobsSet ==
    ASSUME JobsOK, NEW n \in Nodes, NEW J \in SUBSET Job, jobs' = [jobs EXCEPT ![n] = J]
    PROVE  JobsOK'
    BY DEF JobsOK

\* Hello and the full state.
LEMMA ConnectInv ==
    ASSUME Inv, NEW n \in Nodes, Connect(n)
    PROVE  Inv'
<1> DEFINE slots == [s \in SlotsOf(n) |-> wslot[s]]
           m == [type |-> "state", cache |-> cache[n], slots |-> slots]
<1>1. /\ link' = [link EXCEPT ![n] = "open"] /\ up' = [up EXCEPT ![n] = <<m>>]
      /\ UNCHANGED <<db, handler, down, workers, sending, unplanned>>
    BY DEF Connect, history
<1>2. \A s \in SlotsOf(n) : RunOK(slots[s]) /\ slots[s] \in RunRecord
    BY DEF Inv, RunsOK, SlotsOf, RunOK
<1>3. slots \in [SlotsOf(n) -> RunRecord]
    BY <1>2
<1>4. cache[n] \in SUBSET Artifacts
    BY DEF Inv, CacheOK
<1> HIDE DEF slots
<1>5. m \in [type : {"state"}, cache : SUBSET Artifacts, slots : [SlotsOf(n) -> RunRecord]] /\ m.slots = slots
    BY <1>3, <1>4
<1> HIDE DEF m
<1>6. m \in UpMessage(n)
    BY <1>2, <1>5 DEF UpMessage
<1>7. UpOK'
  <2>1. <<m>> \in Seq(UpMessage(n))
    BY <1>6
  <2> QED BY <1>1, <2>1, UpSet DEF Inv
<1>8. DatabaseOK(db') /\ NoDanglingArtifact' /\ HandlersOK' /\ DrainInv' /\ SendingOK'
    BY <1>1, ManagerStays
<1>9. LinkOK' /\ DownOK' /\ CacheOK' /\ RunsOK' /\ JobsOK' /\ WorkOK'
    BY <1>1 DEF Inv, workers, LinkOK, DownOK, CacheOK, RunsOK, JobsOK, WorkOK
<1> QED BY <1>7, <1>8, <1>9 DEF Inv

\* The Manager's messages by their type.
LEMMA DownKinds ==
    ASSUME NEW m \in DownMessage
    PROVE  /\ m.type = "assign" => /\ KnownVariant(m) /\ m.profile \in Profiles /\ m.version \in Nat \ {0}
                                   /\ m.variant \in Nat
                                   /\ m.slot \in Slots \cup {0} /\ m.files \in SUBSET Artifacts
           /\ m.type = "evict" => m.artifact \in Artifacts
           /\ m.type = "task" => /\ KnownVariant(m) /\ m.attempt \in Nat /\ m.slot \in Slots
                                 /\ m.profile \in Profiles /\ m.version \in Nat /\ m.variant \in Nat
    BY DEF DownMessage

\* queueAssignment
LEMMA ReceiveAssignmentInv ==
    ASSUME Inv, NEW n \in Nodes, ReceiveAssignment(n)
    PROVE  Inv'
<1> DEFINE m == Head(down[n])
           there == m.files \subseteq cache[n]
           pc == IF there THEN "load" ELSE "fetch"
           job == [profile |-> m.profile, version |-> m.version, variant |-> m.variant, slot |-> m.slot,
                   files |-> m.files, cut |-> FALSE, pc |-> pc]
           state == IF there THEN "loading" ELSE "downloading"
           value == Running(m, state)
<1>1. /\ down[n] # <<>> /\ m.type = "assign" /\ Dropped(n)
      /\ UNCHANGED <<db, handler, link, cache, work, sending, unplanned>>
    BY DEF ReceiveAssignment, Receives, history
<1>2. \/ UNCHANGED <<jobs, wslot, up>>
      \/ /\ jobs' = [jobs EXCEPT ![n] = jobs[n] \cup {job}]
         /\ SetSlot(m.slot, value) /\ Tell(n, SlotNews(m.slot, value))
    BY DEF ReceiveAssignment
<1>3. m \in DownMessage /\ DownOK'
    BY <1>1, DownShrinks DEF Inv
<1>4. /\ KnownVariant(m) /\ m.profile \in Profiles /\ m.version \in Nat \ {0} /\ m.variant \in Nat
      /\ m.slot \in Slots \cup {0} /\ m.files \in SUBSET Artifacts
  <2> HIDE DEF m
  <2> QED BY <1>1, <1>3, DownKinds
<1>5. pc \in {"load", "fetch"} /\ state \in SlotStates
    BY DEF SlotStates
<1> HIDE DEF m, there, pc, state
<1>6. RunOK(value)
    BY <1>4, <1>5, RunningOK
<1>7. job \in Job
  <2>1. job \in [profile : Profiles, version : Nat \ {0}, variant : Nat, slot : Slots \cup {0},
                 files : SUBSET Artifacts, cut : BOOLEAN, pc : {"load", "fetch"}]
    BY <1>4, <1>5
  <2>2. job.profile = m.profile /\ job.variant = m.variant
    OBVIOUS
  <2> HIDE DEF job
  <2>3. KnownVariant(job)
    BY <1>4, <2>2 DEF KnownVariant
  <2> QED BY <2>1, <2>3 DEF Job
<1> HIDE DEF value, job
<1>8. DatabaseOK(db') /\ NoDanglingArtifact' /\ HandlersOK' /\ DrainInv' /\ SendingOK' /\ LinkOK' /\ CacheOK' /\ WorkOK'
  <2>1. DatabaseOK(db') /\ NoDanglingArtifact' /\ HandlersOK' /\ DrainInv' /\ SendingOK'
    BY <1>1, ManagerStays
  <2>2. LinkOK' /\ CacheOK' /\ WorkOK'
    BY <1>1 DEF Inv, LinkOK, CacheOK, WorkOK
  <2> QED BY <2>1, <2>2
<1>9. CASE UNCHANGED <<jobs, wslot, up>>
  <2>1. JobsOK' /\ RunsOK' /\ UpOK'
    BY <1>9 DEF Inv, JobsOK, RunsOK, UpOK
  <2> QED BY <1>3, <1>8, <2>1 DEF Inv
<1>10. CASE /\ jobs' = [jobs EXCEPT ![n] = jobs[n] \cup {job}]
            /\ SetSlot(m.slot, value) /\ Tell(n, SlotNews(m.slot, value))
  <2>1. JobsOK'
    <3>1. jobs[n] \cup {job} \in SUBSET Job
      BY <1>7 DEF Inv, JobsOK
    <3> QED BY <1>10, <3>1, JobsSet DEF Inv
  <2>2. RunsOK'
    BY <1>4, <1>6, <1>10, SetSlotOK DEF Inv
  <2>3. UpOK'
    <3>1. SlotNews(m.slot, value) \in Seq(UpMessage(n))
      BY <1>4, <1>6, SlotNewsOK
    <3> QED BY <1>10, <3>1, UpGrows DEF Inv
  <2> QED BY <1>3, <1>8, <2>1, <2>2, <2>3 DEF Inv
<1> QED BY <1>2, <1>9, <1>10

\* An assignment at work.
LEMMA JobIs ==
    ASSUME Inv, NEW n \in Nodes, NEW j \in jobs[n]
    PROVE  /\ j \in Job /\ jobs[n] \in SUBSET Job /\ KnownVariant(j) /\ j.version \in Nat /\ j.variant \in Nat
           /\ j.slot \in Slots \cup {0} /\ j.files \in SUBSET Artifacts
<1>1. j \in Job /\ jobs[n] \in SUBSET Job
    BY DEF Inv, JobsOK
<1>2. /\ KnownVariant(j) /\ j.version \in Nat /\ j.variant \in Nat
      /\ j.slot \in Slots \cup {0} /\ j.files \in SUBSET Artifacts
    BY <1>1 DEF Job
<1> QED BY <1>1, <1>2

\* The slot of an assignment changes, and the Manager hears of it.
LEMMA JobNews ==
    ASSUME Inv, NEW n \in Nodes, NEW j \in jobs[n], NEW state \in SlotStates
    PROVE  /\ SetSlot(j.slot, Running(j, state)) => RunsOK'
           /\ SlotNews(j.slot, Running(j, state)) \in Seq(UpMessage(n))
<1> DEFINE r == Running(j, state)
<1>1. KnownVariant(j) /\ j.version \in Nat /\ j.variant \in Nat /\ j.slot \in Slots \cup {0}
    BY JobIs
<1>2. RunOK(r)
    BY <1>1, RunningOK
<1> HIDE DEF r
<1>3. SetSlot(j.slot, r) => RunsOK'
    BY <1>1, <1>2, SetSlotOK DEF Inv
<1>4. SlotNews(j.slot, r) \in Seq(UpMessage(n))
    BY <1>1, <1>2, SlotNewsOK
<1> QED BY <1>3, <1>4 DEF r

\* An assignment that fails.
LEMMA JobFailsOK ==
    ASSUME Inv, NEW n \in Nodes, NEW j \in jobs[n], JobFails(n, j)
    PROVE  RunsOK' /\ UpOK' /\ JobsOK'
<1> DEFINE r == Running(j, "error")
<1>1. SetSlot(j.slot, r) /\ Tell(n, SlotNews(j.slot, r)) /\ jobs' = [jobs EXCEPT ![n] = jobs[n] \ {j}]
    BY DEF JobFails
<1>2. "error" \in SlotStates
    BY DEF SlotStates
<1>3. RunsOK' /\ SlotNews(j.slot, r) \in Seq(UpMessage(n))
    BY <1>1, <1>2, JobNews
<1> HIDE DEF r
<1>4. UpOK'
    BY <1>1, <1>3, UpGrows DEF Inv
<1>5. JobsOK'
  <2>1. jobs[n] \ {j} \in SUBSET Job
    BY JobIs
  <2> QED BY <1>1, <2>1, JobsSet DEF Inv
<1> QED BY <1>3, <1>4, <1>5

\* A list of messages in the order of the artifacts or slots they are about.
LEMMA ListIs ==
    ASSUME NEW S, IsFiniteSet(S), S \subseteq Int, NEW T, NEW f, DOMAIN f = DOMAIN Ascending(S),
           f = [i \in DOMAIN Ascending(S) |-> f[i]],
           \A i \in DOMAIN Ascending(S) : Ascending(S)[i] \in S => f[i] \in T
    PROVE  f \in Seq(T)
<1> DEFINE q == Ascending(S)
           k == Cardinality(S)
<1>1. k \in Nat /\ DOMAIN q = 1..k /\ \A i \in DOMAIN q : q[i] \in S
    BY AscendingIs
<1> HIDE DEF q, k
<1>2. f = [i \in 1..k |-> f[i]] /\ \A i \in 1..k : f[i] \in T
    BY <1>1 DEF q
<1> QED BY <1>1, <1>2, IsASeq

\* ensureArtifact
LEMMA FetchInv ==
    ASSUME Inv, NEW n \in Nodes, NEW j \in jobs[n], Fetch(n, j)
    PROVE  Inv'
<1> DEFINE missing == j.files \ cache[n]
           order == Ascending(missing)
           news == [i \in DOMAIN order |-> ArtifactMessage(order[i], "verified")]
           r == Running(j, "loading")
           rest == IF j.slot = 0 THEN {} ELSE {[j EXCEPT !.pc = "load"]}
<1>1. UNCHANGED <<db, handler, link, down, work, sending, unplanned>>
    BY DEF Fetch, history
<1>2. \/ /\ cache' = [cache EXCEPT ![n] = cache[n] \cup missing]
         /\ SetSlot(j.slot, r) /\ Tell(n, news \o SlotNews(j.slot, r))
         /\ jobs' = [jobs EXCEPT ![n] = (jobs[n] \ {j}) \cup rest]
      \/ JobFails(n, j) /\ UNCHANGED cache
    BY DEF Fetch
<1>3. missing \in SUBSET Artifacts
    BY JobIs
<1>4. DatabaseOK(db') /\ NoDanglingArtifact' /\ HandlersOK' /\ DrainInv' /\ SendingOK' /\ LinkOK' /\ DownOK' /\ WorkOK'
  <2>1. DatabaseOK(db') /\ NoDanglingArtifact' /\ HandlersOK' /\ DrainInv' /\ SendingOK'
    BY <1>1, ManagerStays
  <2>2. LinkOK' /\ DownOK' /\ WorkOK'
    BY <1>1 DEF Inv, LinkOK, DownOK, WorkOK
  <2> QED BY <2>1, <2>2
<1>5. CASE JobFails(n, j) /\ UNCHANGED cache
  <2>1. RunsOK' /\ UpOK' /\ JobsOK'
    BY <1>5, JobFailsOK
  <2>2. CacheOK'
    BY <1>5 DEF Inv, CacheOK
  <2> QED BY <1>4, <2>1, <2>2 DEF Inv
<1>6. CASE /\ cache' = [cache EXCEPT ![n] = cache[n] \cup missing]
           /\ SetSlot(j.slot, r) /\ Tell(n, news \o SlotNews(j.slot, r))
           /\ jobs' = [jobs EXCEPT ![n] = (jobs[n] \ {j}) \cup rest]
  <2>1. CacheOK'
    BY <1>3, <1>6 DEF Inv, CacheOK
  <2>2. "loading" \in SlotStates
    BY DEF SlotStates
  <2>3. RunsOK' /\ SlotNews(j.slot, r) \in Seq(UpMessage(n))
    BY <1>6, <2>2, JobNews
  <2>4. news \in Seq(UpMessage(n))
    <3> HIDE DEF missing
    <3>1. IsFiniteSet(missing) /\ missing \subseteq Int
      <4>1. IsFiniteSet(Artifacts) /\ Artifacts \subseteq Int
        BY CatalogueConstants
      <4>2. IsFiniteSet(missing)
        BY <1>3, <4>1, FS_Subset
      <4> QED BY <1>3, <4>1, <4>2
    <3>2. \A i \in DOMAIN order : news[i] = ArtifactMessage(order[i], "verified")
      OBVIOUS
    <3>3. DOMAIN news = DOMAIN order /\ news = [i \in DOMAIN order |-> news[i]]
      OBVIOUS
    <3> HIDE DEF news
    <3>4. \A i \in DOMAIN order : order[i] \in missing => news[i] \in UpMessage(n)
      BY <1>3, <3>2, MessagesOK
    <3> QED BY <3>1, <3>3, <3>4, ListIs
  <2> HIDE DEF news, r
  <2>5. UpOK'
    <3>1. news \o SlotNews(j.slot, r) \in Seq(UpMessage(n))
      BY <2>3, <2>4
    <3> QED BY <1>6, <3>1, UpGrows DEF Inv
  <2>6. JobsOK'
    <3>1. [j EXCEPT !.pc = "load"] \in Job
      <4> DEFINE k == [j EXCEPT !.pc = "load"]
      <4>1. j \in Job
        BY JobIs
      <4>2. k \in [profile : Profiles, version : Nat \ {0}, variant : Nat, slot : Slots \cup {0},
                   files : SUBSET Artifacts, cut : BOOLEAN, pc : {"load", "fetch"}]
            /\ k.profile = j.profile /\ k.variant = j.variant
        BY <4>1 DEF Job
      <4> HIDE DEF k
      <4>3. KnownVariant(k)
        BY <4>1, <4>2 DEF Job, KnownVariant
      <4>4. k \in Job
        BY <4>2, <4>3 DEF Job
      <4> QED BY <4>4 DEF k
    <3>2. rest \in SUBSET Job
      BY <3>1
    <3> HIDE DEF rest
    <3>3. (jobs[n] \ {j}) \cup rest \in SUBSET Job
      BY <3>2, JobIs
    <3> QED BY <1>6, <3>3, JobsSet DEF Inv
  <2> QED BY <1>4, <2>1, <2>3, <2>5, <2>6 DEF Inv
<1> QED BY <1>2, <1>5, <1>6

\* ensureSlotWarm
LEMMA LoadInv ==
    ASSUME Inv, NEW n \in Nodes, NEW j \in jobs[n], Load(n, j)
    PROVE  Inv'
<1> DEFINE r == Running(j, "ready")
<1>1. UNCHANGED <<db, handler, link, down, cache, work, sending, unplanned>>
    BY DEF Load, history
<1>2. \/ /\ SetSlot(j.slot, r) /\ Tell(n, SlotNews(j.slot, r))
         /\ jobs' = [jobs EXCEPT ![n] = jobs[n] \ {j}]
      \/ JobFails(n, j)
    BY DEF Load
<1>3. DatabaseOK(db') /\ NoDanglingArtifact' /\ HandlersOK' /\ DrainInv' /\ SendingOK'
    BY <1>1, ManagerStays
<1>4. LinkOK' /\ DownOK' /\ CacheOK' /\ WorkOK'
    BY <1>1 DEF Inv, LinkOK, DownOK, CacheOK, WorkOK
<1>5. RunsOK' /\ UpOK' /\ JobsOK'
  <2>1. CASE JobFails(n, j)
    BY <2>1, JobFailsOK
  <2>2. CASE /\ SetSlot(j.slot, r) /\ Tell(n, SlotNews(j.slot, r)) /\ jobs' = [jobs EXCEPT ![n] = jobs[n] \ {j}]
    <3>1. "ready" \in SlotStates
      BY DEF SlotStates
    <3>2. RunsOK' /\ SlotNews(j.slot, r) \in Seq(UpMessage(n))
      BY <2>2, <3>1, JobNews
    <3> HIDE DEF r
    <3>3. UpOK'
      BY <2>2, <3>2, UpGrows DEF Inv
    <3>4. jobs[n] \ {j} \in SUBSET Job
      BY JobIs
    <3>5. JobsOK'
      BY <2>2, <3>4, JobsSet DEF Inv
    <3> QED BY <3>2, <3>3, <3>5
  <2> QED BY <1>2, <2>1, <2>2
<1> QED BY <1>3, <1>4, <1>5 DEF Inv

\* evictArtifact
LEMMA ReceiveEvictionInv ==
    ASSUME Inv, NEW n \in Nodes, ReceiveEviction(n)
    PROVE  Inv'
<1> DEFINE a == Head(down[n]).artifact
           using == {s \in SlotsOf(n) : Uses(s, a)}
           order == Ascending(using)
           refused == <<ArtifactMessage(a, "evict_failed")>>
           kept == {[j EXCEPT !.cut = j.cut \/ a \in ArtifactsOf(j)] : j \in jobs[n]}
           lists == [i \in DOMAIN order |-> SlotMessage(order[i], EmptySlot)]
           news == Append(lists, ArtifactMessage(a, "evicted"))
           slots == [s \in Slots |-> IF s \in using THEN EmptySlot ELSE wslot[s]]
<1>1. /\ down[n] # <<>> /\ Head(down[n]).type = "evict" /\ Dropped(n)
      /\ UNCHANGED <<db, handler, link, work, sending, unplanned>>
    BY DEF ReceiveEviction, Receives, history
<1>2. \/ Tell(n, refused) /\ UNCHANGED <<cache, wslot, jobs>>
      \/ /\ cache' = [cache EXCEPT ![n] = cache[n] \ {a}] /\ wslot' = slots
         /\ jobs' = [jobs EXCEPT ![n] = kept] /\ Tell(n, news)
    BY DEF ReceiveEviction
<1>3. Head(down[n]) \in DownMessage /\ DownOK'
    BY <1>1, DownShrinks DEF Inv
<1>4. a \in Artifacts
    BY <1>1, <1>3, DownKinds
<1> HIDE DEF a
<1>5. DatabaseOK(db') /\ NoDanglingArtifact' /\ HandlersOK' /\ DrainInv' /\ SendingOK' /\ LinkOK' /\ WorkOK'
  <2>1. DatabaseOK(db') /\ NoDanglingArtifact' /\ HandlersOK' /\ DrainInv' /\ SendingOK'
    BY <1>1, ManagerStays
  <2>2. LinkOK' /\ WorkOK'
    BY <1>1 DEF Inv, LinkOK, WorkOK
  <2> QED BY <2>1, <2>2
<1>6. /\ ArtifactMessage(a, "evict_failed") \in UpMessage(n) /\ ArtifactMessage(a, "evicted") \in UpMessage(n)
    BY <1>4, MessagesOK
<1>7. CASE Tell(n, refused) /\ UNCHANGED <<cache, wslot, jobs>>
  <2>1. refused \in Seq(UpMessage(n))
    BY <1>6
  <2> HIDE DEF refused
  <2>2. UpOK'
    BY <1>7, <2>1, UpGrows DEF Inv
  <2>3. CacheOK' /\ RunsOK' /\ JobsOK'
    BY <1>7 DEF Inv, CacheOK, RunsOK, JobsOK
  <2> QED BY <1>3, <1>5, <2>2, <2>3 DEF Inv
<1>8. CASE /\ cache' = [cache EXCEPT ![n] = cache[n] \ {a}] /\ wslot' = slots
           /\ jobs' = [jobs EXCEPT ![n] = kept] /\ Tell(n, news)
  <2>1. CacheOK'
    BY <1>8 DEF Inv, CacheOK
  <2>2. using \in SUBSET Slots
    BY DEF SlotsOf
  <2>3. RunsOK'
    <3>1. \A s \in Slots : RunOK(wslot[s])
      BY DEF Inv, RunsOK
    <3>2. \A s \in Slots : slots[s] = EmptySlot \/ slots[s] = wslot[s]
      OBVIOUS
    <3>3. slots = [s \in Slots |-> slots[s]]
      OBVIOUS
    <3> HIDE DEF slots
    <3>4. \A s \in Slots : RunOK(slots[s])
      BY <3>1, <3>2, EmptySlotOK
    <3> QED BY <1>8, <3>3, <3>4 DEF RunsOK, RunOK
  <2>4. JobsOK'
    <3>1. ASSUME NEW j \in jobs[n] PROVE [j EXCEPT !.cut = j.cut \/ a \in ArtifactsOf(j)] \in Job
      <4> DEFINE c == j.cut \/ a \in ArtifactsOf(j)
                 k == [j EXCEPT !.cut = c]
      <4>1. j \in Job
        BY JobIs
      <4>2. c \in BOOLEAN
        OBVIOUS
      <4> HIDE DEF c
      <4>3. k \in [profile : Profiles, version : Nat \ {0}, variant : Nat, slot : Slots \cup {0},
                   files : SUBSET Artifacts, cut : BOOLEAN, pc : {"load", "fetch"}]
            /\ k.profile = j.profile /\ k.variant = j.variant
        BY <4>1, <4>2 DEF Job
      <4> HIDE DEF k
      <4>4. KnownVariant(k)
        BY <4>1, <4>3 DEF Job, KnownVariant
      <4>5. k \in Job
        BY <4>3, <4>4 DEF Job
      <4> QED BY <4>5 DEF k, c
    <3>2. kept \in SUBSET Job
      BY <3>1
    <3> HIDE DEF kept
    <3> QED BY <1>8, <3>2, JobsSet DEF Inv
  <2>5. UpOK'
    <3> HIDE DEF using
    <3>1. IsFiniteSet(using) /\ using \subseteq Int
      <4>1. IsFiniteSet(Slots) /\ Slots \subseteq Int
        BY PlanConstants
      <4>2. IsFiniteSet(using)
        BY <2>2, <4>1, FS_Subset
      <4> QED BY <2>2, <4>1, <4>2
    <3>2. \A i \in DOMAIN order : lists[i] = SlotMessage(order[i], EmptySlot)
      OBVIOUS
    <3>3. DOMAIN lists = DOMAIN order /\ lists = [i \in DOMAIN order |-> lists[i]]
      OBVIOUS
    <3>4. news = Append(lists, ArtifactMessage(a, "evicted"))
      OBVIOUS
    <3> HIDE DEF lists, news
    <3>5. \A i \in DOMAIN order : order[i] \in using => lists[i] \in UpMessage(n)
      BY <2>2, <3>2, MessagesOK, EmptySlotOK
    <3>6. lists \in Seq(UpMessage(n))
      BY <3>1, <3>3, <3>5, ListIs
    <3>7. news \in Seq(UpMessage(n))
      BY <1>6, <3>4, <3>6
    <3> QED BY <1>8, <3>7, UpGrows DEF Inv
  <2> QED BY <1>3, <1>5, <2>1, <2>3, <2>4, <2>5 DEF Inv
<1> QED BY <1>2, <1>7, <1>8

\* admitTask, setSlotServing
LEMMA ReceiveTaskInv ==
    ASSUME Inv, NEW n \in Nodes, ReceiveTask(n)
    PROVE  Inv'
<1> DEFINE m == Head(down[n])
           serving == [Running(m, "serving") EXCEPT !.task = TRUE]
           news == <<SlotMessage(m.slot, serving)>>
           reason == IF wslot[m.slot] = Running(m, "ready") THEN "artifact_digest_mismatch"
                     ELSE "admission_check_failed"
           refused == FailureNews(m.attempt, reason, TRUE)
           w == [attempt |-> m.attempt, slot |-> m.slot, profile |-> m.profile,
                 version |-> m.version, variant |-> m.variant, pc |-> "run"]
<1>1. /\ down[n] # <<>> /\ m.type = "task" /\ Dropped(n)
      /\ UNCHANGED <<db, handler, link, cache, jobs, sending, unplanned>>
    BY DEF ReceiveTask, Receives, history
<1>2. \/ wslot' = [wslot EXCEPT ![m.slot] = serving] /\ Tell(n, news) /\ work' = work \cup {w}
      \/ Tell(n, refused) /\ UNCHANGED <<wslot, work>>
    BY DEF ReceiveTask
<1>3. m \in DownMessage /\ DownOK'
    BY <1>1, DownShrinks DEF Inv
<1>4. /\ KnownVariant(m) /\ m.attempt \in Nat /\ m.slot \in Slots /\ m.profile \in Profiles
      /\ m.version \in Nat /\ m.variant \in Nat
  <2> HIDE DEF m
  <2> QED BY <1>1, <1>3, DownKinds
<1>5. reason \in Reasons
    BY DEF Reasons
<1> HIDE DEF m, reason
<1>6. w \in Execution
  <2>1. w \in [attempt : Nat, slot : Slots, profile : Profiles, version : Nat, variant : Nat,
               pc : {"run", "fail", "recover", "restart"}] /\ w.profile = m.profile /\ w.variant = m.variant
    BY <1>4
  <2> HIDE DEF w
  <2>2. KnownVariant(w)
    BY <1>4, <2>1 DEF KnownVariant
  <2> QED BY <2>1, <2>2 DEF Execution
<1>7. RunOK(serving)
  <2>1. "serving" \in SlotStates
    BY DEF SlotStates
  <2> QED BY <1>4, <2>1, RunningOK
<1> HIDE DEF serving, w
<1>8. news \in Seq(UpMessage(n)) /\ refused \in Seq(UpMessage(n))
  <2>1. SlotMessage(m.slot, serving) \in UpMessage(n)
    BY <1>4, <1>7, MessagesOK
  <2>2. TRUE \in BOOLEAN
    OBVIOUS
  <2>3. refused \in Seq(UpMessage(n))
    BY <1>4, <1>5, <2>2, MessagesOK
  <2>4. news \in Seq(UpMessage(n))
    BY <2>1
  <2> HIDE DEF news, refused
  <2> QED BY <2>3, <2>4
<1> HIDE DEF news, refused
<1>9. UpOK'
    BY <1>2, <1>8, UpGrows DEF Inv
<1>10. RunsOK'
  <2>1. CASE wslot' = [wslot EXCEPT ![m.slot] = serving]
    BY <1>4, <1>7, <2>1, RunPut DEF Inv
  <2>2. CASE UNCHANGED wslot
    BY <2>2 DEF Inv, RunsOK
  <2> QED BY <1>2, <2>1, <2>2
<1>11. WorkOK'
    BY <1>2, <1>6 DEF Inv, WorkOK
<1>12. DatabaseOK(db') /\ NoDanglingArtifact' /\ HandlersOK' /\ DrainInv' /\ SendingOK'
    BY <1>1, ManagerStays
<1>13. LinkOK' /\ CacheOK' /\ JobsOK'
    BY <1>1 DEF Inv, LinkOK, CacheOK, JobsOK
<1> QED BY <1>3, <1>9, <1>10, <1>11, <1>12, <1>13 DEF Inv

\* A goroutine that executes, fails or recovers from a task.
LEMMA WorkIs ==
    ASSUME Inv, NEW w \in work
    PROVE  /\ w \in Execution /\ KnownVariant(w) /\ w.attempt \in Nat /\ w.version \in Nat /\ w.variant \in Nat
           /\ w.slot \in Slots /\ NodeOf[w.slot] \in Nodes
<1>1. w \in Execution
    BY DEF Inv, WorkOK
<1>2. KnownVariant(w) /\ w.attempt \in Nat /\ w.version \in Nat /\ w.variant \in Nat /\ w.slot \in Slots
    BY <1>1 DEF Execution
<1> QED BY <1>1, <1>2, PlanConstants

\* ... which goes on.
LEMMA WorkGoesOn ==
    ASSUME Inv, NEW w \in work, NEW pc \in {"fail", "recover", "restart"}
    PROVE  [w EXCEPT !.pc = pc] \in Execution
<1> DEFINE x == [w EXCEPT !.pc = pc]
<1>1. w \in Execution /\ KnownVariant(w)
    BY WorkIs
<1>2. x \in [attempt : Nat, slot : Slots, profile : Profiles, version : Nat, variant : Nat,
               pc : {"run", "fail", "recover", "restart"}] /\ x.profile = w.profile /\ x.variant = w.variant
    BY <1>1 DEF Execution
<1> HIDE DEF x
<1>3. KnownVariant(x)
    BY <1>1, <1>2 DEF KnownVariant
<1>4. x \in Execution
    BY <1>2, <1>3 DEF Execution
<1> QED BY <1>4 DEF x

\* What it leaves in the slot, and the message about it.
LEMMA EndedOK ==
    ASSUME Inv, NEW w \in work, NEW state \in {"ready", "error", "warming"}
    PROVE  RunOK(Ended(w, state)) /\ SlotMessage(w.slot, Ended(w, state)) \in UpMessage(NodeOf[w.slot])
<1> DEFINE old == wslot[w.slot]
           r == [old EXCEPT !.state = state, !.task = FALSE]
<1>1. state \in SlotStates
    BY DEF SlotStates
<1>2. RunOK(r)
  <2>1. old \in RunRecord
    BY WorkIs DEF Inv, RunsOK, RunOK
  <2> HIDE DEF old
  <2>2. r \in RunRecord /\ ~r.task
    BY <1>1, <2>1 DEF RunRecord
  <2> HIDE DEF r
  <2> QED BY <2>2 DEF RunOK
<1>3. RunOK(Running(w, state))
    BY <1>1, WorkIs, RunningOK
<1>4. Ended(w, state) = r \/ Ended(w, state) = Running(w, state)
    BY DEF Ended
<1> HIDE DEF r
<1>5. RunOK(Ended(w, state))
    BY <1>2, <1>3, <1>4
<1>6. SlotMessage(w.slot, Ended(w, state)) \in UpMessage(NodeOf[w.slot])
    BY <1>5, WorkIs, MessagesOK
<1> QED BY <1>5, <1>6

\* The goroutine says what has become of the task or the slot, and is done or goes on.
LEMMA WorkEnds ==
    ASSUME Inv, NEW w \in work, NEW msgs \in Seq(UpMessage(NodeOf[w.slot])), Tell(NodeOf[w.slot], msgs),
           NEW r, RunOK(r), wslot' = [wslot EXCEPT ![w.slot] = r] \/ UNCHANGED wslot,
           NEW more \in SUBSET Execution, work' = (work \ {w}) \cup more,
           UNCHANGED <<db, handler, link, down, cache, jobs, sending, unplanned>>
    PROVE  Inv'
<1>1. UpOK'
    BY WorkIs, UpGrows DEF Inv
<1>2. RunsOK'
  <2>1. CASE wslot' = [wslot EXCEPT ![w.slot] = r]
    BY <2>1, WorkIs, RunPut DEF Inv
  <2>2. CASE UNCHANGED wslot
    BY <2>2 DEF Inv, RunsOK
  <2> QED BY <2>1, <2>2
<1>3. WorkOK'
    BY DEF Inv, WorkOK
<1>4. DatabaseOK(db') /\ NoDanglingArtifact' /\ HandlersOK' /\ DrainInv' /\ SendingOK'
    BY ManagerStays
<1>5. LinkOK' /\ DownOK' /\ CacheOK' /\ JobsOK'
    BY DEF Inv, LinkOK, DownOK, CacheOK, JobsOK
<1> QED BY <1>1, <1>2, <1>3, <1>4, <1>5 DEF Inv

\* The end of executeTask.
LEMMA FinishTaskInv ==
    ASSUME Inv, NEW w \in work, FinishTask(w)
    PROVE  Inv'
<1> DEFINE r == Ended(w, "ready")
           report == [type |-> "report", attempt |-> w.attempt, status |-> "completed", reason |-> "none",
                      retry |-> FALSE]
           news == <<SlotMessage(w.slot, r), report>>
           more == {}
<1>1. /\ wslot' = [wslot EXCEPT ![w.slot] = r] /\ Tell(NodeOf[w.slot], news) /\ work' = (work \ {w}) \cup more
      /\ UNCHANGED <<db, handler, link, down, cache, jobs, sending, unplanned>>
    BY DEF FinishTask, history
<1>2. RunOK(r) /\ SlotMessage(w.slot, r) \in UpMessage(NodeOf[w.slot])
    BY EndedOK
<1>3. report \in UpMessage(NodeOf[w.slot])
    BY WorkIs, MessagesOK
<1> HIDE DEF r, report
<1>4. news \in Seq(UpMessage(NodeOf[w.slot]))
    BY <1>2, <1>3
<1>5. more \in SUBSET Execution
    OBVIOUS
<1> HIDE DEF news, more
<1> QED BY <1>1, <1>2, <1>4, <1>5, WorkEnds

\* The runtime fails, and two goroutines go on.
LEMMA RuntimeErrorInv ==
    ASSUME Inv, NEW w \in work, RuntimeError(w)
    PROVE  Inv'
<1>1. /\ work' = (work \ {w}) \cup {[w EXCEPT !.pc = "fail"], [w EXCEPT !.pc = "recover"]}
      /\ UNCHANGED <<db, handler, wire, cache, wslot, jobs, sending, unplanned>>
    BY DEF RuntimeError, history
<1>2. [w EXCEPT !.pc = "fail"] \in Execution /\ [w EXCEPT !.pc = "recover"] \in Execution
    BY WorkGoesOn
<1>3. WorkOK'
    BY <1>1, <1>2 DEF Inv, WorkOK
<1>4. DatabaseOK(db') /\ NoDanglingArtifact' /\ HandlersOK' /\ DrainInv' /\ SendingOK'
    BY <1>1, ManagerStays
<1>5. LinkOK' /\ DownOK' /\ UpOK' /\ CacheOK' /\ RunsOK' /\ JobsOK'
    BY <1>1 DEF Inv, wire, LinkOK, DownOK, UpOK, CacheOK, RunsOK, JobsOK
<1> QED BY <1>3, <1>4, <1>5 DEF Inv

\* failExecution
LEMMA FailTaskInv ==
    ASSUME Inv, NEW w \in work, NEW retry \in BOOLEAN, FailTask(w, retry)
    PROVE  Inv'
<1> DEFINE news == FailureNews(w.attempt, "runtime_error", retry)
           more == {}
<1>1. /\ Tell(NodeOf[w.slot], news) /\ work' = (work \ {w}) \cup more
      /\ UNCHANGED <<db, handler, link, down, cache, wslot, jobs, sending, unplanned>>
    BY DEF FailTask, history
<1>2. "runtime_error" \in Reasons
    BY DEF Reasons
<1>3. news \in Seq(UpMessage(NodeOf[w.slot]))
    BY <1>2, WorkIs, MessagesOK
<1>4. more \in SUBSET Execution
    OBVIOUS
<1> HIDE DEF news, more
<1> QED BY <1>1, <1>3, <1>4, EmptySlotOK, WorkEnds

\* recoverRuntimeSlot
LEMMA RecoverSlotInv ==
    ASSUME Inv, NEW w \in work, NEW state \in {"ready", "error", "warming"}, RecoverSlot(w, state)
    PROVE  Inv'
<1> DEFINE r == Ended(w, state)
           news == <<SlotMessage(w.slot, r)>>
           more == IF state = "warming" THEN {[w EXCEPT !.pc = "restart"]} ELSE {}
<1>1. /\ wslot' = [wslot EXCEPT ![w.slot] = r] /\ Tell(NodeOf[w.slot], news) /\ work' = (work \ {w}) \cup more
      /\ UNCHANGED <<db, handler, link, down, cache, jobs, sending, unplanned>>
    BY DEF RecoverSlot, history
<1>2. RunOK(r) /\ SlotMessage(w.slot, r) \in UpMessage(NodeOf[w.slot])
    BY EndedOK
<1> HIDE DEF r
<1>3. news \in Seq(UpMessage(NodeOf[w.slot]))
    BY <1>2
<1>4. more \in SUBSET Execution
    BY WorkGoesOn
<1> HIDE DEF news, more
<1> QED BY <1>1, <1>2, <1>3, <1>4, WorkEnds

-----------------------------------------------------------------------------
(* The inductive invariant holds *)

\* The start.
LEMMA InitInv ==
    ASSUME Init
    PROVE  Inv
<1>1. PICK s \in SetUps :
        /\ db = s.db /\ cache = s.cache
        /\ handler = [h \in Handlers |-> IF h = Admin THEN [Idle EXCEPT !.pc = s.pc] ELSE Idle]
        /\ link = [n \in Nodes |-> IF n \in s.live THEN "registered" ELSE "down"]
        /\ down = [n \in Nodes |-> <<>>] /\ up = [n \in Nodes |-> <<>>]
        /\ wslot = [k \in Slots |-> IF NodeOf[k] \in s.live
                                    THEN [f \in DOMAIN EmptySlot |-> s.db.slot[k][f]] ELSE EmptySlot]
        /\ jobs = [n \in Nodes |-> {}] /\ work = {} /\ sending = {} /\ unplanned = {}
    BY DEF Init
<1>2. /\ DatabaseOK(s.db) /\ FilesThere(s.db)
      /\ s.pc = "plan" \/ (s.pc = "idle" /\ FollowsPlan(s.db, {}))
      /\ s.cache \in [Nodes -> SUBSET Artifacts]
      /\ \A k \in Slots : NodeOf[k] \in s.live /\ s.db.slot[k].state = "ready" => ~s.db.slot[k].task
    BY SetUpConstants
<1>3. DatabaseOK(db) /\ NoDanglingArtifact /\ CacheOK
    BY <1>1, <1>2 DEF NoDanglingArtifact, CacheOK
<1>4. LinkOK /\ DownOK /\ UpOK /\ JobsOK /\ WorkOK /\ SendingOK
  <2>1. LinkOK
    BY <1>1 DEF LinkOK
  <2>2. DownOK
    BY <1>1 DEF DownOK
  <2>3. UpOK
    BY <1>1 DEF UpOK
  <2>4. JobsOK
    BY <1>1 DEF JobsOK
  <2>5. WorkOK /\ SendingOK
    BY <1>1 DEF WorkOK, SendingOK
  <2> QED BY <2>1, <2>2, <2>3, <2>4, <2>5
<1>5. RunsOK
  <2>1. ASSUME NEW k \in Slots PROVE RunOK(wslot[k])
    <3> DEFINE old == s.db.slot[k]
               r == [f \in DOMAIN EmptySlot |-> old[f]]
    <3>1. old \in SlotRecord /\ (NodeOf[k] \in s.live /\ old.state = "ready" => ~old.task)
      BY <1>2 DEF DatabaseOK, SlotOK
    <3>2. r = [state |-> old.state, profile |-> old.profile, version |-> old.version,
               variant |-> old.variant, model |-> old.model, task |-> old.task]
      BY DEF EmptySlot
    <3>3. wslot[k] = IF NodeOf[k] \in s.live THEN r ELSE EmptySlot
      BY <1>1
    <3> HIDE DEF r, old
    <3>4. r \in RunRecord /\ r.state = old.state /\ r.task = old.task
      BY <3>1, <3>2 DEF RunRecord, SlotRecord
    <3> QED BY <3>1, <3>3, <3>4, EmptySlotOK DEF RunOK
  <2>2. wslot = [k \in Slots |-> wslot[k]]
    BY <1>1
  <2> QED BY <2>1, <2>2 DEF RunsOK
<1>6. HandlersOK /\ DrainInv
  <2> DEFINE H == [Idle EXCEPT !.pc = s.pc]
  <2>1. HandlerOK(H) /\ H.pc = s.pc
    <3>1. s.pc \in {"plan", "idle"}
      BY <1>2
    <3> QED BY <3>1 DEF Idle, HandlerOK, PlanHeld, SendHeld
  <2>2. \A h \in Handlers : handler[h] = IF h = Admin THEN H ELSE Idle
    BY <1>1
  <2>3. handler = [h \in Handlers |-> handler[h]]
    BY <1>1
  <2> HIDE DEF H
  <2>4. HandlersOK
    BY <2>1, <2>2, <2>3, EmptyHands DEF HandlersOK
  <2>5. handler[Admin].pc = s.pc
    BY <2>1, <2>2, HandlerSet
  <2>6. DrainInv
    BY <1>1, <1>2, <2>5, HandlerSet DEF DrainInv, Replanning
  <2> QED BY <2>4, <2>6
<1> QED BY <1>3, <1>4, <1>5, <1>6 DEF Inv

\* Each step keeps the inductive invariant.
LEMMA NextInv ==
    ASSUME Inv, [Next]_vars
    PROVE  Inv'
<1>1. ASSUME NEW h \in Handlers, ReplanStep(h) PROVE Inv'
    BY <1>1, TakePlanInv, CommitInv, SendAssignmentsInv, PlanEvictionsInv, DispatchEvictionsInv DEF ReplanStep
<1>2. ASSUME AdminStep PROVE Inv'
    BY <1>2, ApplyPlacementInv, UpsertProfileInv, DeleteProfileInv, UpsertPolicyInv, DeleteNodeInv, UpdateNodeInv,
       UnbanInv, ArtifactInv, KeepCacheInv, RequestEvictionInv DEF AdminStep
<1>3. ASSUME NEW n \in Nodes, ReaderStep(n) PROVE Inv'
    BY <1>3, RegisterWorkerInv, HeartbeatInv, UpdateArtifactStateInv, UpdateSlotStateInv,
       HandleAttemptFailedInv, HandleComputeReportInv DEF ReaderStep
<1>4. ASSUME NEW n \in Nodes, WorkerStep(n) PROVE Inv'
    BY <1>4, ConnectInv, ReceiveAssignmentInv, ReceiveEvictionInv, ReceiveTaskInv, FetchInv, LoadInv
    DEF WorkerStep
<1>5. ASSUME NEW w \in work, WorkStep(w) PROVE Inv'
    BY <1>5, FinishTaskInv, RuntimeErrorInv, FailTaskInv, RecoverSlotInv DEF WorkStep
<1>6. ASSUME RequestStep PROVE Inv'
    BY <1>6, RequestInv, ClearExpiredQuarantinesInv, StartTaskInv, DispatchAttemptInv, MarkAttemptFailedInv
    DEF RequestStep
<1>7. ASSUME TimeStep PROVE Inv'
    BY <1>7, HeartbeatInv, QuarantineExpiresInv DEF TimeStep
<1>8. CASE UNCHANGED vars
  <2>1. UNCHANGED <<db, handler, link, down, up, cache, wslot, jobs, work, sending, unplanned>>
    BY <1>8 DEF vars
  <2>2. DatabaseOK(db') /\ NoDanglingArtifact' /\ HandlersOK' /\ DrainInv' /\ SendingOK'
    BY <2>1, ManagerStays
  <2>3. LinkOK' /\ DownOK' /\ UpOK' /\ CacheOK' /\ RunsOK' /\ JobsOK' /\ WorkOK'
    BY <2>1 DEF Inv, LinkOK, DownOK, UpOK, CacheOK, RunsOK, JobsOK, WorkOK
  <2> QED BY <2>2, <2>3 DEF Inv
<1>9. CASE Next
    BY <1>1, <1>2, <1>3, <1>4, <1>5, <1>6, <1>7, <1>9, DisconnectInv DEF Next
<1> QED BY <1>8, <1>9

\* Spec => []Inv
LEMMA InvHolds == Spec => []Inv
<1>1. Init => Inv
    BY InitInv
<1>2. Inv /\ [Next]_vars => Inv'
    BY NextInv
<1> QED BY <1>1, <1>2, PTL DEF Spec

-----------------------------------------------------------------------------
(* The theorems *)

\* The state keeps its types: the database is well formed through every edit,
\* registration, report, failure, plan and lost session; a slot that takes requests
\* has no task and is ready, or idle where an attempt failed after the slot had
\* changed its profile (handleAttemptFailed); every attempt is of a stored task; and
\* what is on the wire or at work on a Worker names artifacts, slots and variants
\* that exist.
THEOREM TypeCorrect == Spec => []TypeOK
<1>1. Inv => TypeOK
    BY DEF Inv, TypeOK, HandlersOK, HandlerOK, LinkOK, DownOK, UpOK, CacheOK, RunsOK, JobsOK,
       WorkOK, SendingOK
<1> QED BY <1>1, InvHolds, PTL

\* No profile in the database lacks a file (upsertProfile, deleteArtifactRecord).
THEOREM FilesKept == Spec => []NoDanglingArtifact
<1>1. Inv => NoDanglingArtifact
    BY DEF Inv
<1> QED BY <1>1, InvHolds, PTL

\* When all is quiet, slots take requests as the stored plan says, but for those that
\* one of the three writers without a replan has written since the last plan was
\* stored (handleAttemptFailed, markAttemptFailed, clearExpiredQuarantines): every
\* other writer of AcceptsNew is followed by a plan that is stored with
\* applyPlacementDrainState, whichever goroutines' plans come in between.
THEOREM SlotsFollowPlan == Spec => []AcceptsFollowsPlan
<1>1. Inv => AcceptsFollowsPlan
  <2>1. ASSUME Inv, Quiet PROVE FollowsPlan(db, unplanned)
    <3>1. ~Replanning
      BY <2>1 DEF Quiet, Replanning
    <3> QED BY <2>1, <3>1 DEF Inv, DrainInv
  <2> QED BY <2>1 DEF AcceptsFollowsPlan
<1> QED BY <1>1, InvHolds, PTL

\* A plan that a goroutine is about to store keeps the planner's promises about the
\* database it was made from.
LEMMA PlansKeepPromises ==
    ASSUME Inv, NEW h \in PlansMade
    PROVE  Promises(handler[h].snapshot, handler[h].plan)
<1>1. PlanDatabase(handler[h].snapshot) /\ handler[h].plan = RunPlanner(handler[h].snapshot, FALSE).plan
    BY DEF PlansMade, Inv, HandlersOK, HandlerOK, PlanHeld
<1> QED BY <1>1, PlanKeepsPromises

\* No plan that is about to be stored loads a node beyond its memory or its disk.
THEOREM BudgetsKept == Spec => []PlanWithinBudgets
<1>1. Inv => PlanWithinBudgets
    BY PlansKeepPromises DEF PlanWithinBudgets, Promises
<1> QED BY <1>1, InvHolds, PTL

\* No plan that is about to be stored promises a slot twice, but for hard pins.
THEOREM SlotsOwnedOnce == Spec => []OneOwnerPerSlot
<1>1. Inv => OneOwnerPerSlot
    BY PlansKeepPromises DEF OneOwnerPerSlot, Promises
<1> QED BY <1>1, InvHolds, PTL

\* A plan that is short of warm copies has left no slot that could take one.
THEOREM ShortagesReal == Spec => []ShortageIsReal
<1>1. Inv => ShortageIsReal
    BY PlansKeepPromises DEF ShortageIsReal, Promises
<1> QED BY <1>1, InvHolds, PTL

\* Where the variants of a profile are listed by their ids, the explanation of the
\* database that an administrator plans on comes to that plan, and rejects every
\* candidate of a profile without pins that is short of warm copies.
THEOREM ExplanationsAgree ==
    ASSUME VariantsById
    PROVE  Spec => []ExplainAgrees
<1>1. ASSUME Inv, Admin \in PlansMade
      PROVE  LET d == handler[Admin].snapshot
                 told == ExplainPlacement(d)
                 Short(p) == \E a \in ToSet(told.plan) : a.profile = p /\ a.warm /\ a.place[1] = "missing"
             IN  /\ told.plan = handler[Admin].plan
                 /\ \A p \in Profiles : Short(p) /\ d.policy[p].pins = <<>> =>
                     {<<p, c.slot, c.variant.id>> : c \in AllCandidates(d, p)} \subseteq told.rejected
  <2> DEFINE d == handler[Admin].snapshot
             told == ExplainPlacement(d)
  <2>1. PlanDatabase(d) /\ handler[Admin].plan = RunPlanner(d, FALSE).plan
    BY <1>1 DEF PlansMade, Inv, HandlersOK, HandlerOK, PlanHeld
  <2>2. told.plan = handler[Admin].plan /\ Explains(d, told.plan, told.rejected)
    <3> HIDE DEF d
    <3> QED BY <2>1, ExplainedPlan DEF ExplainPlacement
  <2> HIDE DEF d, told
  <2>3. ASSUME NEW p \in Profiles, NEW a \in ToSet(told.plan), a.profile = p, a.warm, a.place[1] = "missing"
        PROVE  IsShort(told.plan, p)
    BY <2>3 DEF ToSet, IsShort
  <2>4. \A p \in Profiles :
           (\E a \in ToSet(told.plan) : a.profile = p /\ a.warm /\ a.place[1] = "missing") /\ d.policy[p].pins = <<>> =>
               {<<p, c.slot, c.variant.id>> : c \in AllCandidates(d, p)} \subseteq told.rejected
    BY <2>2, <2>3 DEF Explains, Names
  <2> QED BY <2>2, <2>4 DEF d, told
<1>2. Inv => ExplainAgrees
    BY <1>1 DEF ExplainAgrees
<1> QED BY <1>2, InvHolds, PTL
=============================================================================
