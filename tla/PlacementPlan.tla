--------------------------- MODULE PlacementPlan ---------------------------
(***************************************************************************)
(* The placement planner as a function of the database: which profile fits *)
(* which slot, how many copies a policy wants, and the plan that gives     *)
(* each profile its slots and caches.  ExplainPlacement runs the same plan *)
(* with a second way of choosing candidates, by their rejection reasons.   *)
(*                                                                         *)
(* Ids are numbers, since the planner compares them; memory and disk are   *)
(* counted in GiB; times are ages in ticks.  A profile has the one policy  *)
(* that the API names after it.                                            *)
(***************************************************************************)
EXTENDS Integers, Sequences, FiniteSets, SequencesExt

CONSTANTS
    Nodes, Slots, Profiles,
    NodeOf,      \* the node of each slot
    Hardware,    \* of each node: tags, adapters and the budgets it announced
    Device,      \* of each slot: target, adapter, resources
    Catalogue,   \* of each profile: the sequence of its runtime variants
    SizeOf,      \* the size of each artifact
    NoPolicy, NoProfile,
    BucketSize, Buckets,    \* autoBalanceDemandWindow is Buckets * BucketSize
    Cooldown                \* AutoBalanceScaleDownCooldown

Artifacts == DOMAIN SizeOf
ResourceCounts == [ram : Nat, vram : Nat, unified : Nat, disk : Nat]

ASSUME PlanConstants ==
    /\ Nodes \cup Slots \cup Profiles \subseteq Nat \ {0}
    /\ IsFiniteSet(Nodes) /\ IsFiniteSet(Slots) /\ IsFiniteSet(Profiles)
    /\ NodeOf \in [Slots -> Nodes] /\ \A n \in Nodes : Hardware[n].budget \in ResourceCounts
    /\ BucketSize \in Nat \ {0} /\ Buckets \in Nat \ {0} /\ Cooldown \in Nat
    /\ NoProfile \notin Profiles

\* A profile has a variant at least, and a variant a model file; variants are looked
\* up by their ids, which no profile uses twice.
ASSUME CatalogueConstants ==
    /\ Artifacts \subseteq Nat \ {0} /\ IsFiniteSet(Artifacts)
    /\ \A a \in Artifacts : SizeOf[a] \in Nat
    /\ \A p \in Profiles :
        /\ Catalogue[p] \in Seq(ToSet(Catalogue[p])) /\ Catalogue[p] # <<>>
        /\ \A v \in ToSet(Catalogue[p]) :
            /\ v.id \in Nat \ {0} /\ v.needs \in ResourceCounts
            /\ v.artifacts \in Seq(Artifacts) /\ v.artifacts # <<>>
        /\ \A i, j \in DOMAIN Catalogue[p] : Catalogue[p][i].id = Catalogue[p][j].id => i = j

LexLess(x, y) == \E i \in DOMAIN x : x[i] < y[i] /\ \A j \in 1..(i - 1) : x[j] = y[j]
Window == Buckets * BucketSize

\* sort.Slice, of a set under a strict total order.
Sorted(S, Less(_, _)) ==
    [k \in 1..Cardinality(S) |-> CHOOSE x \in S : Cardinality({y \in S : Less(y, x)}) = k - 1]
Ascending(S) == Sorted(S, LAMBDA x, y : x < y)

-----------------------------------------------------------------------------
(* Profiles, variants and their fit to a slot *)

\* ProfileRuntimeVariants; the model file is the first artifact of a variant.
Variants(p) == ToSet(Catalogue[p])
ConcreteModel(v) == v.artifacts[1]
ProfileArtifacts(p) == UNION {ToSet(v.artifacts) : v \in Variants(p)}

\* Requirements.UnifiedMemoryBytes, or RAMBytes.
ProfileMemory(v) == IF v.needs.unified > 0 THEN v.needs.unified ELSE v.needs.ram
ProfileDisk(v) == IF v.needs.disk > 0 THEN v.needs.disk
                  ELSE SumFunctionOnSet(SizeOf, ToSet(v.artifacts))
NodeMemory(n) == IF Hardware[n].budget.unified > 0 THEN Hardware[n].budget.unified
                 ELSE Hardware[n].budget.ram
NodePlacementBudget(n) == Max({NodeMemory(n), Hardware[n].budget.disk})
ProfileSize(p) == Max({ProfileMemory(v) + ProfileDisk(v) : v \in Variants(p)})

Reason(condition, name) == IF condition THEN {name} ELSE {}

\* FitProfileToSlot: the reasons why a variant does not fit; none if it fits.  No
\* code puts a whole node under quarantine.
FitReasons(db, v, s) ==
    LET n == NodeOf[s]
    IN  UNION {
            Reason(db.node[n].state = "disabled" \/ db.node[n].disabled, "node_disabled"),
            Reason(db.slot[s].quarantined, "quarantined"),
            Reason(~db.node[n].approved, "node_not_approved"),
            Reason(v.target # Device[s].target, "target_unsupported"),
            Reason(~(v.tags \subseteq Hardware[n].tags), "missing_required_tags"),
            Reason(v.adapter # Device[s].adapter \/ v.adapter \notin Hardware[n].adapters,
                   "runtime_adapter_missing"),
            {"resource_exhausted_" \o r : r \in {k \in DOMAIN v.needs :
                Device[s].resources[k] > 0 /\ Device[s].resources[k] < v.needs[k]}}}
Fits(db, v, s) == FitReasons(db, v, s) = {}

\* BestVariantForSlot: the first that fits, or the last.
BestVariant(db, p, s) ==
    LET fitting == {i \in DOMAIN Catalogue[p] : Fits(db, Catalogue[p][i], s)}
    IN  Catalogue[p][IF fitting = {} THEN Len(Catalogue[p]) ELSE Min(fitting)]

SlotProfileCurrent(db, s, p, v) ==
    /\ db.slot[s].profile = p /\ db.slot[s].version = db.version[p]
    /\ db.slot[s].variant = v.id /\ db.slot[s].model = ConcreteModel(v)

-----------------------------------------------------------------------------
(* How many copies a policy wants *)

TerminalStatus == {"completed", "failed", "cancelled"}

CeilDiv(value, divisor) == (value + divisor - 1) \div divisor
ClampCount(value, least, most) ==
    LET raised == Max({value, least}) IN IF most > 0 /\ raised > most THEN most ELSE raised

\* The tasks of a profile that demandBucket counts for an observer "back" ticks ago.
Recent(db, p, back) ==
    {t \in DOMAIN db.task : /\ db.task[t].status # "none" /\ db.task[t].profile = p
                            /\ db.task[t].age >= back /\ db.task[t].age - back < Window}
SmoothedDemand(db, p, back) ==
    LET recent == Recent(db, p, back)
        active == {(db.task[t].age - back) \div BucketSize : t \in recent}
    IN  CeilDiv(Cardinality(recent) * Cardinality(active), 4 * Buckets)

WithStatus(db, p, status) ==
    Cardinality({t \in DOMAIN db.task : db.task[t].status = status /\ db.task[t].profile = p})

\* Tasks older than the window that ended within the cooldown.
RecentlyFinished(db, p) ==
    Cardinality({t \in DOMAIN db.task :
        /\ db.task[t].profile = p /\ db.task[t].status \in TerminalStatus
        /\ db.task[t].age >= Window /\ db.task[t].ended < Cooldown})

CooldownDemand(db, p) ==
    IF Cooldown = 0 THEN 0
    ELSE Max({SmoothedDemand(db, p, Cooldown), RecentlyFinished(db, p)})

\* profileDemand, as it ranks the policies: the cooldown has no part in it.
Demand(db, p) ==
    WithStatus(db, p, "queued") + WithStatus(db, p, "running") + SmoothedDemand(db, p, 0)

FixedCapacity(policy) ==
    LET cached == Max({policy.warm, policy.cached})
    IN  [warm |-> policy.warm, cached |-> cached, minWarm |-> policy.warm, minCached |-> cached]

AutoCapacity(db, p) ==
    LET policy == db.policy[p]
        minWarm == IF policy.minWarm = 0 THEN policy.warm ELSE policy.minWarm
        floor == Max({policy.minCached, minWarm})
        minCached == IF floor = 0 THEN policy.cached ELSE floor
        warm == ClampCount(Max({Demand(db, p), CooldownDemand(db, p)}), minWarm, policy.maxWarm)
        cached == ClampCount(Max({warm, minCached}), minCached, policy.maxCached)
    IN  [warm |-> warm, cached |-> Max({cached, warm}), minWarm |-> minWarm, minCached |-> minCached]

EffectiveCapacity(db, p) ==
    IF db.policy[p].auto THEN AutoCapacity(db, p) ELSE FixedCapacity(db.policy[p])

\* validatePlacementPolicy; counts are naturals already.
ValidPolicy(policy) ==
    /\ policy.maxWarm > 0 => policy.minWarm <= policy.maxWarm
    /\ policy.maxCached > 0 => policy.minCached <= policy.maxCached

-----------------------------------------------------------------------------
(* Candidates *)

\* nodePlacementRejectionReasons, and nodeUsableForPlacement when there are none.
NodeReasons(db, n, policy) ==
    LET node == db.node[n]
    IN  IF node.state = "absent" THEN {"node_missing"}
        ELSE UNION {
            IF node.state = "disabled" \/ node.disabled THEN {"node_disabled"}
            ELSE Reason(node.state # "online", "node_not_online"),
            Reason(~node.approved, "node_not_approved"),
            Reason(n \in policy.deny, "node_denied"),
            Reason(~(policy.tags \subseteq Hardware[n].tags), "missing_required_tags")}
NodeUsable(db, n, policy) ==
    /\ db.node[n].state = "online" /\ db.node[n].approved
    /\ n \notin policy.deny /\ policy.tags \subseteq Hardware[n].tags

\* The weights of placementScore, which rank preference before warmth before size.
PlacementScore(db, p, s, v) ==
    (IF NodeOf[s] \in db.policy[p].prefer THEN 1000000 ELSE 0)
    + (IF SlotProfileCurrent(db, s, p, v) THEN 100000 ELSE 0)
    + NodePlacementBudget(NodeOf[s]) - 100 * db.slot[s].failures

KnownSlots(db) == {s \in Slots : db.slot[s].state # "absent"}
AllCandidates(db, p) ==
    {[slot |-> s, variant |-> Catalogue[p][i], place |-> i,
      score |-> PlacementScore(db, p, s, Catalogue[p][i])] :
        s \in KnownSlots(db), i \in DOMAIN Catalogue[p]}

\* By score, then slot; variants of a slot stay in the order of the profile.
PlacementCandidates(db, p) ==
    LET fitting == {c \in AllCandidates(db, p) :
                       NodeUsable(db, NodeOf[c.slot], db.policy[p]) /\ Fits(db, c.variant, c.slot)}
        Rank(c) == <<-c.score, c.slot, c.place>>
    IN  Sorted(fitting, LAMBDA c, d : LexLess(Rank(c), Rank(d)))

\* The explainer lists every slot, and variants of a slot by their id.
ExplainCandidates(db, p) ==
    LET all == AllCandidates(db, p)
        Rank(c) == <<-c.score, c.slot, c.variant.id>>
    IN  Sorted(all, LAMBDA c, d : LexLess(Rank(c), Rank(d)))

\* runtimeCopyProtected, slotAvailableForWarm.
RuntimeCopyProtected(slot) == slot.task \/ slot.state \in {"serving", "loading", "warming"}
SlotAvailableForWarm(db, s, p, v) ==
    /\ ~db.slot[s].task
    /\ IF db.slot[s].state = "serving" THEN SlotProfileCurrent(db, s, p, v)
       ELSE db.slot[s].state \notin {"unavailable", "error"}

-----------------------------------------------------------------------------
(* The planner's tables *)

NewPlanner ==
    [plan |-> <<>>, protected |-> {}, used |-> {},
     warm |-> [p \in Profiles |-> 0], cached |-> [p \in Profiles |-> 0],
     missing |-> [p \in Profiles |-> 0],
     memory |-> [n \in Nodes |-> 0], disk |-> [n \in Nodes |-> 0],
     nodeWarm |-> [n \in Nodes |-> {}], nodeCache |-> [n \in Nodes |-> {}],
     rejected |-> {}]

MarkCache(st, p, c) ==
    LET n == NodeOf[c.slot]
    IN  IF p \in st.nodeCache[n] THEN st
        ELSE [st EXCEPT !.disk[n] = @ + ProfileDisk(c.variant),
                        !.nodeCache[n] = @ \cup {p}, !.cached[p] = @ + 1]
MarkWarm(st, p, c) ==
    LET n == NodeOf[c.slot]
    IN  MarkCache([st EXCEPT !.used = @ \cup {c.slot}, !.memory[n] = @ + ProfileMemory(c.variant),
                             !.nodeWarm[n] = @ \cup {p}, !.warm[p] = @ + 1], p, c)

\* profileLimitRejectionReason
LimitReasons(st, item, n, warm) ==
    IF warm /\ item.policy.maxWarmPerNode > 0 /\ item.profile \notin st.nodeWarm[n]
            /\ Cardinality(st.nodeWarm[n]) >= item.policy.maxWarmPerNode
    THEN {"per_node_warm_profile_limit"}
    ELSE Reason(/\ item.policy.maxCachedPerNode > 0 /\ item.profile \notin st.nodeCache[n]
                /\ Cardinality(st.nodeCache[n]) >= item.policy.maxCachedPerNode,
                "per_node_cached_profile_limit")

WithinDiskBudget(st, n, v) ==
    LET budget == Hardware[n].budget.disk
    IN  budget > 0 => st.disk[n] + ProfileDisk(v) <= budget

\* Mutant: each copy is measured on its own.
WithinMemoryBudget_Alone(st, n, v) ==
    NodeMemory(n) > 0 /\ ProfileMemory(v) > 0 => ProfileMemory(v) <= NodeMemory(n)

WithinMemoryBudget(st, n, v) ==
    NodeMemory(n) > 0 /\ ProfileMemory(v) > 0 => st.memory[n] + ProfileMemory(v) <= NodeMemory(n)

Suppressed(db, n) == db.node[n].suppressed = "yes"

\* Mutant: the explanation knows nothing of flapping.
BudgetReasons_Calm(db, st, item, c, warm) ==
    LET n == NodeOf[c.slot]
    IN  UNION {LimitReasons(st, item, n, warm),
               Reason(~WithinDiskBudget(st, n, c.variant), "resource_exhausted_disk"),
               Reason(warm /\ ~WithinMemoryBudget(st, n, c.variant), "resource_exhausted_memory")}

\* nodeBudgetRejectionReasons, and canUseCandidate when there are none.
BudgetReasons(db, st, item, c, warm) ==
    LET n == NodeOf[c.slot]
    IN  UNION {Reason(warm /\ Suppressed(db, n), "worker_flapping"),
               LimitReasons(st, item, n, warm),
               Reason(~WithinDiskBudget(st, n, c.variant), "resource_exhausted_disk"),
               Reason(warm /\ ~WithinMemoryBudget(st, n, c.variant), "resource_exhausted_memory")}

CanUseCandidate(db, st, item, c, warm) ==
    LET n == NodeOf[c.slot]
    IN  /\ warm => ~Suppressed(db, n)
        /\ LimitReasons(st, item, n, warm) = {}
        /\ WithinDiskBudget(st, n, c.variant)
        /\ warm => WithinMemoryBudget(st, n, c.variant)

BaseReasons(db, item, c) ==
    NodeReasons(db, NodeOf[c.slot], item.policy) \cup FitReasons(db, c.variant, c.slot)

\* warmSlotUnavailableReasons
SlotReasons(db, s, p, v) ==
    LET slot == db.slot[s]
    IN  UNION {Reason(slot.task, "slot_active_task"),
               Reason(slot.state = "serving" /\ ~SlotProfileCurrent(db, s, p, v),
                      "slot_serving_other_profile"),
               Reason(slot.state = "unavailable", "slot_unavailable"),
               Reason(slot.state = "error", "slot_error")}

-----------------------------------------------------------------------------
(* Assignments.  The id of one is its profile with a slot, a node's cache, or a *)
(* missing copy.                                                                 *)

AssignmentFromFit(db, p, s, v, mismatch) ==
    LET current == SlotProfileCurrent(db, s, p, v)
        state == db.slot[s].state
    IN  [profile |-> p, node |-> NodeOf[s], place |-> <<"slot", s>>, variant |-> v.id,
         warm |-> TRUE,
         actualCached |-> current /\ state \in {"cached", "warming", "ready", "serving"},
         actualWarm |-> current /\ state \in {"ready", "serving"},
         mismatch |-> mismatch, draining |-> FALSE]

CacheAssignment(db, p, c) ==
    LET n == NodeOf[c.slot]
    IN  [profile |-> p, node |-> n, place |-> <<"cache", n>>, variant |-> c.variant.id,
         warm |-> FALSE, actualCached |-> ToSet(c.variant.artifacts) \subseteq db.node[n].cached,
         actualWarm |-> FALSE, mismatch |-> FALSE, draining |-> FALSE]

MissingAssignment(p, k, warm) ==
    [profile |-> p, node |-> 0, place |-> <<"missing", k>>, variant |-> 0, warm |-> warm,
     actualCached |-> FALSE, actualWarm |-> FALSE, mismatch |-> TRUE, draining |-> FALSE]

AssignmentID(a) == <<a.profile, a.place>>
Add(st, a) == [st EXCEPT !.plan = Append(@, a)]

AddMissing(st, p, warm) ==
    [Add(st, MissingAssignment(p, st.missing[p], warm)) EXCEPT
        !.missing[p] = @ + 1, !.cached[p] = @ + 1, !.warm[p] = @ + (IF warm THEN 1 ELSE 0)]

-----------------------------------------------------------------------------
(* The phases of a plan *)

\* nextWarmCandidate and nextCacheCandidate: the first of the candidates that may be
\* used, as a sequence of at most one.
FirstOf(candidates, usable) == IF usable = {} THEN <<>> ELSE <<candidates[Min(usable)]>>

\* A node is looked at once, with its best candidate.
BestOfNode(candidates, eligible) ==
    {i \in eligible : \A j \in eligible : j < i => NodeOf[candidates[j].slot] # NodeOf[candidates[i].slot]}

\* Mutant: a slot that is taken is offered again.
NextWarm_Reused(db, st, item) ==
    LET Usable(c) == /\ SlotAvailableForWarm(db, c.slot, item.profile, c.variant)
                     /\ CanUseCandidate(db, st, item, c, TRUE)
    IN  FirstOf(item.candidates, {i \in DOMAIN item.candidates : Usable(item.candidates[i])})

\* Mutant: only the best candidate of each node is looked at, as for a cache.
NextWarm_BestOfNode(db, st, item) ==
    LET Usable(c) == /\ c.slot \notin st.used
                     /\ SlotAvailableForWarm(db, c.slot, item.profile, c.variant)
                     /\ CanUseCandidate(db, st, item, c, TRUE)
        nodes == BestOfNode(item.candidates, DOMAIN item.candidates)
    IN  FirstOf(item.candidates, {i \in nodes : Usable(item.candidates[i])})

NextWarm(db, st, item) ==
    LET Usable(c) == /\ c.slot \notin st.used
                     /\ SlotAvailableForWarm(db, c.slot, item.profile, c.variant)
                     /\ CanUseCandidate(db, st, item, c, TRUE)
    IN  FirstOf(item.candidates, {i \in DOMAIN item.candidates : Usable(item.candidates[i])})

NextCache(db, st, item) ==
    LET Uncached(c) == item.profile \notin st.nodeCache[NodeOf[c.slot]]
        Usable(c) == CanUseCandidate(db, st, item, c, FALSE)
        nodes == BestOfNode(item.candidates, {i \in DOMAIN item.candidates : Uncached(item.candidates[i])})
    IN  FirstOf(item.candidates, {i \in nodes : Usable(item.candidates[i])})

\* The same choice by rejection reasons, which the explainer keeps.
WarmReasons(db, st, item, c) ==
    UNION {BaseReasons(db, item, c),
           Reason(c.slot \in st.used, "slot_already_reserved"),
           IF SlotAvailableForWarm(db, c.slot, item.profile, c.variant) THEN {}
           ELSE SlotReasons(db, c.slot, item.profile, c.variant),
           BudgetReasons(db, st, item, c, TRUE)}

NextWarmExplain(db, st, item) ==
    LET Usable(c) == WarmReasons(db, st, item, c) = {}
    IN  FirstOf(item.candidates, {i \in DOMAIN item.candidates : Usable(item.candidates[i])})

NextCacheExplain(db, st, item) ==
    LET Eligible(c) == BaseReasons(db, item, c) = {} /\ item.profile \notin st.nodeCache[NodeOf[c.slot]]
        Usable(c) == BaseReasons(db, item, c) \cup BudgetReasons(db, st, item, c, FALSE) = {}
        nodes == BestOfNode(item.candidates, {i \in DOMAIN item.candidates : Eligible(item.candidates[i])})
    IN  FirstOf(item.candidates, {i \in nodes : Usable(item.candidates[i])})

\* addRejected: what the warm phase says of the candidates it does not take.
Reject(db, st, item) ==
    [st EXCEPT !.rejected = @ \cup
        {<<item.profile, c.slot, c.variant.id>> :
                        c \in {d \in ToSet(item.candidates) : WarmReasons(db, st, item, d) # {}}}]

\* A round with its candidate, or with a missing copy when there is none.
PlaceWarm(db, st, item, next) ==
    IF next = <<>> THEN AddMissing(st, item.profile, TRUE)
    ELSE MarkWarm(Add(st, AssignmentFromFit(db, item.profile, next[1].slot, next[1].variant, FALSE)),
                  item.profile, next[1])
PlaceCache(db, st, item, next) ==
    IF next = <<>> THEN AddMissing(st, item.profile, FALSE)
    ELSE MarkCache(Add(st, CacheAssignment(db, item.profile, next[1])), item.profile, next[1])

\* A round of placeWarmUntil or placeCacheUntil.
PlaceCopy(db, st, item, warm, explain) ==
    CASE warm /\ explain -> PlaceWarm(db, Reject(db, st, item), item, NextWarmExplain(db, st, item))
      [] warm /\ ~explain -> PlaceWarm(db, st, item, NextWarm(db, st, item))
      [] ~warm /\ explain -> PlaceCache(db, st, item, NextCacheExplain(db, st, item))
      [] OTHER -> PlaceCache(db, st, item, NextCache(db, st, item))

\* placeWarmUntil and placeCacheUntil: every round raises the profile's count by one,
\* with a slot or with a missing copy.
PlaceUntil(db, st, phase, explain) ==
    LET p == phase.item.profile
        count == IF phase.warm THEN st.warm[p] ELSE st.cached[p]
    IN  FoldLeft(LAMBDA acc, i : PlaceCopy(db, acc, phase.item, phase.warm, explain),
                 st, [i \in 1..(phase.target - count) |-> i])

\* placeHardPin: a pin asks neither whether the slot is used nor whether it is busy.
PinCandidate(db, st, item, c, refused) ==
    LET pinned == Add(st, AssignmentFromFit(db, item.profile, c.slot, c.variant, refused))
    IN  IF refused THEN pinned ELSE MarkWarm(pinned, item.profile, c)
PlaceHardPin(db, st, item, s) ==
    LET c == [slot |-> s, variant |-> BestVariant(db, item.profile, s)]
    IN  IF s \in KnownSlots(db)
        THEN PinCandidate(db, st, item, c,
                Suppressed(db, NodeOf[s]) \/ BaseReasons(db, item, c) \cup BudgetReasons(db, st, item, c, TRUE) # {})
        ELSE [Add(st, MissingAssignment(item.profile, st.missing[item.profile], TRUE))
                 EXCEPT !.missing[item.profile] = @ + 1]

PlacePinsOf(db, st, item) == FoldLeft(LAMBDA acc, s : PlaceHardPin(db, acc, item, s), st, item.policy.pins)
PlaceHardPins(db, st, items) == FoldLeft(LAMBDA acc, item : PlacePinsOf(db, acc, item), st, items)

\* protectedRuntimeCandidate: the policy item and the variant of what the slot runs,
\* at most one.
ProtectedCandidates(db, st, items, s) ==
    {r \in [item : ToSet(items), variant : UNION {Variants(p) : p \in Profiles}] :
        /\ r.variant \in Variants(r.item.profile) /\ SlotProfileCurrent(db, s, r.item.profile, r.variant)
        /\ NodeUsable(db, NodeOf[s], r.item.policy) /\ Fits(db, r.variant, s)
        /\ CanUseCandidate(db, st, r.item, [slot |-> s, variant |-> r.variant], TRUE)}

Protect(st, p, c, a) ==
    MarkWarm([Add(st, a) EXCEPT !.protected = @ \cup {AssignmentID(a)}], p, c)
PreserveCopy(db, st, items, s) ==
    LET found == ProtectedCandidates(db, st, items, s)
        r == CHOOSE c \in found : TRUE
    IN  IF RuntimeCopyProtected(db.slot[s]) /\ s \notin st.used /\ found # {}
        THEN Protect(st, r.item.profile, [slot |-> s, variant |-> r.variant],
                     AssignmentFromFit(db, r.item.profile, s, r.variant, FALSE))
        ELSE st

PreserveRuntimeCopies(db, st, items) ==
    FoldLeft(LAMBDA acc, s : PreserveCopy(db, acc, items, s), st, Ascending(KnownSlots(db)))

\* markDrainingAssignments: in the order of the plan, the protected copies beyond
\* what the policy wants.
Effective(a) == a.warm /\ ~a.mismatch
EffectiveWarm(plan, p) == Cardinality({i \in DOMAIN plan :
                                          plan[i].profile = p /\ Effective(plan[i]) /\ ~plan[i].draining})
WarmTarget(items, p) == (CHOOSE item \in ToSet(items) : item.profile = p).capacity.warm
MarkOne(plan, protected, items, i) ==
    IF /\ AssignmentID(plan[i]) \in protected /\ Effective(plan[i])
       /\ EffectiveWarm(plan, plan[i].profile) > WarmTarget(items, plan[i].profile)
    THEN [plan EXCEPT ![i].draining = TRUE] ELSE plan
MarkAll(plan, protected, items) ==
    FoldLeft(LAMBDA acc, i : MarkOne(acc, protected, items, i), plan, [i \in 1..Len(plan) |-> i])
MarkDraining(st, items) == [st EXCEPT !.plan = MarkAll(st.plan, st.protected, items)]

-----------------------------------------------------------------------------
(* planPlacementWithCooldown *)

Scarcity(db, p) ==
    LET nodes == {NodeOf[c.slot] : c \in ToSet(PlacementCandidates(db, p))}
    IN  IF nodes = {} THEN 1073741824 ELSE Cardinality(nodes)

\* The candidates do not change while a plan is made.
PolicyItem(db, p, explain) ==
    [profile |-> p, policy |-> db.policy[p], capacity |-> EffectiveCapacity(db, p),
     candidates |-> IF explain THEN ExplainCandidates(db, p) ELSE PlacementCandidates(db, p),
     scarcity |-> Scarcity(db, p), size |-> ProfileSize(p),
     demand |-> IF db.policy[p].auto THEN Demand(db, p) ELSE 0]

PolicyItems(db, explain) ==
    LET planned == Ascending({p \in Profiles : db.version[p] > 0 /\ db.policy[p] # NoPolicy})
    IN  [i \in DOMAIN planned |-> PolicyItem(db, planned[i], explain)]

SortPolicyItems(items, extras) ==
    LET Rank(i) == <<IF extras THEN -i.demand ELSE 0, i.scarcity, -i.size, i.profile>>
    IN  Sorted(ToSet(items), LAMBDA i, j : LexLess(Rank(i), Rank(j)))

\* The minimum of every policy, warm before cached, and then what demand asks for.
Phase(item, warm, target) == [item |-> item, warm |-> warm, target |-> target]
Phases(items) ==
    LET ranked == SortPolicyItems(items, FALSE)
        wanted == SortPolicyItems(items, TRUE)
    IN  [k \in DOMAIN ranked |-> Phase(ranked[k], TRUE, ranked[k].capacity.minWarm)]
        \o [k \in DOMAIN ranked |-> Phase(ranked[k], FALSE, ranked[k].capacity.minCached)]
        \o [k \in DOMAIN wanted |-> Phase(wanted[k], TRUE, wanted[k].capacity.warm)]
        \o [k \in DOMAIN wanted |-> Phase(wanted[k], FALSE, wanted[k].capacity.cached)]

PlacePhases(db, st, phases, explain) ==
    FoldLeft(LAMBDA acc, phase : PlaceUntil(db, acc, phase, explain), st, phases)

\* sortAssignments: by profile and slot; what has no slot comes first.  Two that are
\* equal in this keep their order, as sort.Slice leaves up to 12 entries.
SortAssignments(plan) ==
    LET SlotID(a) == IF a.place[1] = "slot" THEN a.place[2] ELSE 0
        Rank(i) == <<plan[i].profile, SlotID(plan[i]), i>>
        order == Sorted(DOMAIN plan, LAMBDA i, j : LexLess(Rank(i), Rank(j)))
    IN  [k \in DOMAIN plan |-> plan[order[k]]]

Planned(db, items, explain) ==
    LET kept == PreserveRuntimeCopies(db, PlaceHardPins(db, NewPlanner, items), items)
    IN  MarkDraining(PlacePhases(db, kept, Phases(items), explain), items)
PlanItems(db, items, explain) ==
    LET st == Planned(db, items, explain) IN [st EXCEPT !.plan = SortAssignments(st.plan)]
RunPlanner(db, explain) == PlanItems(db, PolicyItems(db, explain), explain)

PlanPlacement(db) == ToSet(RunPlanner(db, FALSE).plan)
ExplainPlacement(db) == RunPlanner(db, TRUE)

-----------------------------------------------------------------------------
(* What a plan promises *)

\* effectiveProfileForAssignment
VariantOf(p, id) == CHOOSE v \in Variants(p) : v.id = id
VariantAt(plan, i) == VariantOf(plan[i].profile, plan[i].variant)

Copies(plan, n) == {i \in DOMAIN plan : plan[i].node = n /\ ~plan[i].mismatch}
WarmCopies(plan, n) == {i \in Copies(plan, n) : plan[i].warm}
MemoryUse(plan, n) == SumFunction([i \in WarmCopies(plan, n) |-> ProfileMemory(VariantAt(plan, i))])

\* A profile's files are booked once for all its copies on a node, in the variant
\* that came first, which is one of these.
Held(plan, n) == {plan[i].profile : i \in Copies(plan, n)}
DiskNeeds(plan, n, p) ==
    {ProfileDisk(VariantAt(plan, i)) : i \in {k \in Copies(plan, n) : plan[k].profile = p}}
LeastDisk(plan, n) == SumFunction([p \in Held(plan, n) |-> Min(DiskNeeds(plan, n, p))])
MostDisk(plan, n) == SumFunction([p \in Held(plan, n) |-> Max(DiskNeeds(plan, n, p))])

FitsBudgets(n, memory, disk) ==
    /\ NodeMemory(n) > 0 => memory <= NodeMemory(n)
    /\ Hardware[n].budget.disk > 0 => disk <= Hardware[n].budget.disk

WithinBudgets(plan) == \A n \in Nodes : FitsBudgets(n, MemoryUse(plan, n), LeastDisk(plan, n))

\* Two warm copies in one slot are two hard pins.
OnSlot(a) == a.place[1] = "slot" /\ Effective(a)
IsPinned(d, a) == a.place[2] \in ToSet(d.policy[a.profile].pins)
OneOwner(d, plan) ==
    \A i, j \in DOMAIN plan :
        OnSlot(plan[i]) /\ OnSlot(plan[j]) /\ plan[i].place = plan[j].place
            => i = j \/ (IsPinned(d, plan[i]) /\ IsPinned(d, plan[j]))

\* A profile that is short of warm copies, not only by a pin to an unknown slot, and
\* a slot that could take one.
ShortOf(d, plan) ==
    {p \in Profiles : /\ \E i \in DOMAIN plan : /\ plan[i].profile = p /\ plan[i].warm
                                                /\ plan[i].place[1] = "missing"
                      /\ ToSet(d.policy[p].pins) \subseteq KnownSlots(d)}
CouldTake(d, plan, p, s, v) ==
    /\ \A i \in DOMAIN plan : OnSlot(plan[i]) => plan[i].place[2] # s
    /\ NodeUsable(d, NodeOf[s], d.policy[p]) /\ Fits(d, v, s)
    /\ SlotAvailableForWarm(d, s, p, v) /\ ~Suppressed(d, NodeOf[s])
    /\ ~(d.policy[p].maxWarmPerNode > 0) /\ ~(d.policy[p].maxCachedPerNode > 0)
    /\ FitsBudgets(NodeOf[s], MemoryUse(plan, NodeOf[s]) + ProfileMemory(v),
                   MostDisk(plan, NodeOf[s]) + ProfileDisk(v))
NoneCouldTake(d, plan) ==
    \A p \in ShortOf(d, plan), s \in KnownSlots(d) : \A v \in Variants(p) : ~CouldTake(d, plan, p, s, v)

\* The variants of every profile are listed by their ids.  validateProfileVariants
\* asks for no order.
VariantsById == \A p \in Profiles : \A i, j \in DOMAIN Catalogue[p] : i < j => Catalogue[p][i].id < Catalogue[p][j].id

\* What the planner needs of a database: counts are numbers, and there are finitely
\* many tasks.
GoodPolicy(policy) ==
    /\ policy.warm \in Nat /\ policy.cached \in Nat
    /\ policy.minWarm \in Nat /\ policy.maxWarm \in Nat
    /\ policy.minCached \in Nat /\ policy.maxCached \in Nat
    /\ policy.pins \in Seq(Nat)
PlanDatabase(d) ==
    /\ d.version \in [Profiles -> Nat]
    /\ \A p \in Profiles : d.policy[p] # NoPolicy => GoodPolicy(d.policy[p])
    /\ \A s \in Slots : d.slot[s].failures \in Nat
    /\ IsFiniteSet(DOMAIN d.task)
=============================================================================
