------------------------- MODULE MCCapacityControl --------------------------
(* Two Workers of one slot with a small budget each, a third with two slots,   *)
(* and two profiles, the second in two variants.  Some runs start where a      *)
(* Manager has loaded one of many databases and makes one plan of it; the      *)
(* others let Workers connect and a few edits, requests and faults happen.     *)
EXTENDS CapacityControl, TLC

MCNodeOf == (1 :> 1) @@ (2 :> 2) @@ (3 :> 3) @@ (4 :> 3)
MCSizeOf == (11 :> 1) @@ (12 :> 2) @@ (13 :> 1)

Gib(ram, vram, disk) == [ram |-> ram, vram |-> vram, unified |-> 0, disk |-> disk]
MCHardware ==
    (1 :> [tags |-> {"lab"}, adapters |-> {"llama"}, budget |-> Gib(4, 0, 4)]) @@
    (2 :> [tags |-> {}, adapters |-> {"llama"}, budget |-> Gib(2, 0, 2)]) @@
    (3 :> [tags |-> {"lab"}, adapters |-> {"llama"}, budget |-> Gib(4, 0, 3)])
MCDevice == [s \in 1..4 |-> [target |-> "metal", adapter |-> "llama",
                             resources |-> IF s = 2 THEN Gib(2, 0, 0) ELSE Gib(0, 0, 0)]]

Variant(id, artifact, ram) ==
    [id |-> id, target |-> "metal", adapter |-> "llama", tags |-> {}, artifacts |-> <<artifact>>,
     needs |-> Gib(ram, 0, 0)]
MCCatalogue == (1 :> <<Variant(1, 11, 2)>>) @@ (2 :> <<Variant(1, 12, 3), Variant(2, 13, 1)>>)

\* The variants are listed by their ids: ExplainAgrees is about such catalogues.
ASSUME ListedById == VariantsById

Policy(warm, cached) ==
    [auto |-> FALSE, warm |-> warm, cached |-> cached, minWarm |-> 0, maxWarm |-> 0, minCached |-> 0,
     maxCached |-> 0, maxWarmPerNode |-> 0, maxCachedPerNode |-> 0, deny |-> {}, prefer |-> {},
     tags |-> {}, pins |-> <<>>]
Fixed == Policy(1, 1)
Wide == [Policy(2, 3) EXCEPT !.prefer = {2}]
Auto == [Policy(0, 0) EXCEPT !.auto = TRUE, !.maxWarm = 2]
Pinned == [Policy(1, 1) EXCEPT !.pins = <<3>>]
Limited == [Policy(2, 2) EXCEPT !.maxWarmPerNode = 1, !.deny = {1}]
OnlyLab == [Policy(1, 2) EXCEPT !.tags = {"lab"}]
CacheOnly == Policy(0, 1)
MCPolicies == {Fixed, CacheOnly}

Node(state, cached) == [NoNode EXCEPT !.state = state, !.approved = TRUE, !.cached = cached]
Slot(state, p, variant, model) ==
    [NoSlot EXCEPT !.state = state, !.profile = p, !.version = IF p = NoProfile THEN 0 ELSE 1,
                   !.variant = variant, !.model = model, !.accepts = state = "ready"]
IdleSlot == Slot("idle", NoProfile, 0, 0)
NoTask == [status |-> "none", profile |-> NoProfile, age |-> 0, ended |-> 0, failed |-> {}]
Task(status, p, age) == [NoTask EXCEPT !.status = status, !.profile = p, !.age = age]

Stored0 ==
    [version |-> [p \in {1, 2} |-> 1], policy |-> [p \in {1, 2} |-> NoPolicy],
     node |-> [n \in 1..3 |-> NoNode], slot |-> [s \in 1..4 |-> NoSlot],
     task |-> [t \in 1..2 |-> NoTask], attempts |-> <<>>, assignments |-> {}, artifacts |-> {11, 12, 13},
     intents |-> [n \in 1..3 |-> [a \in {11, 12, 13} |-> "none"]]]

Nothing == [profile |-> 0, policy |-> 0, node |-> 0, unban |-> 0, apply |-> 0, artifact |-> 0,
            cache |-> 0, drops |-> 0, tasks |-> {}, errors |-> 0, full |-> 0,
            expiries |-> 0, connects |-> {}]

\* One plan of each of these databases: policies, the state of every slot, demand.
Databases ==
    {[Stored0 EXCEPT
        !.policy = (1 :> p1) @@ (2 :> p2),
        !.node = (1 :> Node("online", {11})) @@ (2 :> n2) @@ (3 :> Node("online", {12})),
        !.slot = (1 :> s1) @@ (2 :> IdleSlot) @@ (3 :> s3) @@ (4 :> s4),
        !.task = (1 :> ts[1]) @@ (2 :> ts[2])] :
      p1 \in {Wide, Auto, Pinned}, p2 \in {Wide, Limited, OnlyLab, Pinned},
      n2 \in {Node("online", {}), [Node("online", {13}) EXCEPT !.suppressed = "yes"]},
      s1 \in {IdleSlot, Slot("ready", 1, 1, 11), Slot("error", 2, 1, 12)},
      s3 \in {IdleSlot, Slot("ready", 2, 1, 12), Slot("loading", 1, 1, 11)},
      s4 \in {IdleSlot, [Slot("serving", 1, 1, 11) EXCEPT !.task = TRUE],
              [IdleSlot EXCEPT !.quarantined = TRUE, !.failures = 3]},
      ts \in {<<NoTask, NoTask>>, <<Task("queued", 1, 0), Task("completed", 1, 5)>>}}
Bare(d) == [db |-> d, cache |-> [n \in 1..3 |-> d.node[n].cached], live |-> {}, left |-> Nothing,
            pc |-> "plan"]

\* Workers that come back with what an earlier plan left on them.
Away ==
    [Stored0 EXCEPT !.policy[1] = Fixed, !.node[1] = Node("offline", {}), !.node[2] = Node("offline", {}),
                    !.slot[1] = Slot("unavailable", NoProfile, 0, 0),
                    !.slot[2] = Slot("unavailable", NoProfile, 0, 0)]
Start(d, cache1, bounds) ==
    [db |-> [d EXCEPT !.node[1].cached = cache1], live |-> {},
     cache |-> (1 :> cache1) @@ (2 :> {}) @@ (3 :> {}), left |-> bounds, pc |-> "idle"]

\* The first Worker connected, with the first profile warm as its plan wants it.
Warm == [Stored0 EXCEPT !.policy[1] = Fixed, !.node[1] = Node("online", {11}),
                        !.slot[1] = Slot("ready", 1, 1, 11)]
Settled(d, cache1, bounds) ==
    [db |-> [d EXCEPT !.node[1].cached = cache1], planned |-> Warm,
     live |-> {1}, cache |-> (1 :> cache1) @@ (2 :> {}) @@ (3 :> {}),
     left |-> [bounds EXCEPT !.connects = @ \cup {1}], pc |-> "idle"]
\* Or as the plan of this database wants it.
SettledNow(d, cache1, bounds) == [Settled(d, cache1, bounds) EXCEPT !.planned = d]
\* The plan of "planned" is the one that is stored.
WithPlan(x) == [x EXCEPT !.db.assignments = Stored(RunPlanner(x.planned, FALSE).plan)]

\* A policy is edited while an artifact is being evicted.
Stale == Settled(Warm, {11, 12}, [Nothing EXCEPT !.policy = 1, !.cache = 1])
\* A profile is edited or deleted while a request is served.
Edited == Settled(Warm, {11}, [Nothing EXCEPT !.profile = 1, !.tasks = {1}])
\* Files that come and go with the profile that needs them.
Files == Settled([Warm EXCEPT !.artifacts = {11, 12}, !.version[2] = 0], {11},
                 [Nothing EXCEPT !.artifact = 2, !.profile = 1])
\* A Worker is disabled while it serves, and one that is disabled already is deleted.
Disabled == Settled(Warm, {11}, [Nothing EXCEPT !.node = 1, !.tasks = {1}])
Deleted == Settled([Warm EXCEPT !.node[1].state = "disabled"], {11}, [Nothing EXCEPT !.node = 1])
\* A slot is unbanned.
Banned == Start([Away EXCEPT !.slot[1].quarantined = TRUE], {}, [Nothing EXCEPT !.unban = 1, !.expiries = 1,
                                                                         !.connects = {1}])
\* A connection is lost, and the Worker is taken to be flapping.
Flapping == Settled([Warm EXCEPT !.node[1].flaps = 1], {11}, [Nothing EXCEPT !.drops = 1, !.expiries = 3])
\* A second Worker joins, and the policy wants two copies.
Joined == Settled([Warm EXCEPT !.policy[1] = Policy(2, 2), !.node[2] = Node("offline", {}),
                               !.slot[2] = Slot("unavailable", NoProfile, 0, 0)], {11},
                  [Nothing EXCEPT !.apply = 1, !.connects = {2}])

\* A request fails on a slot that is one failure short of its quarantine; or on
\* another, with a message lost.
Failing == Settled([Warm EXCEPT !.slot[1].failures = 1, !.slot[1].counts["runtime_error"] = 1], {11},
                   [Nothing EXCEPT !.tasks = {1}, !.errors = 1, !.expiries = 2])
Unreported == Settled(Warm, {11}, [Nothing EXCEPT !.tasks = {1}, !.errors = 1, !.full = 1])
\* The dispatch of a request meets a full buffer or a session that has closed.
Undelivered == Settled(Warm, {11}, [Nothing EXCEPT !.tasks = {1}, !.full = 1, !.drops = 1, !.expiries = 1])
\* A request that fails is tried again on another Worker.
Pair == [Warm EXCEPT !.policy[1] = Policy(2, 2), !.node[2] = Node("online", {11}),
                     !.slot[2] = Slot("ready", 1, 1, 11)]
Retried == [SettledNow(Pair, {11}, [Nothing EXCEPT !.tasks = {1}, !.full = 1])
            EXCEPT !.live = {1, 2}, !.cache[2] = {11}, !.pc = "plan"]
\* The copy of a quarantined slot was given up.
GivenUp == SettledNow([Warm EXCEPT !.policy[1] = CacheOnly, !.slot[1].quarantined = TRUE,
                                !.slot[1].failures = 2, !.slot[1].counts["runtime_error"] = 2,
                                !.slot[1].accepts = FALSE], {11},
                      [Nothing EXCEPT !.tasks = {1}, !.expiries = 1])
\* A new plan gives the slot of a waiting task to another profile.
Replaced == [Settled([Warm EXCEPT !.policy = <<CacheOnly, Fixed>>], {11, 12}, [Nothing EXCEPT !.tasks = {1}])
             EXCEPT !.pc = "plan"]
\* Two copies on the Worker with two slots.
Twin == Start([Stored0 EXCEPT !.policy[1] = Policy(2, 2), !.node[3] = Node("offline", {}),
                              !.slot[3] = Slot("unavailable", NoProfile, 0, 0),
                              !.slot[4] = Slot("unavailable", NoProfile, 0, 0)], {},
              [Nothing EXCEPT !.tasks = {1}, !.connects = {3}])

MCDisabled == {WithPlan(Disabled)}
MCSetUps == {Bare(d) : d \in Databases} \cup {Banned, Twin}
            \cup {WithPlan(x) : x \in {Stale, Edited, Files, Disabled, Deleted, Flapping, Joined, Failing,
                                       Unreported, Undelivered, Retried, GivenUp, Replaced}}
=============================================================================
