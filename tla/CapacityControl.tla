--------------------------- MODULE CapacityControl --------------------------
(***************************************************************************)
(* How a placement plan comes about and is carried out: the admin's edits, *)
(* replanAndDispatch in several goroutines at once, the assignments and    *)
(* evictions it sends, the Workers that follow them, and the requests that *)
(* take the slots, with the failures and quarantines that follow.          *)
(*                                                                         *)
(* The admin's requests are one goroutine, the reader of each Worker's     *)
(* session is another; each runs replanAndDispatch in steps of its own,    *)
(* with a snapshot that the others outdate.  The Worker is the one of      *)
(* module WorkerHost reduced to what the Manager can see of it, a request  *)
(* the one of module TaskDispatch reduced to what it does to slots: its    *)
(* tokens, its cancellation and its deadline are left to that module.      *)
(* Time passes too slowly for a failed assignment to be tried again.       *)
(***************************************************************************)
EXTENDS PlacementPlan

CONSTANTS
    Tasks,
    SetUps,        \* the databases, caches and bounds a run starts from
    Policies,      \* the policies an admin may post
    AutoApprove, FlapThreshold, QuarantineThreshold

Admin == 0
Handlers == Nodes \cup {Admin}
SlotsOf(n) == {s \in Slots : NodeOf[s] = n}

VARIABLES
    db,        \* the Manager's database
    handler,   \* where each goroutine is in replanAndDispatch, and what it holds
    link,      \* of each Worker: "down", "open", or "registered" in Manager.sessions
    down, up,  \* the messages of each session
    cache, wslot, jobs,   \* the Worker: its artifacts, slots and assignments at work
    cooling,   \* the assignments that failed on each Worker
    work,      \* the Worker's goroutines that execute, fail or recover from a task
    sending,   \* the attempts that are reserved and not sent yet
    left,      \* the events that may still happen
    barred,    \* history: the nodes that an admin has disabled
    outdated,  \* history: the stored plan was out of date when it was stored
    unplanned, \* history: the slots written without a replan since the last commit
    lossy      \* history: the Workers whose session has lost a message

vars == <<db, handler, link, down, up, cache, wslot, jobs, cooling, work, sending, left,
          barred, outdated, unplanned, lossy>>
history == <<barred, outdated, unplanned>>
wire == <<link, down, up, lossy>>
workers == <<cache, wslot, jobs, cooling, work>>

\* A goroutine's place, the plan it made of the snapshot it took, and the evictions
\* it is to send.
Idle == [pc |-> "idle", plan |-> <<>>, snapshot |-> <<>>, targets |-> {}]
Replan == [Idle EXCEPT !.pc = "plan"]

\* The bounds: how often a thing may still happen.
Spend(event) == left[event] > 0 /\ left' = [left EXCEPT ![event] = @ - 1]

EmptySlot == [state |-> "idle", profile |-> NoProfile, version |-> 0, variant |-> 0, model |-> 0,
              task |-> FALSE]

\* The Manager's database and the Workers that are connected and settled; the others
\* are not connected yet.
Init ==
    \E s \in SetUps :
        /\ db = s.db /\ cache = s.cache /\ left = s.left
        /\ handler = [h \in Handlers |-> IF h = Admin THEN [Idle EXCEPT !.pc = s.pc] ELSE Idle]
        /\ link = [n \in Nodes |-> IF n \in s.live THEN "registered" ELSE "down"]
        /\ down = [n \in Nodes |-> <<>>] /\ up = [n \in Nodes |-> <<>>]
        /\ wslot = [k \in Slots |-> IF NodeOf[k] \in s.live
                                  THEN [f \in DOMAIN EmptySlot |-> s.db.slot[k][f]] ELSE EmptySlot]
        /\ jobs = [n \in Nodes |-> {}] /\ cooling = [n \in Nodes |-> {}]
        /\ work = {} /\ sending = {}
        /\ barred = {} /\ outdated = FALSE /\ unplanned = {} /\ lossy = {}

-----------------------------------------------------------------------------
(* What the assignments and the slots say of artifacts *)

AssignedArtifacts(a) ==
    IF a.variant = 0 THEN ProfileArtifacts(a.profile) ELSE ToSet(VariantOf(a.profile, a.variant).artifacts)

\* desiredArtifactsByNode, and artifactAllowedForNode: mismatched assignments too.
Desired(d, n) ==
    UNION {AssignedArtifacts(a) : a \in {b \in d.assignments : b.node = n /\ d.version[b.profile] > 0}}

\* An attempt is known by its place among the attempts.
RunningOn(d, n) == {i \in DOMAIN d.attempts : d.attempts[i].status = "running"
                                              /\ d.attempts[i].slot \in SlotsOf(n)}

\* evictionBusyArtifactsByNode
BusyState == {"downloading", "loading", "warming", "serving"}
Known(d, p) == IF p \in Profiles /\ d.version[p] > 0 THEN ProfileArtifacts(p) ELSE {}
Busy(d, n) ==
    LET busy == {s \in SlotsOf(n) : d.slot[s].task \/ d.slot[s].state \in BusyState}
        used(a) == Known(d, d.task[a.task].profile) \cup {d.slot[a.slot].model}
    IN  UNION ({Known(d, d.slot[s].profile) \cup {d.slot[s].model} : s \in busy}
               \cup {used(d.attempts[i]) : i \in RunningOn(d, n)})

InUse(d, n) == Desired(d, n) \cup Busy(d, n)

StaleArtifactEvictions(d) ==
    {x \in Nodes \X Artifacts :
        LET n == x[1] a == x[2] IN a \in d.node[n].cached \ InUse(d, n) /\ d.intents[n][a] # "keep"}

-----------------------------------------------------------------------------
(* Failures of a slot, and its quarantine *)

Reasons == {"admission_check_failed", "artifact_digest_mismatch", "runtime_error", "worker_disconnected"}

\* recordSlotFailure, k times for one reason: the quarantine is set, or set anew.
RecordFailure(slot, reason, k) ==
    LET count == slot.counts[reason] + k
        banned == count >= QuarantineThreshold
    IN  [slot EXCEPT !.failures = slot.failures + k, !.counts = [slot.counts EXCEPT ![reason] = count],
                     !.quarantined = slot.quarantined \/ banned, !.expired = slot.expired /\ ~banned,
                     !.accepts = slot.accepts /\ ~banned]

\* clearSlotQuarantine: a ready slot takes requests again, whatever the plan says.
ClearSlotQuarantine(slot) ==
    [slot EXCEPT !.quarantined = FALSE, !.expired = FALSE,
                 !.accepts = slot.accepts \/ (slot.state = "ready" /\ ~slot.task)]

\* clearExpiredQuarantines and clearExpiredWorkerSuppressions.
ClearExpired(d) ==
    [d EXCEPT !.node = [n \in Nodes |-> IF d.node[n].suppressed = "expired"
                                        THEN [d.node[n] EXCEPT !.suppressed = "no"] ELSE d.node[n]],
              !.slot = [s \in Slots |-> IF d.slot[s].expired
                                        THEN ClearSlotQuarantine(d.slot[s]) ELSE d.slot[s]]]

-----------------------------------------------------------------------------
(* replanAndDispatch *)

\* The map of assignments: of two with one id, the later.
Stored(plan) ==
    {plan[i] : i \in {k \in DOMAIN plan :
                        \A j \in (k + 1)..Len(plan) : AssignmentID(plan[j]) # AssignmentID(plan[k])}}

\* warmSlotIntent
WantedWarm(d, s) ==
    LET mine == {a \in d.assignments : a.place = <<"slot", s>> /\ Effective(a)}
    IN  mine # {} /\ \A a \in mine : ~a.draining

Drainable(d, s) ==
    /\ d.slot[s].profile # NoProfile /\ d.slot[s].state = "ready"
    /\ ~d.slot[s].task /\ ~d.slot[s].quarantined
    /\ d.policy[d.slot[s].profile] # NoPolicy

ApplyPlacementDrainState(d) ==
    [d EXCEPT !.slot = [s \in Slots |-> IF Drainable(d, s)
                                        THEN [d.slot[s] EXCEPT !.accepts = WantedWarm(d, s)]
                                        ELSE d.slot[s]]]

\* The entries of a sequence at some of its places, in their order.
EntriesAt(seq, places) == [k \in 1..Cardinality(places) |-> seq[Ascending(places)[k]]]

\* The assignments that are sent: those not in place yet.
ToSend(a) == a.node # 0 /\ ~a.mismatch /\ ~(a.actualCached /\ (a.warm => a.actualWarm))
SendPlaces(plan) == {i \in DOMAIN plan : ToSend(plan[i])}

\* artifactSpecs leaves out what is not registered any more.
AssignMessage(h, a) ==
    [type |-> "assign", profile |-> a.profile, version |-> handler[h].snapshot.version[a.profile],
     variant |-> a.variant, warm |-> a.warm, slot |-> IF a.warm THEN a.place[2] ELSE 0,
     files |-> AssignedArtifacts(a) \cap db.artifacts]

\* The snapshot, and the plan that the rest of the call goes by.
TakePlan(h) ==
    LET d == ClearExpired(db)
    IN  /\ handler[h].pc = "plan"
        /\ db' = d
        /\ handler' = [handler EXCEPT ![h] = [pc |-> "commit", plan |-> RunPlanner(d, FALSE).plan,
                                              snapshot |-> d, targets |-> {}]]
        /\ UNCHANGED <<wire, workers, sending, left, history>>

\* With nothing to send, stale artifacts are looked for at once.
AfterCommit(h) ==
    LET plan == handler[h].plan
        toSend == [pc |-> "send", plan |-> plan, targets |-> {},
                   snapshot |-> [version |-> handler[h].snapshot.version]]
    IN  handler' = [handler EXCEPT ![h] = IF SendPlaces(plan) = {} THEN [Idle EXCEPT !.pc = "stale"]
                                          ELSE toSend]

\* Mutant: the plan is stored and the slots keep what they accept.
Commit_NoDrain(h) ==
    /\ handler[h].pc = "commit"
    /\ db' = [db EXCEPT !.assignments = Stored(handler[h].plan)]
    /\ AfterCommit(h)
    /\ outdated' = (Stored(handler[h].plan) # Stored(RunPlanner(db, FALSE).plan))
    /\ unplanned' = {}
    /\ UNCHANGED <<wire, workers, sending, left, barred>>

Commit(h) ==
    /\ handler[h].pc = "commit"
    /\ db' = ApplyPlacementDrainState([db EXCEPT !.assignments = Stored(handler[h].plan)])
    /\ AfterCommit(h)
    /\ outdated' = (Stored(handler[h].plan) # Stored(RunPlanner(db, FALSE).plan))
    /\ unplanned' = {}
    /\ UNCHANGED <<wire, workers, sending, left, barred>>

\* Messages for nodes without a session are not sent, and workerSession.enqueue drops
\* what finds the buffer of the session full: nobody looks at its result here.  (One
\* full buffer at a time.)
Enqueue(msgs) ==
    \/ /\ down' = [n \in Nodes |-> IF link[n] = "registered" THEN down[n] \o msgs[n] ELSE down[n]]
       /\ UNCHANGED <<left, lossy>>
    \/ \E full \in {n \in Nodes : link[n] = "registered"} :
        \E kept \in SUBSET (DOMAIN msgs[full]) :
            /\ kept # DOMAIN msgs[full] /\ Spend("full") /\ lossy' = lossy \cup {full}
            /\ down' = [n \in Nodes |-> IF n = full THEN down[n] \o EntriesAt(msgs[n], kept)
                                        ELSE IF link[n] = "registered" THEN down[n] \o msgs[n]
                                        ELSE down[n]]

SendAssignments(h) ==
    LET plan == handler[h].plan
        mine(n) == EntriesAt(plan, {i \in SendPlaces(plan) : plan[i].node = n})
    IN  /\ handler[h].pc = "send"
        /\ Enqueue([n \in Nodes |-> [i \in DOMAIN mine(n) |-> AssignMessage(h, mine(n)[i])]])
        /\ handler' = [handler EXCEPT ![h] = [Idle EXCEPT !.pc = "stale"]]
        /\ UNCHANGED <<db, link, up, workers, sending, history>>

\* dispatchStaleArtifactEvictions: another snapshot, then the messages.
PlanEvictions(h) ==
    LET stale == StaleArtifactEvictions(db)
    IN  /\ handler[h].pc = "stale"
        /\ handler' = [handler EXCEPT ![h] = IF stale = {} THEN Idle
                                             ELSE [Idle EXCEPT !.pc = "evict", !.targets = stale]]
        /\ UNCHANGED <<db, wire, workers, sending, left, history>>

EvictMessage(a) == [type |-> "evict", artifact |-> a]
DispatchEvictions(h) ==
    LET mine(n) == Ascending({x[2] : x \in {y \in handler[h].targets : y[1] = n}})
    IN  /\ handler[h].pc = "evict"
        /\ Enqueue([n \in Nodes |-> [i \in DOMAIN mine(n) |-> EvictMessage(mine(n)[i])]])
        /\ handler' = [handler EXCEPT ![h] = Idle]
        /\ UNCHANGED <<db, link, up, workers, sending, history>>

-----------------------------------------------------------------------------
(* The admin API.  Every edit that changes the plan is followed by a replan. *)

Edit(kind, d) == /\ handler[Admin].pc = "idle" /\ Spend(kind)
                 /\ db' = d
                 /\ UNCHANGED <<wire, workers, sending>>
ThenReplan == handler' = [handler EXCEPT ![Admin] = Replan]
NoReplan == UNCHANGED handler

\* upsertProfile
UpsertProfile(p) ==
    /\ ProfileArtifacts(p) \subseteq db.artifacts
    /\ Edit("profile", [db EXCEPT !.version[p] = @ + 1]) /\ ThenReplan
    /\ UNCHANGED history

\* deleteProfile, profileHasLiveWork
DeleteProfile(p) ==
    /\ db.version[p] > 0
    /\ \A t \in Tasks : db.task[t].profile = p => db.task[t].status \notin {"queued", "running"}
    /\ \A i \in DOMAIN db.attempts :
        db.task[db.attempts[i].task].profile = p => db.attempts[i].status # "running"
    /\ Edit("profile", [db EXCEPT !.version[p] = 0, !.policy[p] = NoPolicy,
                       !.assignments = {a \in db.assignments : a.profile # p}]) /\ ThenReplan
    /\ UNCHANGED history

UpsertPolicy(p, policy) ==
    /\ db.version[p] > 0 /\ ValidPolicy(policy) /\ db.policy[p] # policy
    /\ Edit("policy", [db EXCEPT !.policy[p] = policy]) /\ ThenReplan
    /\ UNCHANGED history

\* upsertAdminNode: approval, mode and state, each of the admin's choice; tags and the
\* owner are left out.  The request may also name a node that has never connected.
UpdateNode(n, approved, disabled, state) ==
    /\ Edit("node", [db EXCEPT !.node[n] = [db.node[n] EXCEPT !.approved = approved,
                                            !.disabled = disabled, !.state = state]])
    /\ db' # db /\ ThenReplan
    /\ barred' = IF state = "disabled" THEN barred \cup {n}
                 ELSE IF state = db.node[n].state THEN barred ELSE barred \ {n}
    /\ UNCHANGED <<outdated, unplanned>>

NodeStates == {"absent", "expected", "online", "offline", "disabled"}
NoNode == [state |-> "absent", approved |-> FALSE, disabled |-> FALSE, suppressed |-> "no",
           cached |-> {}, flaps |-> 0]
NoSlot == [state |-> "absent", profile |-> NoProfile, version |-> 0, variant |-> 0, model |-> 0,
           task |-> FALSE, quarantined |-> FALSE, expired |-> FALSE, failures |-> 0,
           counts |-> [r \in Reasons |-> 0], accepts |-> FALSE]

\* handleAdminNodeDelete asks for the state only: a session may still be there.
DeleteNode(n) ==
    /\ db.node[n].state \notin {"absent", "online"}
    /\ Edit("node", [db EXCEPT !.node[n] = NoNode,
                       !.slot = [s \in Slots |-> IF s \in SlotsOf(n) THEN NoSlot ELSE db.slot[s]],
                       !.assignments = {a \in db.assignments : a.node # n}]) /\ ThenReplan
    /\ UNCHANGED history

\* handleAdminUnban, for a slot, quarantined or not.
Unban(s) ==
    /\ db.slot[s].state # "absent"
    /\ Edit("unban", [db EXCEPT !.slot[s] = ClearSlotQuarantine(db.slot[s])])
    /\ ThenReplan /\ UNCHANGED history

\* handleApplyPlacement
ApplyPlacement == Edit("apply", db) /\ ThenReplan /\ UNCHANGED history

\* storeUploadedArtifact and deleteArtifactRecord: nothing is replanned.
UploadArtifact(a) ==
    /\ a \notin db.artifacts
    /\ Edit("artifact", [db EXCEPT !.artifacts = @ \cup {a}]) /\ NoReplan /\ UNCHANGED history

\* Mutant: only profiles that are placed block the deletion.
DeleteArtifact_Unplaced(a) ==
    /\ a \in db.artifacts
    /\ \A p \in Profiles : db.version[p] > 0 /\ db.policy[p] # NoPolicy => a \notin ProfileArtifacts(p)
    /\ Edit("artifact", [db EXCEPT !.artifacts = @ \ {a}]) /\ NoReplan /\ UNCHANGED history

DeleteArtifact(a) ==
    /\ a \in db.artifacts
    /\ \A p \in Profiles : db.version[p] > 0 => a \notin ProfileArtifacts(p)
    /\ Edit("artifact", [db EXCEPT !.artifacts = @ \ {a}]) /\ NoReplan /\ UNCHANGED history

\* recordCacheIntent, for keep and for an eviction that is put off.
KeepCache(n, a) ==
    /\ a \in db.node[n].cached
    /\ Edit("cache", [db EXCEPT !.intents[n][a] = "keep"]) /\ NoReplan /\ UNCHANGED history

\* handleEvictCacheAction and handleEvictWhenIdleCacheAction: the one is refused
\* when the artifact is in use, the other stays as an intent.
RequestEviction(n, a, whenIdle) ==
    /\ handler[Admin].pc = "idle" /\ Spend("cache")
    /\ a \in db.node[n].cached
    /\ whenIdle \/ a \notin InUse(db, n)
    /\ db' = [db EXCEPT !.intents[n][a] = IF whenIdle THEN "idle" ELSE "none"]
    /\ handler' = IF a \in InUse(db, n) THEN handler
                  ELSE [handler EXCEPT ![Admin] = [Idle EXCEPT !.pc = "evict", !.targets = {<<n, a>>}]]
    /\ UNCHANGED <<wire, workers, sending, history>>

-----------------------------------------------------------------------------
(* The Manager's reader of a session *)

\* The next message, when the last one is done with.
Reads(n, type) == /\ handler[n].pc = "idle" /\ link[n] # "down"
                  /\ up[n] # <<>> /\ Head(up[n]).type = type
Taken(n) == up' = [up EXCEPT ![n] = Tail(@)]
ReaderReplans(n) == handler' = [handler EXCEPT ![n] = Replan]

\* recordWorkerFlapEvent; flaps counts the events that are within the window.
FlapEvent(node) ==
    [node EXCEPT !.flaps = node.flaps + 1,
                 !.suppressed = IF node.flaps + 1 >= FlapThreshold THEN "yes" ELSE node.suppressed]

\* normalizeWorkerNode and mergeExistingNode: approval, failures and flaps are kept,
\* the state and the mode are not.
MergeNode(old, cached) ==
    LET node == [old EXCEPT !.state = "online", !.disabled = FALSE, !.cached = cached,
                            !.approved = old.approved \/ AutoApprove,
                            !.suppressed = IF old.suppressed = "expired" THEN "no" ELSE old.suppressed]
    IN  IF old.state = "absent" THEN node ELSE FlapEvent(node)

Or(new, none, old) == IF new = none THEN old ELSE new

\* mergeExistingSlot: failures are kept, and a quarantine that has not expired.
MergeSlot(old, new) ==
    LET banned == old.quarantined /\ ~old.expired
    IN  [state |-> new.state, profile |-> Or(new.profile, NoProfile, old.profile),
         version |-> Or(new.version, 0, old.version), variant |-> Or(new.variant, 0, old.variant),
         model |-> Or(new.model, 0, old.model), task |-> new.task,
         quarantined |-> banned, expired |-> FALSE, failures |-> old.failures, counts |-> old.counts,
         accepts |-> new.state = "ready" /\ ~banned]

\* upsertWorkerState
RegisterWorker(n) ==
    /\ Reads(n, "state") /\ Taken(n)
    /\ LET m == Head(up[n])
       IN  db' = [db EXCEPT !.node[n] = MergeNode(db.node[n], m.cache),
                            !.slot = [s \in Slots |-> IF s \in SlotsOf(n)
                                                      THEN MergeSlot(db.slot[s], m.slots[s])
                                                      ELSE db.slot[s]]]
    /\ link' = [link EXCEPT ![n] = "registered"]
    /\ ReaderReplans(n)
    /\ UNCHANGED <<down, lossy, workers, sending, left, history>>

\* handleWorkerHeartbeat; only a node that is not online shows a difference.  (For a
\* node that was deleted the code stores a record with an empty id.)
Heartbeat(n) ==
    /\ handler[n].pc = "idle" /\ link[n] = "registered" /\ db.node[n].state \notin {"absent", "online"}
    /\ db' = [db EXCEPT !.node[n].state = "online"]
    /\ UNCHANGED <<handler, wire, workers, sending, left, history>>

\* Mutant: the handler of an eviction does not replan.
UpdateArtifactState_NoReplan(n) ==
    /\ Reads(n, "artifact") /\ Taken(n)
    /\ LET m == Head(up[n])
       IN  db' = IF db.node[n].state = "absent" THEN db
                 ELSE CASE m.state = "verified" -> [db EXCEPT !.node[n].cached = @ \cup {m.artifact}]
                        [] m.state = "evicted" -> [db EXCEPT !.node[n].cached = @ \ {m.artifact},
                                                             !.intents[n][m.artifact] = "none"]
                        [] OTHER -> db
    /\ IF Head(up[n]).state = "verified" THEN ReaderReplans(n) ELSE UNCHANGED handler
    /\ UNCHANGED <<link, down, lossy, workers, sending, left, history>>

\* updateArtifactState; the record of an eviction is history for the dashboard.
UpdateArtifactState(n) ==
    /\ Reads(n, "artifact") /\ Taken(n)
    /\ LET m == Head(up[n])
       IN  db' = IF db.node[n].state = "absent" THEN db
                 ELSE CASE m.state = "verified" -> [db EXCEPT !.node[n].cached = @ \cup {m.artifact}]
                        [] m.state = "evicted" -> [db EXCEPT !.node[n].cached = @ \ {m.artifact},
                                                             !.intents[n][m.artifact] = "none"]
                        [] OTHER -> db
    /\ ReaderReplans(n)
    /\ UNCHANGED <<link, down, lossy, workers, sending, left, history>>

\* Mutant: a slot that takes requests goes on doing so in any state.
ApplySlotState_KeepsAccepting(old, m) ==
    [old EXCEPT !.state = m.state, !.profile = m.profile, !.task = m.task,
                !.version = Or(m.version, 0, @), !.variant = Or(m.variant, 0, @),
                !.model = Or(m.model, 0, @), !.accepts = @ \/ (m.state = "ready" /\ ~old.quarantined)]

\* applySlotStatePayload: what the payload leaves empty keeps its old value.
ApplySlotState(old, m) ==
    [old EXCEPT !.state = m.state, !.profile = m.profile, !.task = m.task,
                !.version = Or(m.version, 0, old.version), !.variant = Or(m.variant, 0, old.variant),
                !.model = Or(m.model, 0, old.model), !.accepts = m.state = "ready" /\ ~old.quarantined]

\* updateSlotState: an unknown slot is an error and nothing is replanned.
UpdateSlotState(n) ==
    /\ Reads(n, "slot") /\ Taken(n)
    /\ LET m == Head(up[n])
       IN  IF db.slot[m.slot].state = "absent" THEN UNCHANGED <<db, handler>>
           ELSE /\ db' = [db EXCEPT !.slot[m.slot] = ApplySlotState(db.slot[m.slot], m.value)]
                /\ ReaderReplans(n)
    /\ UNCHANGED <<link, down, lossy, workers, sending, left, history>>

\* requireWorkerAttempt: the attempt is known, and the Worker's own.
OwnAttempt(n, i) == i \in DOMAIN db.attempts /\ db.attempts[i].slot \in SlotsOf(n)

\* Of a slot that was deleted with its node, nothing is kept.
PutSlot(slot, new) == IF slot.state = "absent" THEN slot ELSE new

\* The task of a failed attempt: queued again, or failed; the slot is not tried again.
FailedTask(task, s, retry) ==
    [task EXCEPT !.status = IF retry THEN "queued" ELSE "failed", !.failed = task.failed \cup {s}]

\* handleAttemptFailed: the slot is ready if it still has the profile; if not it is
\* idle and takes requests as it did before.  Nothing is replanned.
FailedSlot(slot, p, reason) ==
    RecordFailure([slot EXCEPT !.task = FALSE, !.state = IF slot.profile = p THEN "ready" ELSE "idle",
                               !.accepts = slot.accepts \/ slot.profile = p], reason, 1)
HandleAttemptFailed(n) ==
    /\ Reads(n, "failed") /\ Taken(n)
    /\ LET m == Head(up[n])
           i == m.attempt
           s == db.attempts[i].slot
           t == db.attempts[i].task
       IN  IF ~OwnAttempt(n, i) THEN UNCHANGED <<db, unplanned>>
           ELSE /\ db' = [db EXCEPT
                        !.attempts[i] = [db.attempts[i] EXCEPT !.status = "failed"],
                        !.slot[s] = PutSlot(db.slot[s],
                                            FailedSlot(db.slot[s], db.task[t].profile, m.reason)),
                        !.task[t] = FailedTask(db.task[t], s, m.retry)]
                /\ unplanned' = unplanned \cup {s}
    /\ UNCHANGED <<handler, link, down, lossy, workers, sending, left, barred, outdated>>

\* handleComputeReport: the failure is counted unless attempt.failed has done so.
ReportedSlot(slot, p, m, counted) ==
    LET free == [slot EXCEPT !.task = FALSE, !.state = IF slot.profile = p THEN "ready" ELSE "idle",
                             !.accepts = slot.profile = p]
    IN  IF m.status = "failed" /\ ~counted THEN RecordFailure(free, m.reason, 1) ELSE free
ReportedTask(task, s, m) ==
    IF m.status = "failed" /\ m.retry THEN FailedTask(task, s, TRUE)
    ELSE [task EXCEPT !.status = m.status]
HandleComputeReport(n) ==
    /\ Reads(n, "report") /\ Taken(n)
    /\ LET m == Head(up[n])
           i == m.attempt
           s == db.attempts[i].slot
           t == db.attempts[i].task
       IN  IF ~OwnAttempt(n, i) THEN UNCHANGED <<db, handler>>
           ELSE /\ db' = [db EXCEPT
                        !.attempts[i] = [db.attempts[i] EXCEPT !.status = m.status],
                        !.slot[s] = PutSlot(db.slot[s],
                                            ReportedSlot(db.slot[s], db.task[t].profile, m,
                                                         db.attempts[i].status = "failed")),
                        !.task[t] = ReportedTask(db.task[t], s, m)]
                /\ ReaderReplans(n)
    /\ UNCHANGED <<link, down, lossy, workers, sending, left, history>>

\* markDisconnectedNode and failDisconnectedAttempt; the tasks that have streamed are
\* not tried again.  Nothing is replanned.
Disconnected(d, n, streamed) ==
    LET lost == RunningOn(d, n)
        on(s) == {i \in lost : d.attempts[i].slot = s}
        of(t) == {i \in lost : d.attempts[i].task = t}
        gone(slot) == [slot EXCEPT !.state = "unavailable", !.accepts = FALSE]
        after(s, slot) ==
            IF on(s) # {}
            THEN [gone(RecordFailure(slot, "worker_disconnected", Cardinality(on(s)))) EXCEPT !.task = FALSE]
            ELSE IF slot.state = "serving" THEN slot ELSE gone(slot)
    IN  [d EXCEPT !.node[n] = IF d.node[n].state = "absent" THEN d.node[n]
                              ELSE [FlapEvent(d.node[n]) EXCEPT !.state = "offline"],
                  !.slot = [s \in Slots |-> IF s \in SlotsOf(n) THEN PutSlot(d.slot[s], after(s, d.slot[s]))
                                            ELSE d.slot[s]],
                  !.attempts = [i \in DOMAIN d.attempts |->
                                    IF i \in lost THEN [d.attempts[i] EXCEPT !.status = "failed"]
                                    ELSE d.attempts[i]],
                  !.task = [t \in Tasks |->
                                IF of(t) = {} THEN d.task[t]
                                ELSE [d.task[t] EXCEPT
                                        !.status = IF t \in streamed THEN "failed" ELSE "queued",
                                        !.failed = d.task[t].failed \cup {d.attempts[i].slot : i \in of(t)}]]]

\* The connection breaks: the Worker goes on with what it has begun.
Disconnect(n) ==
    /\ link[n] = "registered" /\ Spend("drops")
    /\ link' = [link EXCEPT ![n] = "down"]
    /\ down' = [down EXCEPT ![n] = <<>>] /\ up' = [up EXCEPT ![n] = <<>>]
    /\ \E streamed \in SUBSET {db.attempts[i].task : i \in RunningOn(db, n)} :
        db' = Disconnected(db, n, streamed)
    /\ sending' = {[x EXCEPT !.open = x.open /\ x.slot \notin SlotsOf(n)] : x \in sending}
    /\ UNCHANGED <<handler, lossy, workers, history>>

\* Time passes: a suppression or a quarantine ends, or a flap leaves the window.
SuppressionExpires(n) ==
    /\ db.node[n].suppressed = "yes" /\ Spend("expiries")
    /\ db' = [db EXCEPT !.node[n].suppressed = "expired"]
    /\ UNCHANGED <<handler, wire, workers, sending, history>>
FlapExpires(n) ==
    /\ db.node[n].flaps > 0 /\ Spend("expiries")
    /\ db' = [db EXCEPT !.node[n].flaps = @ - 1]
    /\ UNCHANGED <<handler, wire, workers, sending, history>>
QuarantineExpires(s) ==
    /\ db.slot[s].quarantined /\ ~db.slot[s].expired /\ Spend("expiries")
    /\ db' = [db EXCEPT !.slot[s].expired = TRUE]
    /\ UNCHANGED <<handler, wire, workers, sending, history>>

-----------------------------------------------------------------------------
(* Requests *)

\* storeNewTask: no replan follows.
Request(t, p) ==
    /\ db.task[t].status = "none" /\ db.version[p] > 0
    /\ t \in left.tasks /\ left' = [left EXCEPT !.tasks = @ \ {t}]
    /\ db' = [db EXCEPT !.task[t] = [db.task[t] EXCEPT !.status = "queued", !.profile = p]]
    /\ UNCHANGED <<handler, wire, workers, sending, history>>

\* What selectReadySlot and stateResponse begin with: expired quarantines end and no
\* plan is made.
ClearExpiredQuarantines ==
    /\ ClearExpired(db) # db
    /\ db' = ClearExpired(db)
    /\ unplanned' = unplanned \cup {s \in Slots : db.slot[s].expired}
    /\ UNCHANGED <<handler, wire, workers, sending, left, barred, outdated>>

\* failedSlotsForTask
FailedSlots(t) ==
    LET failed == {i \in DOMAIN db.attempts : db.attempts[i].task = t /\ db.attempts[i].status = "failed"}
    IN  db.task[t].failed \cup {db.attempts[i].slot : i \in failed}

\* slotReadyForProfile and variantCandidates.
ReadyFor(s, p, v) ==
    LET slot == db.slot[s] node == db.node[NodeOf[s]]
    IN  /\ slot.state = "ready" /\ ~slot.task /\ slot.accepts /\ ~slot.quarantined
        /\ node.state = "online" /\ node.approved
        /\ SlotProfileCurrent(db, s, p, v) /\ Fits(db, v, s)

\* selectReadySlot and reserveAttemptInDB; the session that was found is kept.
StartTask(t, s) ==
    LET p == db.task[t].profile
    IN  /\ db.task[t].status = "queued" /\ link[NodeOf[s]] = "registered" /\ s \notin FailedSlots(t)
        /\ \E v \in Variants(p) :
            /\ ReadyFor(s, p, v)
            /\ sending' = sending \cup {[attempt |-> Len(db.attempts) + 1, task |-> t, slot |-> s, profile |-> p,
                                         version |-> db.version[p], variant |-> v.id, open |-> TRUE]}
        /\ db' = [db EXCEPT !.task[t] = [db.task[t] EXCEPT !.status = "running"],
                            !.attempts = Append(db.attempts, [task |-> t, slot |-> s, status |-> "running"]),
                            !.slot[s] = [db.slot[s] EXCEPT !.task = TRUE, !.state = "serving",
                                                           !.accepts = FALSE]]
        /\ UNCHANGED <<handler, wire, workers, left, history>>

\* dispatchAttempt.  The buffer of a session that was closed meanwhile may still take
\* the message.
TaskMessage(x) == [type |-> "task", attempt |-> x.attempt, slot |-> x.slot, profile |-> x.profile,
                   version |-> x.version, variant |-> x.variant]
DispatchAttempt(x) ==
    LET n == NodeOf[x.slot]
    IN  /\ sending' = sending \ {x}
        /\ down' = IF x.open THEN [down EXCEPT ![n] = Append(@, TaskMessage(x))] ELSE down
        /\ UNCHANGED <<db, handler, link, up, lossy, workers, left, history>>

\* dispatchAttempt fails, on a closed session or a full buffer, and markAttemptFailed:
\* the slot is ready and does not take requests, and nothing is replanned.
MarkAttemptFailed(x) ==
    LET s == x.slot
        t == x.task
        free == [db.slot[s] EXCEPT !.state = "ready", !.task = FALSE]
    IN  /\ IF x.open THEN Spend("full") ELSE UNCHANGED left
        /\ sending' = sending \ {x}
        /\ db' = [db EXCEPT
                !.attempts[x.attempt] = [db.attempts[x.attempt] EXCEPT !.status = "failed"],
                !.slot[s] = PutSlot(db.slot[s], RecordFailure(free, "worker_disconnected", 1)),
                !.task[t] = FailedTask(db.task[t], s, TRUE)]
        /\ unplanned' = unplanned \cup {s}
        /\ UNCHANGED <<handler, wire, workers, barred, outdated>>

-----------------------------------------------------------------------------
(* The Worker, as the Manager sees it *)

Receives(n, type) == link[n] # "down" /\ down[n] # <<>> /\ Head(down[n]).type = type
Dropped(n) == down' = [down EXCEPT ![n] = Tail(@)]

\* Worker.enqueue drops what finds its buffer full.
Tell(n, msgs) ==
    \/ /\ up' = IF link[n] = "down" THEN up ELSE [up EXCEPT ![n] = @ \o msgs]
       /\ UNCHANGED <<left, lossy>>
    \/ \E kept \in SUBSET (DOMAIN msgs) :
        /\ link[n] # "down" /\ kept # DOMAIN msgs /\ Spend("full") /\ lossy' = lossy \cup {n}
        /\ up' = [up EXCEPT ![n] = @ \o EntriesAt(msgs, kept)]

SlotMessage(s, value) == [type |-> "slot", slot |-> s, value |-> value]
ArtifactMessage(a, state) == [type |-> "artifact", artifact |-> a, state |-> state]

\* Connecting: hello and the full state.
Connect(n) ==
    /\ link[n] = "down" /\ n \in left.connects
    /\ handler[n].pc = "idle"
    /\ link' = [link EXCEPT ![n] = "open"]
    /\ up' = [up EXCEPT ![n] = <<[type |-> "state", cache |-> cache[n],
                                  slots |-> [s \in SlotsOf(n) |-> wslot[s]]]>>]
    /\ lossy' = lossy \ {n}
    /\ UNCHANGED <<db, handler, down, workers, sending, left, history>>

Key(m) == <<m.profile, m.variant>>
ArtifactsOf(x) == ToSet(VariantOf(x.profile, x.variant).artifacts)
Running(m, state) ==
    [state |-> state, profile |-> m.profile, version |-> m.version, variant |-> m.variant,
     model |-> ConcreteModel(VariantOf(m.profile, m.variant)), task |-> FALSE]

\* assignmentAlreadySatisfied; any slot that has the profile will do.
Satisfied(n, m) ==
    \/ Key(m) \in cooling[n]
    \/ \E j \in jobs[n] : Key(j) = Key(m)
    \/ ~m.warm /\ m.files # {} /\ m.files \subseteq cache[n]
    \/ m.warm /\ \E s \in SlotsOf(n) :
                    wslot[s].state \in {"downloading", "loading", "ready", "serving"}
                    /\ [wslot[s] EXCEPT !.state = "ready", !.task = FALSE] = Running(m, "ready")

SetSlot(s, value) == wslot' = IF s = 0 THEN wslot ELSE [wslot EXCEPT ![s] = value]
SlotNews(s, value) == IF s = 0 THEN <<>> ELSE <<SlotMessage(s, value)>>

\* queueAssignment, and ensureSlotCached up to the download.
ReceiveAssignment(n) ==
    /\ Receives(n, "assign") /\ Dropped(n)
    /\ LET m == Head(down[n])
           there == m.files \subseteq cache[n]
           job == [profile |-> m.profile, version |-> m.version, variant |-> m.variant, slot |-> m.slot,
                   files |-> m.files, cut |-> FALSE, pc |-> IF there THEN "load" ELSE "fetch"]
           value == Running(m, IF there THEN "loading" ELSE "downloading")
       IN  IF Satisfied(n, m) THEN UNCHANGED <<jobs, wslot, up, left, lossy>>
           ELSE /\ jobs' = [jobs EXCEPT ![n] = @ \cup {job}]
                /\ SetSlot(m.slot, value) /\ Tell(n, SlotNews(m.slot, value))
    /\ UNCHANGED <<db, handler, link, cache, cooling, work, sending, history>>

\* An assignment ends in failure: the slot's error, and the cooldown.
JobFails(n, j) ==
    /\ SetSlot(j.slot, Running(j, "error")) /\ Tell(n, SlotNews(j.slot, Running(j, "error")))
    /\ jobs' = [jobs EXCEPT ![n] = @ \ {j}]
    /\ cooling' = [cooling EXCEPT ![n] = @ \cup {Key(j)}]

\* ensureArtifact: the Manager serves what is registered and assigned to the node
\* (handleWorkerArtifact).
Fetch(n, j) ==
    LET missing == j.files \ cache[n]
        order == Ascending(missing)
        news == [i \in DOMAIN order |-> ArtifactMessage(order[i], "verified")]
    IN  /\ j \in jobs[n] /\ j.pc = "fetch"
        /\ IF missing \subseteq db.artifacts \cap Desired(db, n)
           THEN /\ cache' = [cache EXCEPT ![n] = @ \cup missing]
                /\ SetSlot(j.slot, Running(j, "loading"))
                /\ Tell(n, news \o SlotNews(j.slot, Running(j, "loading")))
                /\ jobs' = [jobs EXCEPT ![n] = (@ \ {j}) \cup
                                               IF j.slot = 0 THEN {} ELSE {[j EXCEPT !.pc = "load"]}]
                /\ UNCHANGED cooling
           ELSE JobFails(n, j) /\ UNCHANGED cache
        /\ UNCHANGED <<db, handler, link, down, work, sending, history>>

\* ensureSlotWarm, of an assignment that no eviction has removed meanwhile.
Load(n, j) ==
    /\ j \in jobs[n] /\ j.pc = "load"
    /\ IF ~j.cut /\ ArtifactsOf(j) \subseteq cache[n]
       THEN /\ SetSlot(j.slot, Running(j, "ready")) /\ Tell(n, SlotNews(j.slot, Running(j, "ready")))
            /\ jobs' = [jobs EXCEPT ![n] = @ \ {j}]
            /\ UNCHANGED cooling
       ELSE JobFails(n, j)
    /\ UNCHANGED <<db, handler, link, down, cache, work, sending, history>>

\* evictArtifact, refused while a slot serves with the artifact.
Uses(s, a) == wslot[s].model = a \/ (wslot[s].profile # NoProfile /\ a \in ArtifactsOf(wslot[s]))
ReceiveEviction(n) ==
    /\ Receives(n, "evict") /\ Dropped(n)
    /\ LET a == Head(down[n]).artifact
           using == {s \in SlotsOf(n) : Uses(s, a)}
           order == Ascending(using)
       IN  IF \E s \in using : wslot[s].state = "serving" \/ wslot[s].task
           THEN Tell(n, <<ArtifactMessage(a, "evict_failed")>>) /\ UNCHANGED <<cache, wslot, jobs>>
           ELSE /\ cache' = [cache EXCEPT ![n] = @ \ {a}]
                /\ wslot' = [s \in Slots |-> IF s \in using THEN EmptySlot ELSE wslot[s]]
                /\ jobs' = [jobs EXCEPT ![n] = {[j EXCEPT !.cut = j.cut \/ a \in ArtifactsOf(j)] :
                                                j \in jobs[n]}]
                /\ Tell(n, Append([i \in DOMAIN order |-> SlotMessage(order[i], EmptySlot)],
                                  ArtifactMessage(a, "evicted")))
    /\ UNCHANGED <<db, handler, link, cooling, work, sending, history>>

\* failExecution: the failure and the report of it.  A retry is asked for as long as
\* nothing was streamed.
FailureNews(i, reason, retry) ==
    <<[type |-> "failed", attempt |-> i, reason |-> reason, retry |-> retry],
      [type |-> "report", attempt |-> i, status |-> "failed", reason |-> reason, retry |-> retry]>>

\* admitTask, setSlotServing; a task that is not admitted fails.
ReceiveTask(n) ==
    /\ Receives(n, "task") /\ Dropped(n)
    /\ LET m == Head(down[n])
           serving == [Running(m, "serving") EXCEPT !.task = TRUE]
           current == wslot[m.slot] = Running(m, "ready")
           reason == IF current THEN "artifact_digest_mismatch" ELSE "admission_check_failed"
       IN  IF current /\ ArtifactsOf(m) \subseteq cache[n]
           THEN /\ wslot' = [wslot EXCEPT ![m.slot] = serving] /\ Tell(n, <<SlotMessage(m.slot, serving)>>)
                /\ work' = work \cup {[attempt |-> m.attempt, slot |-> m.slot, profile |-> m.profile,
                                       version |-> m.version, variant |-> m.variant, pc |-> "run"]}
           ELSE Tell(n, FailureNews(m.attempt, reason, TRUE)) /\ UNCHANGED <<wslot, work>>
    /\ UNCHANGED <<db, handler, link, cache, jobs, cooling, sending, history>>

\* setSlotState at the end of a task: what the slot has been assigned of the profile
\* meanwhile stays.
Ended(w, state) ==
    IF wslot[w.slot].profile = w.profile THEN [wslot[w.slot] EXCEPT !.state = state, !.task = FALSE]
    ELSE Running(w, state)

\* The end of executeTask: the slot is ready, then the report.
FinishTask(w) ==
    /\ w.pc = "run" /\ work' = work \ {w}
    /\ wslot' = [wslot EXCEPT ![w.slot] = Ended(w, "ready")]
    /\ Tell(NodeOf[w.slot], <<SlotMessage(w.slot, Ended(w, "ready")),
                             [type |-> "report", attempt |-> w.attempt, status |-> "completed",
                              reason |-> "none", retry |-> FALSE]>>)
    /\ UNCHANGED <<db, handler, link, down, cache, jobs, cooling, sending, history>>

\* The runtime fails: recoverRuntimeSlot is a goroutine of its own.
RuntimeError(w) ==
    /\ w.pc = "run" /\ Spend("errors")
    /\ work' = (work \ {w}) \cup {[w EXCEPT !.pc = "fail"], [w EXCEPT !.pc = "recover"]}
    /\ UNCHANGED <<db, handler, wire, cache, wslot, jobs, cooling, sending, history>>

FailTask(w, retry) ==
    /\ w.pc = "fail" /\ work' = work \ {w}
    /\ Tell(NodeOf[w.slot], FailureNews(w.attempt, "runtime_error", retry))
    /\ UNCHANGED <<db, handler, link, down, cache, wslot, jobs, cooling, sending, history>>

\* recoverRuntimeSlot: the server is there, or may not be restarted any more; or it is
\* restarted, with the slot warming meanwhile.
RecoverSlot(w, state) ==
    /\ w.pc = "recover" \/ (w.pc = "restart" /\ state # "warming")
    /\ work' = (work \ {w}) \cup IF state = "warming" THEN {[w EXCEPT !.pc = "restart"]} ELSE {}
    /\ wslot' = [wslot EXCEPT ![w.slot] = Ended(w, state)]
    /\ Tell(NodeOf[w.slot], <<SlotMessage(w.slot, Ended(w, state))>>)
    /\ UNCHANGED <<db, handler, link, down, cache, jobs, cooling, sending, history>>

-----------------------------------------------------------------------------
ReplanStep(h) ==
    TakePlan(h) \/ Commit(h) \/ SendAssignments(h) \/ PlanEvictions(h) \/ DispatchEvictions(h)

AdminStep ==
    \/ ApplyPlacement
    \/ \E p \in Profiles : UpsertProfile(p) \/ DeleteProfile(p)
    \/ \E p \in Profiles, policy \in Policies : UpsertPolicy(p, policy)
    \/ \E n \in Nodes : DeleteNode(n)
    \/ \E n \in Nodes, approved, disabled \in BOOLEAN, state \in NodeStates \ {"absent"} :
        UpdateNode(n, approved, disabled, state)
    \/ \E s \in Slots : Unban(s)
    \/ \E a \in Artifacts : UploadArtifact(a) \/ DeleteArtifact(a)
    \/ \E n \in Nodes, a \in Artifacts : KeepCache(n, a)
    \/ \E n \in Nodes, a \in Artifacts, idle \in BOOLEAN : RequestEviction(n, a, idle)

ReaderStep(n) ==
    \/ RegisterWorker(n) \/ Heartbeat(n) \/ UpdateArtifactState(n) \/ UpdateSlotState(n)
    \/ HandleAttemptFailed(n) \/ HandleComputeReport(n)

WorkerStep(n) ==
    \/ Connect(n) \/ ReceiveAssignment(n) \/ ReceiveEviction(n) \/ ReceiveTask(n)
    \/ \E j \in jobs[n] : Fetch(n, j) \/ Load(n, j)

WorkStep(w) ==
    \/ FinishTask(w) \/ RuntimeError(w)
    \/ \E retry \in BOOLEAN : FailTask(w, retry)
    \/ \E state \in {"ready", "error", "warming"} : RecoverSlot(w, state)

RequestStep ==
    \/ \E t \in Tasks, p \in Profiles : Request(t, p)
    \/ ClearExpiredQuarantines
    \/ \E t \in Tasks, s \in Slots : StartTask(t, s)
    \/ \E x \in sending : DispatchAttempt(x) \/ MarkAttemptFailed(x)

TimeStep ==
    \/ \E n \in Nodes : SuppressionExpires(n) \/ FlapExpires(n)
    \/ \E s \in Slots : QuarantineExpires(s)

Next ==
    \/ \E h \in Handlers : ReplanStep(h)
    \/ AdminStep
    \/ \E n \in Nodes : ReaderStep(n) \/ WorkerStep(n) \/ Disconnect(n)
    \/ \E w \in work : WorkStep(w)
    \/ RequestStep
    \/ TimeStep

Spec == Init /\ [][Next]_vars

-----------------------------------------------------------------------------
(* Properties *)

SlotStates == {"absent", "idle", "unavailable", "downloading", "cached", "loading", "warming", "ready",
               "serving", "error"}
RunRecord == [state : SlotStates, profile : Profiles \cup {NoProfile}, version : Nat, variant : Nat,
              model : Artifacts \cup {0}, task : BOOLEAN]
SlotRecord == [state : SlotStates, profile : Profiles \cup {NoProfile}, version : Nat, variant : Nat,
               model : Artifacts \cup {0}, task : BOOLEAN, quarantined : BOOLEAN, expired : BOOLEAN,
               failures : Nat, counts : [Reasons -> Nat], accepts : BOOLEAN]
NodeRecord == [state : NodeStates, approved : BOOLEAN, disabled : BOOLEAN,
               suppressed : {"no", "yes", "expired"}, cached : SUBSET Artifacts, flaps : Nat]
TaskRecord == [status : {"none", "queued", "running"} \cup TerminalStatus,
               profile : Profiles \cup {NoProfile}, age : Nat, ended : Nat, failed : SUBSET Slots]
AttemptRecord == [task : Tasks, slot : Slots, status : {"running", "completed", "failed"}]

\* A slot that takes requests is ready and has no task, whatever report, failure,
\* registration, unban or plan has written it last; or it is idle, where an attempt
\* failed after the slot had changed its profile (handleAttemptFailed).  Only a
\* quarantined slot has a quarantine that may expire.
SlotOK(slot) == /\ slot \in SlotRecord
                /\ slot.accepts => slot.state \in {"ready", "idle"} /\ ~slot.task
                /\ slot.expired => slot.quarantined
DatabaseOK(d) ==
    /\ d = [version |-> d.version, policy |-> d.policy, node |-> d.node, slot |-> d.slot,
            task |-> d.task, attempts |-> d.attempts, assignments |-> d.assignments,
            artifacts |-> d.artifacts, intents |-> d.intents]
    /\ d.version \in [Profiles -> Nat]
    /\ d.policy = [p \in Profiles |-> d.policy[p]]
    /\ \A p \in Profiles : d.policy[p] # NoPolicy => GoodPolicy(d.policy[p]) /\ ValidPolicy(d.policy[p])
    /\ d.node \in [Nodes -> NodeRecord]
    /\ d.slot = [s \in Slots |-> d.slot[s]] /\ \A s \in Slots : SlotOK(d.slot[s])
    /\ d.task \in [Tasks -> TaskRecord]
    /\ \A t \in Tasks : d.task[t].status # "none" => d.task[t].profile \in Profiles
    /\ d.attempts \in Seq(AttemptRecord)
    /\ \A i \in DOMAIN d.attempts : d.task[d.attempts[i].task].status # "none"

\* What a Worker says of a slot, the messages of a session, and the assignments at
\* work: a variant is named with the profile that has it.
RunOK(r) == r \in RunRecord /\ (r.state = "ready" => ~r.task)
KnownVariant(x) == x.profile \in Profiles /\ \E v \in Variants(x.profile) : x.variant = v.id
UpMessage(n) ==
    {m \in [type : {"state"}, cache : SUBSET Artifacts, slots : [SlotsOf(n) -> RunRecord]] :
        \A s \in SlotsOf(n) : RunOK(m.slots[s])}
    \cup {m \in [type : {"slot"}, slot : Slots, value : RunRecord] : RunOK(m.value)}
    \cup [type : {"artifact"}, artifact : Artifacts, state : {"verified", "evicted", "evict_failed"}]
    \cup [type : {"failed"}, attempt : Nat, reason : Reasons, retry : BOOLEAN]
    \cup [type : {"report"}, attempt : Nat, status : {"failed"}, reason : Reasons, retry : BOOLEAN]
    \cup [type : {"report"}, attempt : Nat, status : {"completed"}, reason : {"none"}, retry : {FALSE}]
DownMessage ==
    {m \in [type : {"assign"}, profile : Profiles, version : Nat \ {0}, variant : Nat, warm : BOOLEAN,
            slot : Slots \cup {0}, files : SUBSET Artifacts] : KnownVariant(m)}
    \cup [type : {"evict"}, artifact : Artifacts]
    \cup {m \in [type : {"task"}, attempt : Nat, slot : Slots, profile : Profiles, version : Nat,
                  variant : Nat] : KnownVariant(m)}
Job == {j \in [profile : Profiles, version : Nat \ {0}, variant : Nat, slot : Slots \cup {0},
               files : SUBSET Artifacts, cut : BOOLEAN, pc : {"load", "fetch"}] : KnownVariant(j)}
Reserved == {x \in [attempt : Nat, task : Tasks, slot : Slots, profile : Profiles, version : Nat,
                    variant : Nat, open : BOOLEAN] : KnownVariant(x)}
Execution == {w \in [attempt : Nat, slot : Slots, profile : Profiles, version : Nat, variant : Nat,
                     pc : {"run", "fail", "recover", "restart"}] : KnownVariant(w)}

\* The types of the state.  What is on the wire and at work on a Worker always names
\* artifacts, slots and variants that exist, in a version that was given out.
TypeOK ==
    /\ DatabaseOK(db)
    /\ handler = [h \in Handlers |-> handler[h]]
    /\ \A h \in Handlers : /\ handler[h].pc \in {"idle", "plan", "commit", "send", "stale", "evict"}
                           /\ handler[h].targets \subseteq Nodes \X Artifacts
    /\ link \in [Nodes -> {"down", "open", "registered"}]
    /\ down \in [Nodes -> Seq(DownMessage)]
    /\ up = [n \in Nodes |-> up[n]] /\ \A n \in Nodes : up[n] \in Seq(UpMessage(n))
    /\ cache \in [Nodes -> SUBSET Artifacts]
    /\ wslot = [s \in Slots |-> wslot[s]] /\ \A s \in Slots : RunOK(wslot[s])
    /\ jobs \in [Nodes -> SUBSET Job]
    /\ work \subseteq Execution /\ sending \subseteq Reserved

\* The planner's properties are stated of every plan with the snapshot it was made
\* from, whoever makes it.
PlansMade == {h \in Handlers : handler[h].pc = "commit"}

\* No plan loads a node beyond the memory or the disk it announced, hard pins and
\* protected copies included (memoryWithinBudget, diskWithinBudget, markWarm).
PlanWithinBudgets == \A h \in PlansMade : WithinBudgets(handler[h].plan)

\* No slot is promised to two profiles (usedSlots), but for two hard pins.
OneOwnerPerSlot == \A h \in PlansMade : OneOwner(handler[h].snapshot, handler[h].plan)

\* A plan that is short of warm copies of a profile has left no slot that could take
\* one: every slot is taken, unfit, out of order or on a node that may not have it
\* or cannot hold it (nextWarmCandidate, addMissing).
ShortageIsReal == \A h \in PlansMade : NoneCouldTake(handler[h].snapshot, handler[h].plan)

\* "Explain the same dry-run plan": the explanation, which chooses by rejection
\* reasons, comes to the plan that is carried out, when the variants of a profile
\* are listed by id; and it gives a reason against every candidate of a profile that
\* is short of warm copies.
ExplainAgrees ==
    Admin \in PlansMade =>
        LET d == handler[Admin].snapshot
            told == ExplainPlacement(d)
            Short(p) == \E a \in ToSet(told.plan) : a.profile = p /\ a.warm /\ a.place[1] = "missing"
        IN  /\ told.plan = handler[Admin].plan
            /\ \A p \in Profiles : Short(p) /\ d.policy[p].pins = <<>> =>
                {<<p, c.slot, c.variant.id>> : c \in AllCandidates(d, p)} \subseteq told.rejected

\* The files of every profile in the database are registered.
FilesThere(d) == \A p \in Profiles : d.version[p] > 0 => ProfileArtifacts(p) \subseteq d.artifacts

\* A profile in the database never lacks a file: upsertProfile and deleteArtifact
\* keep it so between them.
NoDanglingArtifact == FilesThere(db)

\* Nobody is at work and nothing is on its way.
Quiet == /\ \A h \in Handlers : handler[h].pc = "idle"
         /\ \A n \in Nodes : up[n] = <<>> /\ down[n] = <<>> /\ jobs[n] = {}
         /\ work = {} /\ sending = {}

InPlace(a) ==
    IF a.warm
    THEN LET s == wslot[a.place[2]]
         IN  /\ s.state \in {"ready", "serving"} /\ s.profile = a.profile
             /\ s.version = db.version[a.profile] /\ s.variant = a.variant
    ELSE AssignedArtifacts(a) \subseteq cache[a.node]

\* The Worker has a copy on another slot, and takes the assignment for carried out.
OnOtherSlot(a) ==
    /\ a.warm
    /\ \E s \in SlotsOf(a.node) \ {a.place[2]} : InPlace([a EXCEPT !.place = <<"slot", s>>])

\* The Worker has failed on the assignment and waits for its cooldown, or it has given
\* up the slot's server after a failed task (recoverRuntimeSlot).
HasFailed(a) == \/ <<a.profile, a.variant>> \in cooling[a.node]
                \/ a.warm /\ wslot[a.place[2]].state = "error"

\* Whatever evictions, edits, other plans, failures and lost connections came in
\* between: when all is quiet, the stored assignments of connected Workers are in
\* place, or their Worker has failed on them.  An eviction that hit an artifact needed
\* again has been made good (dispatchStaleArtifactEvictions, replanAndDispatch after
\* each Worker message).  Three things are made good only by the next replan, the next
\* connection or never, and are left out: a goroutine that is late may store its plan
\* over a newer one (outdated); a full buffer may lose a message of the session (lossy,
\* workerSession.enqueue, Worker.enqueue); and the second copy of a profile on a Worker
\* with two slots is never loaded (assignmentAlreadySatisfied).
PlanIsCarriedOut ==
    Quiet /\ ~outdated => \A a \in db.assignments :
        a.node # 0 /\ ~a.mismatch /\ link[a.node] = "registered" /\ a.node \notin lossy
            => InPlace(a) \/ OnOtherSlot(a) \/ HasFailed(a)

\* Every ready slot, but for those set apart, takes requests exactly if the stored
\* plan wants it warm.
FollowsPlan(d, apart) ==
    \A s \in Slots \ apart : Drainable(d, s) => d.slot[s].accepts = WantedWarm(d, s)

\* When all is quiet, a ready slot of a profile with a policy takes requests exactly
\* if the stored plan wants it warm: a report, an edit, an unban, a registration or a
\* plan of another goroutine may have opened or closed it, and a commit has followed
\* (applyPlacementDrainState).  Three writers make no plan, and the slots they have
\* written since the last commit are left out: handleAttemptFailed, whose report may
\* be lost; markAttemptFailed; and clearExpiredQuarantines of a request or of the
\* dashboard, which opens a slot that the plan may have given up.
AcceptsFollowsPlan == Quiet => FollowsPlan(db, unplanned)

\* The slots that a step begins a new attempt on.
NewAttempts == {db'.attempts[i].slot : i \in DOMAIN db'.attempts \ DOMAIN db.attempts}

\* "Disabled ... Workers must not receive tasks": a Worker that an admin has disabled
\* is sent no task (upsertAdminNode, slotReadyForProfile).
DisabledGetsNoTask == [][\A s \in NewAttempts : NodeOf[s] \notin barred]_vars

-----------------------------------------------------------------------------
\* Where the runs start: a database that the program may have stored, with the files
\* of its profiles, and either a replan to come or the slots as the plan wants them.
\* Workers that are connected have no task where the slot is ready.
ASSUME SetUpConstants ==
    /\ IsFiniteSet(Tasks) /\ FlapThreshold \in Nat /\ QuarantineThreshold \in Nat \ {0}
    /\ AutoApprove \in BOOLEAN
    /\ \A policy \in Policies : GoodPolicy(policy)
    /\ \A s \in SetUps :
        /\ DatabaseOK(s.db) /\ FilesThere(s.db)
        /\ s.pc = "plan" \/ (s.pc = "idle" /\ FollowsPlan(s.db, {}))
        /\ s.cache \in [Nodes -> SUBSET Artifacts]
        /\ \A k \in Slots : NodeOf[k] \in s.live /\ s.db.slot[k].state = "ready" => ~s.db.slot[k].task
=============================================================================
