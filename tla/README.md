# COMRAD in TLA+

COMRAD runs chat completions on other people's machines. A **Manager** accepts
OpenAI-style requests, keeps a database of Workers, slots, profiles, tasks and
attempts, plans which model is warm on which slot, and dispatches each request
as an *attempt* to an execution *slot* of a **Worker**, over a websocket. A Worker
downloads models, keeps one `llama-server` per slot, streams its tokens back and
ends every attempt with a compute report, which is what users are charged by.

This directory models that system, checks it with TLC on small instances, and
proves with TLAPS, for every instance, the safety properties of the dispatch, the
ledger, the admin stream, the Worker, the placement planner and the replans that
follow it, and that the dispatch implements the life of a request that clients are
promised.

Paths below are relative to `src/internal/comrad/` unless they start elsewhere;
`PRD.md` and `docs/` are in `src/`.

## Files

| file | content |
|---|---|
| `TaskDispatch.tla` | requests, sessions, Worker messages and executions |
| `RequestLife.tla` | the abstract life of a request, which `TaskDispatch` implements |
| `ComputeLedger.tla` | users, keys, balances, the ledger and the store that saves them |
| `AdminStateStream.tla` | the live state of the dashboard: tickets, publishers, subscribers |
| `WorkerHost.tla` | a Worker: its slots, servers, downloads, cache, evictions and restarts |
| `PlacementPlan.tla` | the placement planner and its explainer, as operators |
| `CapacityControl.tla` | replans, admin edits, evictions and the Workers that follow them; extends `PlacementPlan` |
| `MC*.tla`, `*.cfg` | the instances that TLC checks |
| `TaskDispatchProofs.tla` | types and bookkeeping of `TaskDispatch`, quarantines |
| `RequestLifeProofs.tla` | the history of attempts, `TaskDispatch` implements `RequestLife`, and what holds while connections stay up; extends `TaskDispatchProofs` |
| `ComputeLedgerProofs.tla` | the theorems about `ComputeLedger` |
| `SumTheorems.tla` | lemmas about sums, maxima and minima over finite sets, for `ComputeLedgerProofs` and `PlacementPlanProofs` |
| `AdminStateStreamProofs.tla` | the theorems about `AdminStateStream` |
| `WorkerHostProofs.tla` | the theorems about `WorkerHost` |
| `PlacementPlanProofs.tla` | every plan keeps its promises, and the explainer comes to the same plan |
| `CapacityControlProofs.tla` | the theorems about `CapacityControl`; extends `PlacementPlanProofs` |
| `PROJECT.json` | components, runs, mutants, the map to the source, findings, hazards, theorems |

`tlc -config Reliable.cfg MCTaskDispatch` runs a check; `tlapm TaskDispatchProofs.tla`
checks the proofs of a module (the longest, `RequestLifeProofs` and
`PlacementPlanProofs`, take about seven minutes from nothing).

## Inventory

| component | state it keeps | operations | what is hard | module |
|---|---|---|---|---|
| chat requests (`manager_chat.go`, `manager_client.go`) | the global queue, one goroutine per request, `Manager.streams`, a channel per attempt | admit, create task, select, reserve, dispatch, wait, retry, answer, cancel | races with every writer of the task; retry only before output; returning the queue place | TaskDispatch, RequestLife |
| scheduler (`manager_scheduler.go`) | none of its own: transactions on the database | selectReadySlot, failTask, markAttemptFailed, cancelTask, replanAndDispatch | works on snapshots that are stale when used | TaskDispatch, CapacityControl |
| worker messages (`manager_worker_messages.go`, `_security.go`, `_state.go`) | database | one handler per message type | late, repeated and reordered messages; transaction first, stream event afterwards | TaskDispatch, CapacityControl |
| sessions and heartbeats (`manager_ws.go`, `manager_worker_heartbeat.go`) | `Manager.sessions`, one reader and one writer per session | register, replace, close, fail running attempts, expire heartbeats | closes from four places, replacement while attempts run | TaskDispatch |
| quarantine (`quarantine.go`) | counters and a flag per slot | count a failure, expire | must survive reconnects | TaskDispatch |
| accounting (`compute_accounting.go`, `manager_accounting_admin.go`) | ledger, cached balances, cost held by pending tasks | charge, credit, adjust, check the balance | charge once; the cache must follow the ledger | ComputeLedger |
| store (`store*.go`) | the database in memory and on disk | update with save, load | a save fails after memory has changed; a crash | ComputeLedger, AdminStateStream |
| admin stream (`manager_ws.go`) | subscribers, bounded channels, tickets | subscribe, publish, replace the oldest, write | publishers run outside the lock; slow subscribers | AdminStateStream |
| admin API (`manager_admin.go`, `manager_*_admin.go`) | database | edit profiles, policies, nodes, artifacts, users, keys, intents; each replans | edits race with plans under way | CapacityControl, ComputeLedger |
| placement (`placement_*.go`, `fit.go`, `profile_fit.go`) | assignments in the database | plan, explain, drain | capacity arithmetic under several limits and in several phases | PlacementPlan |
| flapping, cache eviction (`manager_worker_flapping.go`, `manager_cache_eviction.go`) | events, suppressions, intents | suppress, plan and send evictions | plans that are stale when they are executed | CapacityControl |
| Worker connection and tasks (`worker.go`, `worker_task.go`, `worker_inbound.go`) | slots, active attempts, one send buffer | connect, greet, execute, cancel, report | the buffer drops, the connection breaks, admission is check-then-act | TaskDispatch, WorkerHost |
| Worker runtime, assignments, cache, p2p (`worker_runtime.go`, `worker_assignment.go`, `worker_artifact.go`, `worker_cache_evict.go`, `worker_p2p.go`, `worker_update.go`) | processes, restart counters, assignments, files, seeds, the state file | start, watch, recover, restart, download, verify, warm, evict, seed | goroutines work on a slot without claiming it | WorkerHost |

Requests and Workers interact through the database (one `store.Update` at a
time under `Store.mu`), through `Manager.sessions` and `Manager.streams` (under
`Manager.mu`), through two bounded send buffers per connection and through a
channel of stream events per attempt. There is no other synchronisation: no
lock is held from one of these to the next, so every handler can be overtaken
between its transaction and its event, every closer between removing the
session, failing its attempts and publishing the failures, and every planner
between its snapshot and the transaction that stores its plan.

Each module takes one of these places of contact and keeps the others small:
`ComputeLedger` reduces a request to its transactions, `CapacityControl` reduces a
Worker to what the Manager sees of it, `TaskDispatch` lets an arbitrary plan drain
slots.

## TaskDispatch

Each action is one critical section of the code, or a run of them that no other
goroutine can tell apart. What a goroutine has yet to do is its program counter.

**State.** `task`, `failedSlots`, `attempt`, `slot`, `failures`, `node`,
`reports`, `charged` are the database; `session`, `conn`, `registered`,
`reader`, `pending` the Worker sessions of the Manager; `streams`, `events`,
`req`, `resp` the request goroutines and what they told their clients; `up` and
`down` the two queues of every connection; `wsess`, `greeting`, `wslot`,
`exec`, `loading` the Workers. `gone`, `jobCancels` and `shown` record what
clients did and saw.

**Requests.** `Submit` is acquireQueue and createChatTask. `SelectSlot`,
`NoCapacity` and `StartCancelled` are the rounds of startAttempt, `ReserveAttempt`
is reserveAttemptInDB with its three outcomes, `DispatchAttempt` is
registerStream with dispatchAttempt and, when that fails, markAttemptFailed.
`TakeEvent` and `ContextDone` are the two cases of the select in collectAttempt
and streamAttempt; `CancelJob` is the job endpoint.

**Sessions.** `CloseSession` and `ReaderStop` start a close,
`FailRunningAttempts` is its transaction, `PublishFailure` one event of
publishWorkerDisconnectFailures. `UpsertWorkerState`, `SwapSession`, `JoinClose`
and `Replan` are the four steps of upsertWorkerState. `HandleSlotState`,
`HandleAttemptStarted`, `HandleToken`, `HandleAttemptFailed` and
`HandleComputeReport` are the transactions of the other handlers, `PushEvent`
and `Replan` what follows them. `HandleHeartbeat`, `MarkOffline` and
`ClearQuarantine` are the timers.

**Workers.** `Connect`, `Greet`, `Disconnect` and `Receive` are the connection;
`Register`, `Admit`, `Reject`, `Serve`, `SendToken`, `Complete`, `RuntimeError`
and `ReportError` are executeTask; `Recover` and `Restarted` are
recoverRuntimeSlot, which runs beside it; `Assign` and `Assigned` are
runAssignment.

**What is abstracted.** A message carries what its handler looks at: the kind,
the attempt and the reason; a failure or a report is `_retry` or `_final` as
CanRetry says. Tokens after the first, lease renewals, acknowledgements,
telemetry, audit records and times are left out: no code reads
`LeaseExpiresAt`, and a second token changes nothing. A heartbeat is an action
without a message, enabled when it changes something. hello and full_state are
one kind of message, sent twice. Worker slot changes and the slot message about
them are one step, as are the snapshot and the session lookup of
selectReadySlot, and a cancel's transaction and its messages. Downloading,
loading and warming are one slot state. The two reports a Worker could never
send for one execution are told apart by the attempt, so a report is stored per
attempt and not per report ID. Admission failures of the fit check count with
those of the artifact check. The heartbeat monitor's replan happens in the last
step of the close (`AfterClose`) or with `MarkOffline`.

**What is chosen.** The slots a plan wants warm (`Plans`) and the profile of an
assignment are arbitrary: nothing here depends on the planner. Ties of
selectReadySlot are broken arbitrarily. On a closed session Go's select in
`workerSession.enqueue` picks either ready case, so a dispatch to it may be
refused or vanish. When a close fails several attempts of one task, map order
decides the task's status, so either is possible.

**Bounds.** `MaxAttempts` attempts of a task, `MaxSessions` connections of a
node, `MaxLoads` assignments of a slot. The code has none of them; each instance
has one more attempt than it has useful slots, so that the retry loop ends by
itself, or as many as the scenario needs. `MayBreak` keeps the last connection
of the bound up: otherwise an instance would end in a disconnect that no
reconnect can follow.

## RequestLife

What a client is promised whatever happens to Workers and connections: a request
is refused or accepted; an accepted one is tried any number of times, answered
once and never tried after that; each try is billed at most once, and a completion
is that of the last try, billed by then. `TaskDispatch` implements it under the
mapping `Life`: the request goroutine's program counter gives the stage, its
attempt number the tries, `charged` the bills. `LifeAsPromised == Life!Spec` is
checked in `reconnect`, where sessions break and messages come late.

## ComputeLedger

`mem` is `Store.db`, `disk` what the backend saved last. `Update(d, ok)` is
`Store.Update`: it changes memory, saves, and when the save fails the caller gets an
error although memory stays changed. `Crash` ends every goroutine, `Restart` is
`NewManager` with `ensureConfiguredClientKey`; reports of attempts that ran during
the crash may still arrive.

`Authenticate`, `CreateChatTask` (with `ensureSufficientAvailableBalance`),
`BeginAttempt`, `Dispatch`, `DispatchFails`, `NoCapacity`, `CancelTask` and
`StartCancelled` are the transactions of a request; `HandleComputeReport` (with
`applyReportAccounting` and the two ledger entries), `FailAttempt` and `Lose` those
of its attempts; `CreateUser`, `UpdateUser`, `IssueAPIKey`, `RevokeAPIKey`,
`SetProfileComputeCost`, `SetOwner`, `Adjust` the admin's; `Register` is the part of a
registration that touches the owner. `stranded` records the tasks that a crash, a
failed save, a failed dispatch or a late message left pending without a goroutine.
There is one node and one profile; ledger entries carry what accounting reads.

Bounds: `MaxAttempts`, `MaxFailedSaves`, `MaxCrashes`, `MaxEdits`. One failed save and
one crash suffice to interrupt each operation at each point; the second request is
there because balances are held by one task while another is admitted.

## AdminStateStream

A snapshot is abstracted to the number of updates it contains. `Update` is
`Store.Update` with its after-update call, `UpdateNotSaved` one whose save failed and
that publishes nothing. `ListSubscribers`, `TakeSnapshot`, `Send`, `DropOldest`, `Resend`
are publishAdminState and the three selects of sendLatestAdminState. `IssueTicket`,
`ExpireTicket`, `OpenDashboard`, `OpenWithToken`, `OpenDocs` are the tickets and the
handlers that accept them; `Subscribe`, `FirstSnapshot`, `Receive`, `Write`,
`CloseDashboard` are handleAdminStateWS.

Bounds: a channel holds `Buffer` snapshots, 1 in the instance and 4 in the code: what
matters is that it is full. Three updates by two goroutines let one publisher be
overtaken, dropped and followed. Fairness is that of Go's scheduler to publishers
only; dashboards may stop reading at any time.

## WorkerHost

The goroutines of one Worker: an assignment per profile (`QueueAssignment`,
`EnsureCached`, `AcquireDownloadSlot`, `DownloadArtifact`, `WriteState`, `EnsureSlotWarm`),
a watcher per server (`ServerDies`, `ClaimExitedRuntime`, `ReserveRestart`), a task
and the recovery after its failure (`AdmitTask`, `ServeTask`, `StreamEnds`, `StreamFails`,
`CompleteTask`, `RecoverRuntimeSlot`), the shared start of a server
(`StartLlamaServer`, `InstallServer`, `StartFails`, `MarkReady`), and the eviction that the
read loop runs itself (`PlanEviction`, `StopEvicted`, `RemoveEvicted`, `ApplyEviction`,
`ReportEvicted`). `ApplyP2PConfig` starts and stops seeding, `Restart` is a new process
that loads the state file.

A step ends where a goroutine waits or lets go of what it read. A server is a name
that is used again once nobody holds it; a file is absent, good or bad (partly
written or with a wrong digest). `overlapped`, `clashed`, `excused`, `inherited` and
`alone` are history: they name exactly the situations in which the code does not
keep a property (see below), so that it is checked in all others.

Bounds: `MaxRestarts` is 1 in the instance and 3 in the code; two profiles of one
model share a slot, an artifact and two server names, which is what two concurrent
starts need. `MaxDownloads = 1` is the default of the configuration. Writes of the
state file and the seeding of a verified file succeed, and a file is hashed and, if it
is bad, dropped in one step.

## PlacementPlan

The planner as operators on a database record: fit of a variant to a slot, demand
and effective capacity, candidates and their score, hard pins, copies that are
protected because they are loading or serving, the four phases (minimum warm,
minimum cached, and what demand adds), every limit and budget, and the marking of
draining copies. `RunPlanner(db, FALSE)` is planPlacementWithCooldown, `RunPlanner(db,
TRUE)` the explainer, which chooses by rejection reasons. The loops are folds, so
the module holds no RECURSIVE operator. The sorts, that of the finished plan
(sortAssignments) included, choose the sequence that is in order. Times are ages in
units of a demand bucket; wording and the memory recommendation are left out.

## CapacityControl

Goroutines of the Manager (the admin's requests, one reader per Worker session) each
run replanAndDispatch in the steps `TakePlan` (snapshot and plan), `Commit` (the
transaction, with the drain state), `SendAssignments`, `PlanEvictions` and
`DispatchEvictions`. `UpsertProfile`, `DeleteProfile`, `UpsertPolicy`, `UpdateNode`,
`DeleteNode`, `Unban`, `ApplyPlacement`, `UploadArtifact`, `DeleteArtifact`, `KeepCache`,
`RequestEviction` are admin requests. What a session's reader handles are
`RegisterWorker`, `Heartbeat`, `UpdateArtifactState`, `UpdateSlotState`,
`HandleAttemptFailed` (its own transaction, no replan) and `HandleComputeReport` (which
replans); `Disconnect` fails what runs on the Worker. `Request`, `StartTask`,
`DispatchAttempt` and `MarkAttemptFailed` are a request that takes a ready slot and may
not get its task to the Worker. `ClearExpiredQuarantines` is what a request and the
dashboard begin with; `QuarantineExpires`, `SuppressionExpires` and `FlapExpires` are
the passing of time (bounded, `left.expiries`). The Worker's side is `Connect`, `ReceiveAssignment`, `Fetch`,
`Load`, `JobFails`, `ReceiveEviction`, `ReceiveTask`, `FinishTask`, `RuntimeError`,
`FailTask`, `RecoverSlot`. Both buffers of a session may be full (`Enqueue`, `Tell`): the
messages that find them so are lost, any of those sent at once.

`AcceptsNew` has many writers. Reports, registrations, unbans, disconnects and edits are
followed by a replan, whose commit applies the drain state. Three writers are not:
handleAttemptFailed, markAttemptFailed, and clearExpiredQuarantines in selectReadySlot
and stateResponse. The history variable `unplanned` holds the slots they have
written since the last commit: `AcceptsFollowsPlan` is about the others, and "What the
code does not keep" says what goes wrong with these.

`PlanIsCarriedOut` has four exceptions, each a thing the code makes good later or never:
a late goroutine's plan stored over a newer one (`outdated`); a session that has lost a
message (`lossy`); an assignment whose Worker has failed (`HasFailed`: its cooldown, or
a slot whose server it has given up); and the second copy of a profile on a Worker with
two slots, which assignmentAlreadySatisfied takes for carried out by the first and
which is never loaded (`OnOtherSlot`; the set-up `Twin`).

Simplifications: a policy has the id of its profile; targets and adapters are always
set; node quarantine, which no code sets, peer-to-peer settings, pause mode, update
records (also as a reason to keep an artifact) and eviction records are left out;
an admin's node update leaves tags, mode and owner alone; the Worker's intermediate slot
states are merged (`WorkerHost` has them); tokens, cancellations and deadlines of
requests are in `TaskDispatch`; a failed assignment does not leave its cooldown within
a run; a new session is registered only when the reader of the old one is idle; ages do
not advance. The bounds are in `left`, one count per kind of event, and each set-up of
the run gives them: a set-up is a situation and the one or two events that disturb it.

## Runs

| run | instance | checks |
|---|---|---|
| `reliable` | two requests (one streaming), two slots of one Worker, the first may fail at admission or at run time; 1.8 million states | `TypeOK`, `WaitingIsServed`, `OneRunningAttempt`, `RetryOnlyBeforeFirstOutput`, `FailedAttemptNeverCharged` |
| `reconnect` | one request with three attempts, two slots, a connection that breaks and is replaced; 1.1 million states | `Bookkeeping`, `ExcludeFailedSlots`, `AnsweredIsCharged`, `QuarantineHolds`, `LifeAsPromised` |
| `answers` | two requests for one slot that may fail, fair scheduling | `RequestsAnswered` |
| `overload` | full buffers, a client that leaves, a cancelled job, a plan that drains, a profile change | `GoneReleasesQueue` |
| `ledger` | two users with a key each, two requests, two admin edits, a top-up and a correction, a failed save, a crash; 1.3 million states | `TypeOK`, `BalanceIsLedger`, `ChargesFollowReports`, `NoOverspending`, `HeldBalanceIsServed`, `AcknowledgedIsDurable`, `LedgerAppendOnly` |
| `stream` | two updaters, three updates, two dashboards (one has the token), one ticket; 1.0 million states | `TypeOK`, `StreamCatchesUp`, `TicketAdmitsOnce`, `PublishingEnds` |
| `worker` | one slot, two profiles of one model, a task, a failure, an eviction or p2p change or restart; 1.6 million states | `TypeOK`, `SlotHasOwner`, `ReadyIsServed`, `NoLostServer`, `RestartsAreLimited`, `CacheIsVerified`, `EvictionLeavesNothing` |
| `capacity` | three nodes, four slots, two profiles, the second in two variants: one plan of each of 1296 databases, and fifteen set-ups that go on (an eviction and an edited policy, an edited profile under a request, files that come and go, a disabled and a deleted node, an unban, a lost connection, a Worker that joins, a request that fails on a slot one failure short of its quarantine, one with a message lost, one that cannot be dispatched, one that is tried again on another Worker, a quarantined slot that the plan has given up, a slot planned for another profile, two copies on one Worker); 224 thousand states | `TypeOK`, `PlanWithinBudgets`, `OneOwnerPerSlot`, `ShortageIsReal`, `ExplainAgrees`, `NoDanglingArtifact`, `PlanIsCarriedOut`, `AcceptsFollowsPlan` |

Symmetry is used where only invariants and step properties are checked and the
permuted values are interchangeable: requests in `ledger`, profiles in `worker`. A
request refused because the queue is full (`resp = "busy"`) needs more requests than
`QueueLimit`; the passing instances keep within it.

Deadlock is not checked: an instance stops when its bounded events have happened, all
requests are answered and everybody is idle, as the system does when nobody asks for
anything.

**Fairness.** `FairSpec` of `TaskDispatch` is weakly fair to each request goroutine, to
the work of readers, closers and Workers, and to the heartbeat monitor: Go's
scheduler runs what can run, a message on an open connection is read,
`runWorkerHeartbeatMonitor` ticks. Submitting, leaving, cancelling, failing,
connecting and disconnecting are never forced. The work steps of a bounded instance
are finitely many, so fairness to their disjunction starves none of them. `overload`
assumes fairness of request goroutines only: the queue place comes back although
every Worker, reader and closer may have stopped. `stream` assumes fairness of
publishers only.

**Mutants.** For every property of these runs its module holds a mutant of one
definition (named `Definition_WhatIsWrong`), a bug the code could have, which makes
TLC report that property as violated.

## Findings

Each is a run whose property quotes a promise of the repository and which TLC
refutes with a trace of the code's own steps.

* `slot_shared`, `OneTaskPerSlot` ("never assign two active tasks to one slot",
  `PRD.md:125`). A Worker that refuses an attempt sends a failure and then a
  report. The failure frees the slot, a second request reserves it, and the
  report, which does not look whose task the slot has, frees it again for a third.
* `cancel_revived`, `CancelledNeverAssigned` ("cancelled queued work must not be
  assigned later", `PRD.md:149`). The disconnect of the Worker queues the task
  again although it was cancelled.
* `dead_session`, `SilentWorkerGoesOffline` ("mark silent Worker connections
  offline after missed heartbeats", `PRD.md:132`). A session closed between its
  hello and its full_state returns to `Manager.sessions`; `sync.Once` makes the
  monitor's close a no-op and the node stays online.
* `disabled_worker`, `DisabledGetsNoTask` ("disabled ... Workers must not receive
  tasks", `PRD.md:79`). Disabling a node does not close its session, and its next
  heartbeat sets it online again: it is planned for and given tasks.

## What the code does not keep

Observations made while modelling that have no run of their own. Where a property
is close to one of them, its comment and its exceptions say so.

*Requests.* When a connection is lost, a close may decide that an attempt can be
retried while its reader still delivers the first token, and the report of an attempt
that a close has failed is charged when it is handled after all; so
`RetryOnlyBeforeFirstOutput` (`PRD.md:129`) and `FailedAttemptNeverCharged`
(`PRD.md:172`) are checked in `reliable`, where the connection stays up.

*Ledger and store.*
* After a crash, a failed save, a failed dispatch or a late message a task may stay
  queued or running for ever and holds its user's balance (`stranded`).
* A failed save leaves memory changed: an adjustment that was answered with an error
  and is tried again counts twice. The configured key is active again after every start.
* A registration replaces the node record and erases its owner
  (`manager_worker_state.go:43`; `PRD.md:168`, `docs/dashboard.md:61` speak of an ownership that is assigned once).

*Admin stream.* Of overlapping publishes the older snapshot may be sent last and
shown until the next update (`PRD.md:87`). An update whose save failed is in memory
but is not published.

*Worker.*
* Two starts on one slot at a time, or an eviction that meets the restart of a watcher,
  lose a `llama-server` that nobody stops (`docs/operations.md:164`, `PRD.md:75`).
* A server that dies while its slot serves, when the task ends well, leaves a ready
  slot without a server until the next task fails on it.
* saveState writes outside the lock, so an older copy of the cache may be the last one
  written, and a restarted Worker trusts it.
* An assignment or a task that is turned down writes its profile into a slot before, or
  without, replacing the server there (`worker_assignment.go:99`, `worker_task.go:235`).
  An eviction goes by the slot's profile and model (`worker_cache_evict.go:65`, `:129`)
  and does not see that server, which goes on serving a file that is gone.
  `EvictionLeavesNothing` speaks of the slots that the plan did find.
* The exit at the end of a self-update leaves the servers running. With two or more
  concurrent downloads, two of one artifact share a `.tmp` file.
* An edited profile: `runtimeServerReady` and `assignmentKey` (`worker_runtime.go:87`,
  `worker_task.go:289`) do not look at the version, so the old server is kept and
  reported ready with the new version (`docs/model-management.md:17`, `PRD.md:75`).

*Placement.*
* A goroutine that is late stores its plan over a newer one (`outdated`); the next
  replan repairs it.
* An eviction planned from a snapshot may remove an artifact that is assigned by the
  time it is executed (`docs/scheduling.md:39`, `PRD.md:114`); the replan after the
  "evicted" message brings it back, which is what `PlanIsCarriedOut` checks.
* The explainer lists variants of a slot by id, the planner in the order of the
  profile (`docs/scheduling.md:48`), so `ExplainAgrees` is checked with variants in
  the order of their ids.
* A queued request does not replan, although `docs/scheduling.md:24` calls scaling up
  immediate. A second warm copy for the same
  Worker is dropped as already satisfied (`PlanIsCarriedOut` excepts it).
* A plan gives up the copy of a quarantined slot whose model stays cached. When the
  quarantine has expired, the next request, looking for a slot, clears it, which makes the
  slot accept (`quarantine.go:52`), and takes it, although "stale idle warm slots stop
  accepting new tasks" (`docs/scheduling.md:39`); nothing replans. The set-up `GivenUp`
  of `capacity` gets there, and `AcceptsFollowsPlan` excepts the slot.
* A dispatch that fails leaves its slot ready and closed to requests
  (`manager_scheduler.go:134`), and a full buffer loses assignments and evictions
  (`manager_scheduler.go:222`), both until the next replan.
* A Worker that gives up a slot's server may say so before the failure of the task is
  handled, which makes the slot ready again at the Manager until a task is refused there.
* A failed attempt that is handled after its slot has changed its profile leaves the slot
  idle, and accepting if it was (`manager_worker_messages.go:350`), until the report.
* Two hard pins may share a slot. A pin on a slot that is not there makes a missing copy
  without a look for another slot.
* The disk budget counts a profile once on a node, in the first variant that is planned
  there: `WithinBudgets` bounds the least that the copies can need (`LeastDisk`).
* Nothing checks that the ids of a profile's variants differ or are in order
  (`validateProfileVariants`, `profile_config.go:142`).
* A heartbeat or an artifact message of a deleted node stores a record with an empty
  id; `mode: disabled` is overwritten at registration; deleting and creating a profile
  starts its versions again at 1; a task may be stored for a profile just deleted.

## Proofs

Theorems about a specification are of the form `Spec => []P`, `Spec => [][A]_vars` or, for
the refinement, `Spec => Life!Spec`, for all values of the constants that satisfy the
module's assumption, and state a property that a run checks too. Two kinds go beyond
that form: those of `PlacementPlanProofs` are about the planner as an operator, for
every database, and some have a hypothesis on the constants, because the code keeps the
property only there (`Steady`: connections stay up; `VariantsById`: variants are
listed by id). Runs of the same module satisfy these hypotheses: `reliable` and
`capacity`. Each module's inductive invariant also holds in every state of the run's
instance, by TLC.

| module | theorems |
|---|---|
| `TaskDispatchProofs` | `TypeCorrect`, `BookkeepingHolds`, `QuarantineKept` |
| `RequestLifeProofs` | `FailedSlotsExcluded`, `AnswersAreCharged`, `RequestsLiveAsPromised`; with `Steady`: `WaitsAreServed`, `OneRuns`, `RetriesComeFirst`, `FailedIsNotCharged` |
| `ComputeLedgerProofs` | `LedgerTypeCorrect`, `BalancesAreLedgers`, `ChargesAreReports`, `NeverOverspent`, `HeldBalanceServed`, `AcknowledgedDurable`, `SavedLedgerGrows` |
| `AdminStateStreamProofs` | `StreamTypeCorrect`, `StreamNeverBehind`, `TicketSingleUse` |
| `WorkerHostProofs` | `HostTypeCorrect`, `SlotsHaveOwners`, `ReadySlotsServed`, `ServersAreKept`, `RestartsStayLimited`, `CacheStaysVerified`, `EvictionsLeaveNothing` |
| `PlacementPlanProofs` | `PlanKeepsPromises`; with `VariantsById`: `ExplainedPlan` |
| `CapacityControlProofs` | `TypeCorrect`, `FilesKept`, `SlotsFollowPlan`, `BudgetsKept`, `SlotsOwnedOnce`, `ShortagesReal`; with `VariantsById`: `ExplanationsAgree` |

### TaskDispatch: names

Assumed are `ConstantsAssumption` (the constants have their types and there are
finitely many tasks) and `BoundsAssumption` (the bounds are positive numbers).

The types alone are not inductive. `HandleAttemptFailed` writes to the slot of
the attempt that its message names: that this is a slot at all needs that the
attempt was made, that it was given a slot, and that the message was about an
attempt of this node when it was sent. So the inductive invariant is
`IndInv == TypeOK /\ Bookkeeping`, where `Bookkeeping` says:

* `AttemptsNumbered`: the attempts of a task that exist are the first `req[t].n`,
  and each has a slot;
* `RequestsNamed`: a request that reserves or dispatches knows its slot and
  session, and one that waits has an attempt;
* `MessagesNamed`: messages on a connection are about attempts and slots of its node;
* `ExecutionsNamed`, `StreamsNamed`: Workers execute, and streams and pending
  disconnect failures belong to, attempts that exist;
* `ReadersHold`: a handler's message is still there when its later steps run.

What an action leaves alone is dealt with by frame lemmas (`DbFrame`,
`MessagesFrame`, ...), from two facts: attempts are never removed nor moved
(`AttemptsKept`) and the head of a queue changes only with its reader
(`HeadsKept`). Each kind of actor has one lemma with what its steps must show
(`RequestStepInv`, `WorkerStepInv`, `SessionStepInv`, `HandlerInv`), each action
one lemma that shows it, and `NextInv` collects them. `QuarantineKept` uses the
same invariant: an update of the right slot record is needed to say that it kept
its flag.

### TaskDispatch: the history of an attempt

A request retries, or answers, when an event in its channel says so. Nothing ties
that event to the database any more when it is read: the proof must follow each
message from the execution that sends it to the request that acts on it. `History`
adds to `IndInv`:

* `DispatchedOnce`: at most one `execute_task` of an attempt is on any connection, and
  only before the attempt is executed. Without it an attempt could run twice and say
  two different things;
* `ReportedOnce`: an execution reports at its end and says one thing, so a report
  found stored by `HandleComputeReport` was stored, and charged, as what it says;
* `OutputKnown`: a failure that offers a retry is about an execution without output;
* `EventsTrue`: an event that offers a retry, in a channel, in a closer's hands or in a
  reader's between its transaction and its push, is about a slot that the task has noted as
  failed; one that says completed is about an attempt that is charged;
* `LoopKeepsOff`: a request in its loop has given up attempts on noted slots only, and
  the slot it is about to reserve is none of them.

`ExcludeFailedSlots` is itself part of it, and `AnsweredIsCharged` follows. For the
refinement, an initial state maps to an initial state; every action that does not
touch `req`, `resp` or `charged` is a stutter (`LifeVars` unchanged); the steps of a
request map to the steps of `RequestLife` by the value of its program counter; and
`HandleComputeReport`, the only one to charge, maps to the billing of an attempt that
was made. That a completion is billed by the time it is given is `LoopKeepsOff`.

### TaskDispatch: while connections stay up

`Steady == Flaky = {} /\ ~Overflow`: no connection breaks and no send buffer is full, as in
`reliable`. Slots may still fail, clients leave, jobs be cancelled, plans drain slots, and
everything may be slow. Without it the code does not keep these four properties (see
"What the code does not keep", Requests): a close fails attempts that go on at their
Worker, and a message that a full buffer drops is not sent again.

`SteadyInv`, beside `IndInv` and `History`, says:

* `LinksUp`: every node is on its first session, and requests go there. So the steps of
  closers, of a new connection and of a refused one are not enabled (`SteadySteps`);
* `WordsInOrder`: on a connection the start of an attempt precedes its end, and what is
  said of its end is either that it failed or that it was completed. A handler that
  has the end in its hands therefore knows that no start comes after it;
* `EndsSettled`: what the database, a reader that is about to push, and the channels
  say of an end is so. The attempt is then `Settled`: not running, over at its Worker, and
  without a start on its way that could make it running again. Where a retry is offered
  there was no output, and where a token is shown there was;
* `PastSettled`: all attempts that a request has left behind are settled, and without
  output if the request streams;
* `Awaited`: while a request waits, its channel exists and its next event is in it, or
  the dispatch is on its way, or the Worker is busy with the attempt, or the end is on its
  way and has not been pushed yet. The last point is why the property itself is not
  inductive: a message stays at the head of its queue while its handler, which has
  pushed the event, still replans.

That an attempt stays settled, whatever moves, is proved once (`SettledKept`), from three
facts that each step provides (`Goes`): queues only lose their heads or gain what a
Worker says, executions that are over stay over, and only a start makes an attempt run.
The Worker's steps share one description of what it may say (`Word`). `OneRuns` follows
from `PastSettled`, as a running attempt can only be the current one; `RetriesComeFirst`
because the next attempt is made when all others are past; `FailedIsNotCharged` from
`FailedOver`, by which no completion of a failed attempt is on its way.

### ComputeLedger

Assumed is `LedgerConstants`: users and tasks are finitely many (a balance is a sum),
the configured key belongs to the default user, costs and adjustments are integers,
keys are not adjustments (`acked` holds both), and a set-up names users that exist.

`IndInv` says the same of memory and of disk (`DbOK`): every entry of the ledger is an
adjustment or belongs to a stored completed report at the price of its attempt, no two
are the same charge, every owed debit is there, and each balance is the sum of its
entries. Beside it: what a request relies on while its goroutine runs (`RequestsOK`),
whose task is pending (`HeldBalanceIsServed`, and `StrandedOK` while the Manager is
down), what was acknowledged is in memory and on disk, and the ledger on disk is a
prefix of the one in memory, which is what a failed save leaves behind. Each
operation is one lemma about an arbitrary database, so that it serves for memory
and, through `Update`, for disk.

`LedgerSum` and `PendingComputeCost` are folds. The provers cannot instantiate the
library's induction theorems, but `WFMin` takes no operator: a set of naturals that
is not empty has a least member, so a statement about finite sets is proved from its
smallest counterexample. `SumTheorems` does it once: such sums exist, are integers,
do not depend on the order, and change by the summand when an element is added or one
summand changes. `NeverOverspent` needs that last one for the transaction that
moves a task's cost from held to charged.

### AdminStateStream

Assumed is `StreamConstants` (a positive buffer, a natural number of updates). That a
dashboard shows the floor is inductive only together with where that snapshot still
is: in its channel, in the hands of its writer, or with a publisher that has yet to
list or to send (`NewsInv`). The delicate point is `Resend` after `DropOldest`: another
publisher may have filled the place, and what is then given up is only harmless
because the last snapshot in the channel is new enough (`PublishInv`). `TicketInv`: a
ticket that has admitted somebody is gone.

### WorkerHost

Assumed is `HostConstants`: the sets of profiles, servers and tasks are finite and
disjoint (they name goroutines), and `MaxDownloads = 1`, the code's default; with
two, two downloads of one artifact share a temporary file and `CacheIsVerified` fails.

Nothing in the code ties a process to the goroutines that speak of it, so the invariant
is about who refers to a server: the start that waits for it, its watcher, and the table
`runtimes`. `ProcsOK` says that a process that is waited for is waited for by one
start, is not in the table and has no watcher yet (`WaitsOK`); that the table names a
server once and a live one there has its watcher (`TableOK`); that a live one is
watched or waited for (`LiveOK`); and that a start which is not alone with its slot is on
record in `clashed` (`StartsMeet`). That is what makes `NoLostServer` inductive:
`InstallServer` overwrites an entry of the table only where the clash has been
recorded. `EvictsMeet` says the same of evictions: a live server on one of their
slots was there when they were planned, or has clashed.

`OrderOK` speaks of the slots on which goroutines have not overlapped: there is one at
work at most and no eviction (`Alone`), and where it, or a ready slot, takes a server
for granted the server is there (`Fit`). `ReadyIsServed` follows. `SlotHasOwner` is
strengthened by where the owner is (an assignment in its cache phase does not count,
as it may still return without writing). `CountsAgree` (`since = restarts`) gives the
restart limit; `DownloadsOK` (one download at a time, whose file is out of the cache)
gives `CacheIsVerified`; `EvictOK` what an undisturbed eviction has done so far.

The actions fall into nine kinds of step (`StepKind`: quiet ones, stop, spawn, install,
fail, death, claim, evict, aside), each described by what it does to a slot, the table and
a thread. Each part of the invariant is proved once per kind, not per action, and for
the table all kinds but the installation share one description (`Calm`).

The proof corrected the model's property. With two artifacts, an earlier form of
`EvictionLeavesNothing`, in which no server of the artifact was left, is false; see
"What the code does not keep", Worker.

### PlacementPlan

Assumed are `PlanConstants` and `CatalogueConstants`: the fleet and the catalogue are finite,
sizes are natural numbers, every profile has a variant and its variants have different
ids (assignments name them by id). `PlanKeepsPromises` says of every database with
sensible numbers (`PlanDatabase`) that the plan is a sequence of assignments of profiles
with a policy, that it is within the memory and the disk of every node, that no slot is
promised twice but by pins, and that where a warm copy is missing no slot could take it.

The planner is a chain of loops over sorted candidates, and the model writes them as
folds. Three things must be had before anything can be said about them. That a fold is
what its equation says: for a finite set of steps a fold exists for all subsets of at
most *n* elements, by the smallest *n* without one (`WFMin`, as in `SumTheorems`), so the
`CHOOSE` behind it chooses it. That a sort exists and puts each element where it
belongs: scores and ids are strict orders, and the rank of an element is the number of
those before it. And that a loop keeps what its step keeps, again by the smallest counterexample.

What the loops keep is `Booked`: the tables that the planner works with tell the truth
about the plan so far. The memory booked on a node is exactly that of its warm copies,
the disk lies between `LeastDisk` and `MostDisk` (a profile is booked once, in the first
variant), the used slots are those of the plan, and when a profile is short, every
candidate is refused by a table as it is now (`Refuses`), and tables only grow.
Marking of draining copies and the final sort only rearrange the plan (`Rearranges`).

`ExplainedPlan` runs the explainer beside the planner: step by step its tables are the
planner's with a set of rejections beside them (`Told`). Pins and kept copies are chosen from
equal sets, so they are equal. It needs `VariantsById`: the explainer looks at the variants of
a slot by id and the planner in the order of the profile, and where these differ so may
the plans.

### CapacityControl

Assumed is `SetUpConstants`: a behaviour starts with a well-formed database, in which the
slots accept requests as the plan says or a goroutine is about to plan. The inductive
invariant `Inv` is `TypeOK` in parts, with four additions. Between its snapshot and its
transaction a goroutine holds the planner's plan of that snapshot (`PlanHeld`), which
may be stale by then; so what is proved of the planner holds of every plan that is about
to be stored, and `BudgetsKept`, `SlotsOwnedOnce`, `ShortagesReal` and
`ExplanationsAgree` follow. The files of every profile are registered
(`NoDanglingArtifact`), through edits, uploads and deletions. An attempt that is reserved
and not sent yet is of a stored task (`SendingOK`), and so are those in the database:
otherwise a failure could queue a task that has no profile. And `DrainInv`: either slots
accept requests as the stored plan says, but for those in `unplanned`, or a goroutine has
yet to store a plan. That is what makes `SlotsFollowPlan` inductive: a handler that
writes `AcceptsNew` is on its way to a commit, or is one of the three that make no plan
and names the slot in `unplanned`, and the commit applies the drain state of the plan it
stores, whoever else is under way. `TypeCorrect` also says that a slot that
accepts requests has no task and is ready, or idle after a late failure.

### Only model-checked

* The liveness properties `RequestsAnswered`, `GoneReleasesQueue` and `PublishingEnds`:
  fairness is beyond the prover.
* `PlanIsCarriedOut`. It is true of the set-ups of `capacity` and not of every database: of
  two hard pins on one slot one stays out of place for ever. A general form would need a
  hypothesis on the policies and an invariant that follows each stored assignment
  through messages, jobs, evictions and replans.
* The four runs that expect a violation, by their nature.

## Not modelled

OpenAPI document, metrics and the dashboard's views; command-line programs, web
dashboard and tray app; configuration files and defaults; node tokens, join scripts
and update records; telemetry and acknowledgements; lease renewals (no code reads
`LeaseExpiresAt`); pause mode; signatures and the torrent transfer, which libraries
do; formatting of requests, answers and explanations. The two backends of the store
are one in the model, since both write the whole database or nothing, and deep copies
are what values are in TLA+. `CloseSession` applies to registered sessions: before the
greeting only error replies are written to a connection, and a write error on one of
them is left out. `PROJECT.json` gives the reason for each component.

## What is left

All safety properties of the passing runs but `PlanIsCarriedOut` are proved. Next would
be a form of it for policies without shared pins, and reconnects: which of the
properties above survive one broken connection, and under which change to the code
(a report that looks whose task the slot has; a close that a reader joins before
it fails attempts).
