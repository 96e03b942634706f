--------------------------- MODULE ComputeLedger ----------------------------
(***************************************************************************)
(* Who pays for what: users, API keys, the balance check of a new task,    *)
(* the compute ledger and the balances cached beside it, all of it inside  *)
(* the Manager's store, whose save may fail and whose process may crash.   *)
(*                                                                         *)
(* mem is Store.db and disk is what the backend last saved.  Every         *)
(* operation is one Store.Update.  A request goroutine and a Worker's      *)
(* execution are reduced to the transactions they make; TaskDispatch has   *)
(* their details.                                                          *)
(***************************************************************************)
EXTENDS Integers, FiniteSets, Sequences, SequencesExt

CONSTANTS
    Users,          \* user IDs
    DefaultUser,    \* defaultClientUserID, the user of the configured key
    Keys, KeyUser,  \* API keys and the user each is issued to
    ConfiguredKey,  \* key_configured_client
    Tasks,          \* chat requests
    NoUser, NoKey,
    Enforce         \* ManagerConfig.EnforceBalance

CONSTANTS           \* bounds of an instance
    Costs,          \* values of WorkloadProfile.ComputeCost an admin may try
    Adjustments,    \* admin adjustments: user and amount, each acknowledged once
    SetUps,         \* what admins have set up: users, keys and the node's owner
    MaxAttempts,    \* attempts of one task
    MaxFailedSaves, \* saves that fail
    MaxCrashes,     \* crashes of the Manager
    MaxEdits        \* changes an admin makes to users, keys, owner and cost

ASSUME LedgerConstants ==
    /\ IsFiniteSet(Users) /\ IsFiniteSet(Tasks)
    /\ DefaultUser \in Users /\ NoUser \notin Users
    /\ ConfiguredKey \in Keys /\ NoKey \notin Keys
    /\ KeyUser \in [Keys -> Users] /\ KeyUser[ConfiguredKey] = DefaultUser
    /\ Enforce \in BOOLEAN
    /\ Costs \subseteq Int
    /\ Adjustments \subseteq [user : Users, amount : Int] /\ Keys \cap Adjustments = {}
    /\ SetUps \subseteq [users : SUBSET Users, keys : SUBSET Keys, owner : Users \cup {NoUser}]
    /\ \A s \in SetUps : s.owner \in s.users \cup {NoUser} /\ \A k \in s.keys : KeyUser[k] \in s.users
    /\ MaxAttempts \in Nat /\ MaxFailedSaves \in Nat /\ MaxCrashes \in Nat /\ MaxEdits \in Nat

Attempts == Tasks \X (1..MaxAttempts)
TaskOf(a) == a[1]

TaskStatus == {"none", "queued", "running", "completed", "failed", "cancelled"}
Terminal == {"completed", "failed", "cancelled"}
Pending == {"queued", "running"}

UserRecord == [exists : BOOLEAN, disabled : BOOLEAN, balance : Int]
TaskRecord == [status : TaskStatus, user : Users \cup {NoUser}, cost : Nat]
AttemptRecord == [status : TaskStatus, cost : Nat]
LedgerEntry ==
    [type : {"consume_compute", "produce_compute"}, user : Users, report : Attempts,
     amount : Nat, direction : {"debit", "credit"}]
    \cup [type : {"admin_adjustment"}, user : Users, request : Adjustments,
          amount : Nat, direction : {"debit", "credit"}]

Database == [users : [Users -> UserRecord], keys : [Keys -> {"none", "active", "revoked"}],
             cost : Nat, owner : Users \cup {NoUser},
             tasks : [Tasks -> TaskRecord], attempts : [Attempts -> AttemptRecord],
             reports : [Attempts -> {"none", "completed", "failed", "cancelled"}],
             ledger : Seq(LedgerEntry)]

\* A request goroutine: its user and the profile copy it resolved.
Request == [pc : {"none", "new", "start", "dispatch", "wait", "done"}, user : Users \cup {NoUser},
            cost : Nat, n : 0..MaxAttempts]

-----------------------------------------------------------------------------
VARIABLES
    mem,       \* Store.db
    disk,      \* the backend
    alive,     \* the Manager's process runs
    req,       \* request goroutines
    live,      \* attempts a Worker still executes, or whose report is under way
    acked,     \* adjustments and revocations answered with success
    stranded,  \* history: tasks a crash, a failed save, a failed dispatch or a
               \* message that came after the answer has left without a goroutine
    count,     \* failed saves and crashes so far
    edits      \* admin edits so far

vars == <<mem, disk, alive, req, live, acked, stranded, count, edits>>

TypeOK ==
    /\ mem \in Database /\ disk \in Database
    /\ alive \in BOOLEAN
    /\ req \in [Tasks -> Request]
    /\ live \subseteq Attempts
    /\ acked \subseteq Adjustments \cup Keys
    /\ stranded \subseteq Tasks
    /\ count \in [saves : 0..MaxFailedSaves, crashes : 0..MaxCrashes]
    /\ edits \in 0..MaxEdits

-----------------------------------------------------------------------------
(* The store *)

EmptyDatabase ==
    [users |-> [u \in Users |-> [exists |-> FALSE, disabled |-> FALSE, balance |-> 0]],
     keys |-> [k \in Keys |-> "none"], cost |-> 1, owner |-> NoUser,
     tasks |-> [t \in Tasks |-> [status |-> "none", user |-> NoUser, cost |-> 0]],
     attempts |-> [a \in Attempts |-> [status |-> "none", cost |-> 0]],
     reports |-> [a \in Attempts |-> "none"], ledger |-> <<>>]

\* ensureConfiguredClientKey: the configured key is active again at each start.
EnsureConfiguredClientKey(d) ==
    IF d.keys[ConfiguredKey] = "active" THEN d
    ELSE [d EXCEPT !.users[DefaultUser].exists = TRUE, !.keys[ConfiguredKey] = "active"]

\* Mutant: Update answers success when the save has failed.
Update_IgnoresSaveError(d, ok) ==
    /\ alive /\ mem' = d
    /\ \/ disk' = d /\ count' = count
       \/ /\ count.saves < MaxFailedSaves
          /\ disk' = disk /\ count' = [count EXCEPT !.saves = @ + 1]
    /\ ok = TRUE

\* Update with a function that succeeds: memory is changed first, and it stays
\* changed when the save fails and the caller gets an error (ok = FALSE).
Update(d, ok) ==
    /\ alive /\ mem' = d
    /\ \/ ok /\ disk' = d /\ count' = count
       \/ /\ ~ok /\ count.saves < MaxFailedSaves
          /\ disk' = disk /\ count' = [count EXCEPT !.saves = @ + 1]

\* A saved database with users, keys and a node owner, but no request yet.
SetUpDatabase(s) ==
    LET d == EnsureConfiguredClientKey(EmptyDatabase)
    IN  [d EXCEPT
            !.users = [u \in Users |-> [d.users[u] EXCEPT !.exists = d.users[u].exists \/ u \in s.users]],
            !.keys = [k \in Keys |-> IF k \in s.keys THEN "active" ELSE d.keys[k]],
            !.owner = s.owner]

Init ==
    /\ \E s \in SetUps : mem = SetUpDatabase(s)
    /\ disk = mem
    /\ alive = TRUE
    /\ req = [t \in Tasks |-> [pc |-> "none", user |-> NoUser, cost |-> 0, n |-> 0]]
    /\ live = {} /\ acked = {} /\ stranded = {}
    /\ count = [saves |-> 0, crashes |-> 0]
    /\ edits = 0

\* The process dies; every request goroutine dies with it.  Workers go on.
Crash ==
    /\ alive /\ count.crashes < MaxCrashes
    /\ alive' = FALSE
    /\ count' = [count EXCEPT !.crashes = @ + 1]
    /\ req' = [t \in Tasks |-> IF req[t].pc = "none" THEN req[t] ELSE [req[t] EXCEPT !.pc = "done"]]
    /\ stranded' = stranded \cup {t \in Tasks : \/ req[t].pc \notin {"none", "done"}
                                                \/ disk.tasks[t].status \in Pending}
    /\ UNCHANGED <<mem, disk, live, acked>>

\* Mutant: a database that cannot be loaded is taken for a new one.
Restart_Empty ==
    /\ ~alive /\ alive' = TRUE
    /\ \E d \in {disk, EmptyDatabase} : mem' = EnsureConfiguredClientKey(d)
    /\ disk' = mem'
    /\ UNCHANGED <<req, live, acked, stranded, count>>

\* NewManager: load, then the Update that ensures the configured key.
Restart ==
    /\ ~alive /\ alive' = TRUE
    /\ mem' = EnsureConfiguredClientKey(disk)
    /\ disk' = mem'
    /\ UNCHANGED <<req, live, acked, stranded, count>>

-----------------------------------------------------------------------------
(* The ledger *)

\* appendLedgerEntry and applyLedgerBalance.
AppendLedgerEntry(d, e) ==
    LET sign == IF e.direction = "debit" THEN -1 ELSE 1
    IN  [d EXCEPT !.ledger = Append(@, e),
                  !.users[e.user].balance = @ + sign * e.amount]

AppendConsumptionLedger(d, a) ==
    LET u == d.tasks[TaskOf(a)].user
    IN  IF ~d.users[u].exists THEN d
        ELSE AppendLedgerEntry(d, [type |-> "consume_compute", user |-> u, report |-> a,
                                   amount |-> d.attempts[a].cost, direction |-> "debit"])

AppendProductionLedger(d, a) ==
    IF d.owner = NoUser THEN d
    ELSE AppendLedgerEntry(d, [type |-> "produce_compute", user |-> d.owner, report |-> a,
                               amount |-> d.attempts[a].cost, direction |-> "credit"])

LedgerExistsForReport(d, a) ==
    \E i \in DOMAIN d.ledger : d.ledger[i].type # "admin_adjustment" /\ d.ledger[i].report = a

\* Mutant: the work is charged at the profile's present cost.
ApplyReportAccounting_PresentCost(d, a, status) ==
    LET e == [d EXCEPT !.attempts[a].cost = d.cost]
    IN  IF status # "completed" \/ e.cost = 0 \/ LedgerExistsForReport(d, a) THEN d
        ELSE [AppendProductionLedger(AppendConsumptionLedger(e, a), a)
                EXCEPT !.attempts = d.attempts]

ApplyReportAccounting(d, a, status) ==
    IF status # "completed" \/ d.attempts[a].cost = 0 \/ LedgerExistsForReport(d, a) THEN d
    ELSE AppendProductionLedger(AppendConsumptionLedger(d, a), a)

\* Mutant: only running tasks hold balance.
PendingComputeCost_RunningOnly(d, u) ==
    LET held(t) == IF d.tasks[t].user = u /\ d.tasks[t].status = "running"
                   THEN d.tasks[t].cost ELSE 0
    IN  MapThenSumSet(held, Tasks)

PendingComputeCost(d, u) ==
    LET held(t) == IF d.tasks[t].user = u /\ d.tasks[t].status \in Pending
                   THEN d.tasks[t].cost ELSE 0
    IN  MapThenSumSet(held, Tasks)

EnsureSufficientAvailableBalance(d, u, cost) ==
    \/ ~Enforce \/ cost <= 0
    \/ d.users[u].balance - PendingComputeCost(d, u) >= cost

-----------------------------------------------------------------------------
(* The admin API *)

\* One edit of a record by an admin, whatever the answer.
Edit(d) ==
    /\ edits < MaxEdits /\ edits' = edits + 1
    /\ \E ok \in BOOLEAN : Update(d, ok)
    /\ UNCHANGED <<alive, req, live, acked, stranded>>

CreateUser(u) ==
    /\ ~mem.users[u].exists
    /\ Edit([mem EXCEPT !.users[u].exists = TRUE])

\* Mutant: updateUser builds the record anew from the request.
UpdateUser_NewRecord(u, disabled) ==
    /\ mem.users[u].exists /\ mem.users[u].disabled # disabled
    /\ Edit([mem EXCEPT !.users[u] = [exists |-> TRUE, disabled |-> disabled, balance |-> 0]])

\* updateUser writes the whole record back, its balance included.
UpdateUser(u, disabled) ==
    /\ mem.users[u].exists /\ mem.users[u].disabled # disabled
    /\ Edit([mem EXCEPT !.users[u].disabled = disabled])

IssueAPIKey(k) ==
    /\ k # ConfiguredKey /\ mem.keys[k] = "none" /\ mem.users[KeyUser[k]].exists
    /\ Edit([mem EXCEPT !.keys[k] = "active"])

RevokeAPIKey(k) ==
    /\ mem.keys[k] # "none" /\ k \notin acked
    /\ edits < MaxEdits /\ edits' = edits + 1
    /\ \E ok \in BOOLEAN :
        /\ Update([mem EXCEPT !.keys[k] = "revoked"], ok)
        /\ acked' = IF ok THEN acked \cup {k} ELSE acked
    /\ UNCHANGED <<alive, req, live, stranded>>

\* Mutant: a negative cost is accepted.
SetProfileComputeCost_AnySign(c) ==
    /\ c # mem.cost
    /\ Edit([mem EXCEPT !.cost = c])

SetProfileComputeCost(c) ==
    /\ c # mem.cost /\ c >= 0
    /\ Edit([mem EXCEPT !.cost = c])

\* upsertAdminNode: the owner of the node every slot belongs to.
SetOwner(u) ==
    /\ mem.users[u].exists /\ mem.owner # u
    /\ Edit([mem EXCEPT !.owner = u])

\* upsertWorkerState: the record the Worker announces replaces the stored one.
\* mergeExistingNode carries over approval, tags, mode and failures, not the owner,
\* of whom a Worker knows nothing.
Register ==
    /\ mem.owner # NoUser
    /\ \E ok \in BOOLEAN : Update([mem EXCEPT !.owner = NoUser], ok)
    /\ UNCHANGED <<alive, req, live, acked, stranded>>

\* adminAdjustmentEntry and storeAdminAdjustment.  A request that was answered
\* with an error may be made again.
Adjust(i) ==
    /\ i \notin acked /\ i.amount # 0 /\ mem.users[i.user].exists
    /\ edits < MaxEdits /\ edits' = edits + 1
    /\ \E ok \in BOOLEAN :
        /\ Update(AppendLedgerEntry(mem,
                    [type |-> "admin_adjustment", user |-> i.user, request |-> i,
                     amount |-> IF i.amount < 0 THEN -i.amount ELSE i.amount,
                     direction |-> IF i.amount < 0 THEN "debit" ELSE "credit"]), ok)
        /\ acked' = IF ok THEN acked \cup {i} ELSE acked
    /\ UNCHANGED <<alive, req, live, stranded>>

-----------------------------------------------------------------------------
(* A request, from its key to its last report *)

Done(t) == [req EXCEPT ![t].pc = "done"]

\* authenticateClient, whose Update records LastUsedAt, then resolveChatProfile:
\* the request keeps the cost it read here.
Authenticate(t, k) ==
    /\ alive /\ req[t].pc = "none"
    /\ mem.keys[k] = "active"
    /\ LET u == KeyUser[k]
       IN  /\ mem.users[u].exists /\ ~mem.users[u].disabled
           /\ \E ok \in BOOLEAN :
               /\ Update(mem, ok)
               /\ req' = IF ok THEN [req EXCEPT ![t] = [@ EXCEPT !.pc = "new", !.user = u,
                                                                 !.cost = mem.cost]]
                         ELSE Done(t)
    /\ UNCHANGED <<alive, live, acked, stranded>>

\* storeNewTask: 402 without the balance, 500 when the save fails.
CreateChatTask(t) ==
    /\ alive /\ req[t].pc = "new"
    /\ IF EnsureSufficientAvailableBalance(mem, req[t].user, req[t].cost)
       THEN \E ok \in BOOLEAN :
            /\ Update([mem EXCEPT !.tasks[t] = [status |-> "queued", user |-> req[t].user,
                                                cost |-> req[t].cost]], ok)
            /\ req' = IF ok THEN [req EXCEPT ![t].pc = "start"] ELSE Done(t)
            /\ stranded' = IF ok THEN stranded ELSE stranded \cup {t}
       ELSE /\ req' = Done(t)
            /\ UNCHANGED <<mem, disk, count, stranded>>
    /\ UNCHANGED <<alive, live, acked>>

Reserved(t, a) ==
    [mem EXCEPT !.tasks[t].status = "running", !.tasks[t].cost = req[t].cost,
                !.attempts[a] = [status |-> "running", cost |-> req[t].cost]]

\* reserveAttemptSlot: a save that fails ends the request with an error.
BeginAttempt(t) ==
    /\ alive /\ req[t].pc = "start" /\ req[t].n < MaxAttempts
    /\ mem.tasks[t].status = "queued"
    /\ \E ok \in BOOLEAN :
        /\ Update(Reserved(t, <<t, req[t].n + 1>>), ok)
        /\ req' = [req EXCEPT ![t].pc = IF ok THEN "dispatch" ELSE "done", ![t].n = @ + 1]
        /\ stranded' = IF ok THEN stranded ELSE stranded \cup {t}
    /\ UNCHANGED <<alive, live, acked>>

Dispatch(t) ==
    /\ alive /\ req[t].pc = "dispatch"
    /\ req' = [req EXCEPT ![t].pc = "wait"]
    /\ live' = live \cup {<<t, req[t].n>>}
    /\ UNCHANGED <<mem, disk, alive, acked, stranded, count>>

\* The session does not take the message: markAttemptFailed queues the task
\* again and the request ends with an error.
DispatchFails(t) ==
    /\ alive /\ req[t].pc = "dispatch"
    /\ \E ok \in BOOLEAN : Update([mem EXCEPT !.tasks[t].status = "queued",
                                              !.attempts[<<t, req[t].n>>].status = "failed"], ok)
    /\ req' = Done(t)
    /\ stranded' = stranded \cup {t}
    /\ UNCHANGED <<alive, live, acked>>

FailTask(d, t) == [d EXCEPT !.tasks[t].status = IF @ \in Terminal THEN @ ELSE "failed"]

\* Mutant: the request gives up and its task stays queued.
NoCapacity_TaskStays(t) ==
    /\ alive /\ req[t].pc = "start"
    /\ req' = Done(t)
    /\ UNCHANGED <<mem, disk, count, alive, live, acked, stranded>>

\* startAttempt at its deadline: failTask ignores the result of its Update.
NoCapacity(t) ==
    /\ alive /\ req[t].pc = "start"
    /\ \E ok \in BOOLEAN : Update(FailTask(mem, t), ok)
    /\ req' = Done(t)
    /\ UNCHANGED <<alive, live, acked, stranded>>

\* cancelTask, by the job endpoint or because the client left.  With gone the
\* goroutine returns; without it, it goes on until a report or startAttempt
\* tells it.
CancelTask(t, gone) ==
    /\ alive /\ req[t].pc \in {"start", "dispatch", "wait"}
    /\ gone => req[t].pc # "dispatch"
    /\ gone \/ mem.tasks[t].status \notin Terminal
    /\ \E ok \in BOOLEAN :
        Update([mem EXCEPT !.tasks[t].status = IF @ \in Terminal THEN @ ELSE "cancelled"], ok)
    /\ req' = IF gone THEN Done(t) ELSE req
    /\ UNCHANGED <<alive, live, acked, stranded>>

\* startAttempt finds the task cancelled.
StartCancelled(t) ==
    /\ alive /\ req[t].pc = "start" /\ mem.tasks[t].status = "cancelled"
    /\ req' = Done(t)
    /\ UNCHANGED <<mem, disk, count, alive, live, acked, stranded>>

\* The request that waits for attempt a reads its outcome: it tries again after
\* a retryable failure and answers otherwise.
Tell(a, retry) ==
    LET t == TaskOf(a)
    IN  IF req[t].pc = "wait" /\ a[2] = req[t].n
        THEN [req EXCEPT ![t].pc = IF retry THEN "start" ELSE "done"]
        ELSE req

\* A queued task whose request was answered long ago is nobody's.
Requeued(a, retry) ==
    IF retry /\ req[TaskOf(a)].pc = "done" THEN stranded \cup {TaskOf(a)} ELSE stranded

\* The connection of a's Worker closes, or the Worker reports the failure of an
\* attempt whose report is yet to come: a running attempt fails, its task is
\* queued, or failed when output was sent, whatever its status was.  When the
\* save fails the closer tells the request all the same, the handler does not.
\* A failure of an attempt that is over already does to its task what a late failed
\* report does (HandleComputeReport), and is left to that.
FailAttempt(a, retry) ==
    /\ alive /\ mem.attempts[a].status = "running"
    /\ \E ok, told \in BOOLEAN :
        /\ ok => told
        /\ Update([mem EXCEPT !.attempts[a].status = "failed",
                              !.tasks[TaskOf(a)].status = IF retry THEN "queued" ELSE "failed"], ok)
        /\ req' = IF told THEN Tell(a, retry) ELSE req
    /\ stranded' = Requeued(a, retry)
    /\ UNCHANGED <<alive, live, acked>>

\* A Worker that lost the attempt, or whose messages were lost, never reports.
Lose(a) ==
    /\ a \in live /\ live' = live \ {a}
    /\ UNCHANGED <<mem, disk, alive, req, acked, stranded, count>>

\* handleComputeReport, up to the slot: an attempt that a crash took out of the
\* database is refused, a report that exists changes nothing.
HandleComputeReport(a, status, retry) ==
    /\ alive /\ a \in live
    /\ retry => status = "failed"
    /\ live' = live \ {a}
    /\ IF mem.attempts[a].status = "none" \/ mem.reports[a] # "none"
       THEN UNCHANGED <<mem, disk, count, req, stranded>>
       ELSE \E ok \in BOOLEAN :
            /\ Update([ApplyReportAccounting(mem, a, status) EXCEPT
                         !.reports[a] = status, !.attempts[a].status = status,
                         !.tasks[TaskOf(a)].status = IF retry THEN "queued" ELSE status], ok)
            /\ req' = IF ok THEN Tell(a, retry) ELSE req
            /\ stranded' = Requeued(a, retry)
    /\ UNCHANGED <<alive, acked>>

-----------------------------------------------------------------------------
AdminEdit ==
    \/ \E u \in Users : CreateUser(u) \/ SetOwner(u) \/ \E b \in BOOLEAN : UpdateUser(u, b)
    \/ \E k \in Keys : IssueAPIKey(k) \/ RevokeAPIKey(k)
    \/ \E c \in Costs : SetProfileComputeCost(c)
    \/ \E i \in Adjustments : Adjust(i)

RequestStep(t) ==
    \/ \E k \in Keys : Authenticate(t, k)
    \/ CreateChatTask(t) \/ BeginAttempt(t) \/ Dispatch(t) \/ DispatchFails(t)
    \/ NoCapacity(t) \/ StartCancelled(t)
    \/ \E gone \in BOOLEAN : CancelTask(t, gone)

WorkerStep(a) ==
    \/ Lose(a)
    \/ \E retry \in BOOLEAN : FailAttempt(a, retry)
    \/ \E retry \in BOOLEAN, status \in {"completed", "failed", "cancelled"} :
         HandleComputeReport(a, status, retry)

Next ==
    \/ AdminEdit
    \/ /\ \/ Crash \/ Restart \/ Register
          \/ \E t \in Tasks : RequestStep(t)
          \/ \E a \in Attempts : WorkerStep(a)
       /\ UNCHANGED edits

Spec == Init /\ [][Next]_vars

-----------------------------------------------------------------------------
(* Properties *)

\* What an entry, and the entries of a ledger together, are worth to a user.
Worth(e, u) == IF e.user # u THEN 0 ELSE IF e.direction = "debit" THEN -e.amount ELSE e.amount

LedgerSum(ledger, u) ==
    LET add(sum, e) == Worth(e, u) + sum
    IN  FoldLeft(add, 0, ledger)

\* "The ledger is the source of truth": the balance cached in a user record is
\* what the user's ledger entries add up to (appendLedgerEntry, updateUser), in
\* memory and on disk, through failed saves, crashes and concurrent edits.
BalanceIsLedger ==
    \A u \in Users : /\ mem.users[u].balance = LedgerSum(mem.ledger, u)
                     /\ disk.users[u].balance = LedgerSum(disk.ledger, u)

EntriesOf(a, type) == {i \in DOMAIN mem.ledger : mem.ledger[i].type = type /\ mem.ledger[i].report = a}

\* applyReportAccounting: an attempt is debited once and at the price its
\* request was admitted with, whatever the profile costs by now, exactly when
\* its stored report is a completed one; the owner's credit is the same amount.
ChargesFollowReports ==
    \A a \in Attempts :
        LET price == mem.attempts[a].cost
            owed == mem.reports[a] = "completed" /\ price > 0
            debits == EntriesOf(a, "consume_compute")
            credits == EntriesOf(a, "produce_compute")
        IN  /\ Cardinality(debits) = IF owed THEN 1 ELSE 0
            /\ Cardinality(credits) <= IF owed THEN 1 ELSE 0
            /\ \A i \in debits \cup credits : mem.ledger[i].amount = req[TaskOf(a)].cost
            /\ \A i \in debits : mem.ledger[i].user = mem.tasks[TaskOf(a)].user

Available(u) == mem.users[u].balance - PendingComputeCost(mem, u)

AdminDebit(u) ==
    /\ Len(mem'.ledger) > Len(mem.ledger)
    /\ LET e == Last(mem'.ledger)
       IN  e.type = "admin_adjustment" /\ e.user = u /\ e.direction = "debit"

\* A task that was over is charged by a late report, or queued again.
LateCharge(u) ==
    \E a \in Attempts : /\ mem.reports[a] # mem'.reports[a]
                        /\ mem.tasks[TaskOf(a)].status \in Terminal
                        /\ mem.tasks[TaskOf(a)].user = u
Revived(u) ==
    \E t \in Tasks : /\ mem.tasks[t].status \in Terminal /\ mem'.tasks[t].status \in Pending
                     /\ mem.tasks[t].user = u

\* With enforcement on, storeNewTask never admits what the user cannot pay: the
\* balance less the cost of pending tasks only becomes negative by an admin's
\* debit or because a task that was already over comes back.
NoOverspending ==
    [][Enforce /\ alive /\ alive' =>
        \A u \in Users : Available(u) >= 0 /\ Available(u)' < 0
            => AdminDebit(u) \/ LateCharge(u) \/ Revived(u)]_vars

\* A pending task holds its user's balance, so somebody must be serving it: no
\* way out of the request handler (failTask, cancelTask, a report) leaves it
\* pending, but for the crashes, failed saves, failed dispatches and late
\* messages that stranded records.
HeldBalanceIsServed ==
    alive => \A t \in Tasks :
        mem.tasks[t].status \in Pending => req[t].pc # "done" \/ t \in stranded

\* Store.Update answers success only after the save: a top-up or a revocation
\* that was answered with success is there after any crash.  The configured key
\* is the exception: every start activates it again.
AcknowledgedIsDurable ==
    /\ \A i \in acked \ Keys :
        \E j \in DOMAIN disk.ledger :
            disk.ledger[j].type = "admin_adjustment" /\ disk.ledger[j].request = i
    /\ \A k \in acked \cap (Keys \ {ConfiguredKey}) : disk.keys[k] = "revoked"

\* The saved ledger is append-only, across restarts too (Store.Update, Load).
LedgerAppendOnly == [][IsPrefix(disk.ledger, disk'.ledger)]_vars
=============================================================================
