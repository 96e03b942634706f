---------------------------- MODULE TaskDispatch ----------------------------
(***************************************************************************)
(* The life of a chat request: the Manager's request goroutines, the       *)
(* scheduler's database transactions, the per-connection readers and       *)
(* closers of the Worker sessions, the two message queues of every         *)
(* connection and the Worker goroutines that execute attempts.             *)
(*                                                                         *)
(* Every action is one critical section of the code: one store.Update, one *)
(* section under Manager.mu or Worker.mu, one channel operation, or a run  *)
(* of those between which no other goroutine could tell the difference.    *)
(* What a goroutine still has to do is its program counter.                *)
(*                                                                         *)
(* Tokens after the first one, lease renewals, acknowledgements, audit     *)
(* records and timestamps are left out: no code reads a lease, and no      *)
(* property tells a second token from a first one.                         *)
(***************************************************************************)
EXTENDS Naturals, FiniteSets, Sequences

CONSTANTS
    Tasks,        \* the chat requests that may be submitted
    Slots,        \* the execution slots of all Workers
    Nodes,        \* the Workers
    Profiles,     \* workload profiles
    NodeOf,       \* the node a slot belongs to
    ProfileOf,    \* the profile a request resolved to
    HomeProfile,  \* the profile every slot is warm with at the start
    Streaming,    \* the requests with "stream": true
    NoTask, NoSlot

CONSTANTS         \* the environment and the bounds of an instance
    MayLeave,     \* requests whose client may disconnect
    MayCancel,    \* requests whose job may be cancelled
    Flaky,        \* nodes whose connection may break or miss heartbeats
    Faulty,       \* slots whose runtime or artifacts may fail
    Overflow,     \* TRUE when the 256-message send buffers may be full
    Plans,        \* the sets of slots a placement plan may want warm
    QueueLimit,   \* ManagerConfig.QueueLimit
    Threshold,    \* ManagerConfig.QuarantineThreshold
    MaxAttempts,  \* bound: attempts of one task
    MaxSessions,  \* bound: connections of one node
    MaxLoads      \* bound: profile assignments executed by one slot

Sessions == 1..MaxSessions
Attempts == Tasks \X (1..MaxAttempts)

TaskOf(a) == a[1]

ASSUME ConstantsAssumption ==
    /\ IsFiniteSet(Tasks)
    /\ NodeOf \in [Slots -> Nodes]
    /\ ProfileOf \in [Tasks -> Profiles]
    /\ HomeProfile \in [Slots -> Profiles]
    /\ Streaming \subseteq Tasks
    /\ MayLeave \subseteq Tasks
    /\ MayCancel \subseteq Tasks
    /\ Flaky \subseteq Nodes
    /\ Faulty \subseteq Slots
    /\ Overflow \in BOOLEAN
    /\ Plans \subseteq SUBSET Slots
    /\ NoTask \notin Tasks
    /\ NoSlot \notin Slots

ASSUME BoundsAssumption ==
    /\ QueueLimit \in Nat
    /\ Threshold \in Nat \ {0}
    /\ MaxAttempts \in Nat \ {0}
    /\ MaxSessions \in Nat \ {0}
    /\ MaxLoads \in Nat

-----------------------------------------------------------------------------
(* Values *)

TaskStatus == {"none", "queued", "running", "completed", "failed", "cancelled"}
Terminal == {"completed", "failed", "cancelled"}
AttemptStatus == TaskStatus \ {"queued"}
SlotState == {"idle", "warming", "ready", "serving", "error", "unavailable"}

\* The failure reasons the quarantine counters are kept by.
Reasons == {"worker_disconnected", "runtime_error",
            "admission_check_failed", "artifact_digest_mismatch"}

AttemptRecord == [status : AttemptStatus, slot : Slots \cup {NoSlot}, first : BOOLEAN]
SlotRecord == [state : SlotState, active : Tasks \cup {NoTask}, accepts : BOOLEAN,
               quarantined : BOOLEAN, profile : Profiles]
WorkerSlot == [state : SlotState, active : Tasks \cup {NoTask}, profile : Profiles]
NodeRecord == [online : BOOLEAN, connected : {0} \cup Sessions]
LoadRecord == [to : SUBSET Profiles, count : 0..MaxLoads]

\* Worker messages about an attempt, and the stream events they become.  A
\* failure or a failed report is "_retry" when it carries CanRetry, which the
\* Worker sets exactly when no output was sent, and "_final" otherwise.
Failures == {"failed_retry", "failed_final"}
Reports == {"report_completed", "report_retry", "report_final", "report_cancelled"}
StreamEvents == {"token"} \cup Failures \cup Reports

AttemptMessage == [kind : {"started"} \cup StreamEvents, att : Attempts,
                   reason : Reasons \cup {"none"}]
SlotMessage == [kind : {"slot_state"}, slot : Slots, value : WorkerSlot]
StateMessage == [kind : {"full_state"}, slots : [Slots -> WorkerSlot]]  \* hello too
UpMessage == AttemptMessage \cup SlotMessage \cup StateMessage

DownMessage == [kind : {"execute_task", "cancel_task"}, atts : SUBSET Attempts]

ReaderPC == {"off", "idle", "swap", "join", "push", "replan"}
ConnState == {"none", "open", "closing", "publishing", "closed"}
RequestPC == {"none", "start", "reserve", "dispatch", "wait", "done"}
ExecPC == {"none", "spawned", "active", "admitted", "serving", "failing", "done"}
Answers == {"none", "busy", "ok", "error", "cancelled"}

ReaderRecord == [pc : ReaderPC, old : {0} \cup Sessions]
FailureRecord == [att : Attempts, kind : Failures]
RequestRecord == [pc : RequestPC, slot : Slots \cup {NoSlot}, sess : {0} \cup Sessions,
                  n : 0..MaxAttempts]
ExecRecord == [pc : ExecPC, first : BOOLEAN, cancelled : BOOLEAN,
               recovery : {"off", "pending", "restarting"}]

-----------------------------------------------------------------------------
VARIABLES
    \* the Manager's database
    task,         \* Task.Status
    failedSlots,  \* Task.FailedSlots
    attempt,      \* Attempt: Status, SlotID, FirstOutputSent
    slot,         \* Slot
    failures,     \* Slot.FailureCounters
    node,         \* Node: State = online, ConnectedSession
    reports,      \* attempts with a stored compute report
    charged,      \* attempts with ledger entries
    \* the Manager's memory
    session,      \* Manager.sessions, 0 for none
    conn,         \* the life of each workerSession
    registered,   \* sessions whose nodeID is set
    reader,       \* readLoop of each session: pc and the session it replaces
    pending,      \* disconnect failures a closer has yet to publish
    streams,      \* Manager.streams
    events,       \* activeAttempt.events
    req,          \* the request goroutine: pc, chosen slot and session, attempts
    resp,         \* what the client was told
    gone,         \* clients that disconnected
    jobCancels,   \* tasks whose job cancel endpoint was called
    shown,        \* attempts with output written to a streaming client
    \* the connections
    up, down,     \* FIFO messages to and from the Manager, per session
    \* the Workers
    wsess,        \* the session a Worker uses, 0 when disconnected
    greeting,     \* hello and full_state still to be sent on it
    wslot,        \* Worker.slots
    exec,         \* executeTask goroutines
    loading       \* assignment goroutines: target profile, if running, and count

db == <<task, failedSlots, attempt, slot, failures, node, reports, charged>>
sessVars == <<session, conn, registered, reader, pending>>
reqVars == <<streams, events, req, resp, gone, jobCancels, shown>>
netVars == <<up, down>>
workerVars == <<wsess, greeting, wslot, exec, loading>>
vars == <<db, sessVars, reqVars, netVars, workerVars>>

DbTypeOK ==
    /\ task \in [Tasks -> TaskStatus]
    /\ failedSlots \in [Tasks -> SUBSET Slots]
    /\ attempt \in [Attempts -> AttemptRecord]
    /\ slot \in [Slots -> SlotRecord]
    /\ failures \in [Slots -> [Reasons -> Nat]]
    /\ node \in [Nodes -> NodeRecord]
    /\ reports \subseteq Attempts
    /\ charged \subseteq Attempts

SessionTypeOK ==
    /\ session \in [Nodes -> {0} \cup Sessions]
    /\ conn \in [Nodes -> [Sessions -> ConnState]]
    /\ registered \in [Nodes -> SUBSET Sessions]
    /\ reader \in [Nodes -> [Sessions -> ReaderRecord]]
    /\ pending \in [Nodes -> [Sessions -> SUBSET FailureRecord]]

RequestTypeOK ==
    /\ streams \subseteq Attempts
    /\ events \in [Attempts -> Seq(StreamEvents)]
    /\ req \in [Tasks -> RequestRecord]
    /\ resp \in [Tasks -> Answers]
    /\ gone \subseteq Tasks
    /\ jobCancels \subseteq Tasks
    /\ shown \subseteq Attempts

NetTypeOK ==
    /\ up \in [Nodes -> [Sessions -> Seq(UpMessage)]]
    /\ down \in [Nodes -> [Sessions -> Seq(DownMessage)]]

WorkerTypeOK ==
    /\ wsess \in [Nodes -> {0} \cup Sessions]
    /\ greeting \in [Nodes -> 0..2]
    /\ wslot \in [Slots -> WorkerSlot]
    /\ exec \in [Attempts -> ExecRecord]
    /\ loading \in [Slots -> LoadRecord]

TypeOK == DbTypeOK /\ SessionTypeOK /\ RequestTypeOK /\ NetTypeOK /\ WorkerTypeOK

-----------------------------------------------------------------------------
(* Initial state: every Worker registered on its first session, its greeting *)
(* handled and its slots warm; no request yet.                               *)

HomeSlot(s) == [state |-> "ready", active |-> NoTask, profile |-> HomeProfile[s]]

Init ==
    /\ task = [t \in Tasks |-> "none"]
    /\ failedSlots = [t \in Tasks |-> {}]
    /\ attempt = [a \in Attempts |-> [status |-> "none", slot |-> NoSlot, first |-> FALSE]]
    /\ slot = [s \in Slots |-> [state |-> "ready", active |-> NoTask, accepts |-> TRUE,
                                quarantined |-> FALSE, profile |-> HomeProfile[s]]]
    /\ failures = [s \in Slots |-> [r \in Reasons |-> 0]]
    /\ node = [n \in Nodes |-> [online |-> TRUE, connected |-> 1]]
    /\ reports = {}
    /\ charged = {}
    /\ session = [n \in Nodes |-> 1]
    /\ conn = [n \in Nodes |-> [e \in Sessions |-> IF e = 1 THEN "open" ELSE "none"]]
    /\ registered = [n \in Nodes |-> {1}]
    /\ reader = [n \in Nodes |-> [e \in Sessions |->
                    [pc |-> IF e = 1 THEN "idle" ELSE "off", old |-> 0]]]
    /\ pending = [n \in Nodes |-> [e \in Sessions |-> {}]]
    /\ streams = {}
    /\ events = [a \in Attempts |-> <<>>]
    /\ req = [t \in Tasks |-> [pc |-> "none", slot |-> NoSlot, sess |-> 0, n |-> 0]]
    /\ resp = [t \in Tasks |-> "none"]
    /\ gone = {}
    /\ jobCancels = {}
    /\ shown = {}
    /\ up = [n \in Nodes |-> [e \in Sessions |-> <<>>]]
    /\ down = [n \in Nodes |-> [e \in Sessions |-> <<>>]]
    /\ wsess = [n \in Nodes |-> 1]
    /\ greeting = [n \in Nodes |-> 0]
    /\ wslot = [s \in Slots |-> HomeSlot(s)]
    /\ exec = [a \in Attempts |-> [pc |-> "none", first |-> FALSE, cancelled |-> FALSE,
                                   recovery |-> "off"]]
    /\ loading = [s \in Slots |-> [to |-> {}, count |-> 0]]

-----------------------------------------------------------------------------
(* Transactions and lookups shared by several operations *)

Current(t) == <<t, req[t].n>>
Exists(a) == attempt[a].status # "none"
NodeOfAttempt(a) == NodeOf[attempt[a].slot]
Running(t) == {a \in Attempts : TaskOf(a) = t /\ attempt[a].status = "running"}

\* The slot record after k more failures for reason r.
RecordSlotFailure(s, record, r, k) ==
    IF k > 0 /\ failures[s][r] + k >= Threshold
    THEN [record EXCEPT !.quarantined = TRUE, !.accepts = FALSE]
    ELSE record

CountFailure(s, r) == failures' = [failures EXCEPT ![s][r] = @ + 1]

FailureCount(s) == failures[s]["worker_disconnected"] + failures[s]["runtime_error"]
    + failures[s]["admission_check_failed"] + failures[s]["artifact_digest_mismatch"]

\* Mutant: the failed attempts are looked up, Task.FailedSlots is not.
FailedSlotsForTask_NoTaskRecord(t) ==
    {attempt[a].slot : a \in {b \in Attempts : TaskOf(b) = t /\ attempt[b].status = "failed"}}

FailedSlotsForTask(t) ==
    failedSlots[t] \cup {attempt[a].slot : a \in {b \in Attempts :
                            TaskOf(b) = t /\ attempt[b].status = "failed"}}

SlotReadyForProfile(s, t) ==
    /\ slot[s].profile = ProfileOf[t]
    /\ slot[s].state = "ready"
    /\ slot[s].active = NoTask
    /\ slot[s].accepts
    /\ ~slot[s].quarantined
    /\ s \notin FailedSlotsForTask(t)
    /\ node[NodeOf[s]].online

Reachable(t) == {s \in Slots : SlotReadyForProfile(s, t) /\ session[NodeOf[s]] # 0}

\* cancelAttempt for a set of attempts: one cancel_task per node with a live
\* session.  A full buffer or a closed session loses it.
SendCancels(atts) ==
    \E delivered \in IF Overflow THEN SUBSET Nodes ELSE {Nodes} :
        down' = [n \in Nodes |-> [e \in Sessions |->
            LET here == {a \in atts : NodeOfAttempt(a) = n}
            IN  IF /\ here # {} /\ n \in delivered
                   /\ session[n] = e /\ conn[n][e] = "open"
                THEN Append(down[n][e], [kind |-> "cancel_task", atts |-> here])
                ELSE down[n][e]]]

\* cancelTask: mark the task, then cancel its running attempts on the Workers.
CancelTask(t, more) ==
    /\ task' = [task EXCEPT ![t] = IF @ \in Terminal THEN @ ELSE "cancelled"]
    /\ SendCancels(Running(t) \cup more)

-----------------------------------------------------------------------------
(* The request goroutine: handleChatCompletions, collectChat, streamChat *)

InQueue == {t \in Tasks : req[t].pc \notin {"none", "done"}}

\* Mutant: no return after the answer, and the loop goes on.
Finish_NoReturn(t, answer) ==
    /\ req' = [req EXCEPT ![t] = [@ EXCEPT !.pc = "start", !.slot = NoSlot, !.sess = 0]]
    /\ resp' = [resp EXCEPT ![t] = answer]

Finish(t, answer) ==
    /\ req' = [req EXCEPT ![t] = [@ EXCEPT !.pc = "done", !.slot = NoSlot, !.sess = 0]]
    /\ resp' = [resp EXCEPT ![t] = answer]

\* acquireQueue and createChatTask.
Submit(t) ==
    /\ req[t].pc = "none"
    /\ IF Cardinality(InQueue) < QueueLimit
       THEN /\ req' = [req EXCEPT ![t].pc = "start"]
            /\ task' = [task EXCEPT ![t] = "queued"]
            /\ UNCHANGED resp
       ELSE /\ Finish(t, "busy")
            /\ UNCHANGED task
    /\ UNCHANGED <<failedSlots, attempt, slot, failures, node, reports, charged, sessVars,
                   streams, events, gone, jobCancels, shown, netVars, workerVars>>

\* selectReadySlot: the candidate with the fewest failures whose node has a
\* session.  Ties are broken by time in the code, by choice here.
SelectSlot(t) ==
    /\ req[t].pc = "start" /\ req[t].n < MaxAttempts
    /\ t \notin gone /\ task[t] # "cancelled"
    /\ \E s \in Reachable(t) :
        /\ \A other \in Reachable(t) : FailureCount(s) <= FailureCount(other)
        /\ req' = [req EXCEPT ![t] = [@ EXCEPT !.pc = "reserve", !.slot = s,
                                               !.sess = session[NodeOf[s]]]]
    /\ UNCHANGED <<db, sessVars, streams, events, resp, gone, jobCancels, shown,
                   netVars, workerVars>>

\* Mutant: startAttempt without a deadline.
NoCapacity_NoDeadline(t) == FALSE

\* startAttempt finds no candidate and its StreamWait deadline has passed.
NoCapacity(t) ==
    /\ req[t].pc = "start"
    /\ t \notin gone /\ task[t] # "cancelled"
    /\ Reachable(t) = {}
    /\ task' = [task EXCEPT ![t] = IF @ \in Terminal THEN @ ELSE "failed"]
    /\ Finish(t, "error")
    /\ UNCHANGED <<failedSlots, attempt, slot, failures, node, reports, charged, sessVars,
                   streams, events, gone, jobCancels, shown, netVars, workerVars>>

\* startAttempt returns a cancellation error.
StartCancelled(t) ==
    /\ req[t].pc = "start"
    /\ t \in gone \/ task[t] = "cancelled"
    /\ CancelTask(t, {})
    /\ Finish(t, "cancelled")
    /\ UNCHANGED <<failedSlots, attempt, slot, failures, node, reports, charged, sessVars,
                   streams, events, gone, jobCancels, shown, up, workerVars>>

SlotReservable(s, t) ==
    /\ slot[s].state = "ready" /\ slot[s].active = NoTask
    /\ slot[s].accepts /\ ~slot[s].quarantined
    /\ slot[s].profile = ProfileOf[t]

\* reserveAttemptInDB.  errSlotUnavailable goes back to the loop of
\* startAttempt, errTaskCancelled ends the request.
ReserveAttempt(t) ==
    LET s == req[t].slot
        a == <<t, req[t].n + 1>>
    IN
    /\ req[t].pc = "reserve"
    /\ \/ /\ task[t] = "queued" /\ SlotReservable(s, t)
          /\ slot' = [slot EXCEPT ![s] = [@ EXCEPT !.state = "serving", !.active = t,
                                                   !.accepts = FALSE]]
          /\ task' = [task EXCEPT ![t] = "running"]
          /\ attempt' = [attempt EXCEPT ![a] = [status |-> "running", slot |-> s,
                                                first |-> FALSE]]
          /\ req' = [req EXCEPT ![t] = [@ EXCEPT !.pc = "dispatch", !.n = req[t].n + 1]]
          /\ UNCHANGED <<resp, down>>
       \/ /\ task[t] # "cancelled"
          /\ ~(task[t] = "queued" /\ SlotReservable(s, t))
          /\ req' = [req EXCEPT ![t] = [@ EXCEPT !.pc = "start", !.slot = NoSlot, !.sess = 0]]
          /\ UNCHANGED <<task, slot, attempt, resp, down>>
       \/ /\ task[t] = "cancelled"
          /\ CancelTask(t, {})
          /\ Finish(t, "cancelled")
          /\ UNCHANGED <<slot, attempt>>
    /\ UNCHANGED <<failedSlots, failures, node, reports, charged, sessVars,
                   streams, events, gone, jobCancels, shown, up, workerVars>>

\* Mutant: an attempt that could not be dispatched is deleted.
MarkAttemptFailed_Deletes(a) ==
    LET s == attempt[a].slot
        t == TaskOf(a)
    IN
    /\ attempt' = [attempt EXCEPT ![a] = [status |-> "none", slot |-> NoSlot, first |-> FALSE]]
    /\ slot' = [slot EXCEPT ![s] =
          RecordSlotFailure(s, [@ EXCEPT !.state = "ready", !.active = NoTask],
                            "worker_disconnected", 1)]
    /\ CountFailure(s, "worker_disconnected")
    /\ failedSlots' = [failedSlots EXCEPT ![t] = @ \cup {s}]
    /\ task' = [task EXCEPT ![t] = "queued"]

\* markAttemptFailed after an enqueue that returned false: the slot is freed
\* but keeps AcceptsNew = FALSE, the task is queued again.
MarkAttemptFailed(a) ==
    LET s == attempt[a].slot
        t == TaskOf(a)
    IN
    /\ attempt' = [attempt EXCEPT ![a] = [@ EXCEPT !.status = "failed", !.first = FALSE]]
    /\ slot' = [slot EXCEPT ![s] =
          RecordSlotFailure(s, [@ EXCEPT !.state = "ready", !.active = NoTask],
                            "worker_disconnected", 1)]
    /\ CountFailure(s, "worker_disconnected")
    /\ failedSlots' = [failedSlots EXCEPT ![t] = @ \cup {s}]
    /\ task' = [task EXCEPT ![t] = "queued"]

\* registerStream and dispatchAttempt.  On a closed session both cases of the
\* select in workerSession.enqueue are ready and Go picks either one: the
\* message may be accepted by a buffer that nobody empties any more.
DispatchAttempt(t) ==
    LET a == Current(t)
        n == NodeOf[req[t].slot]
        e == req[t].sess
    IN
    /\ req[t].pc = "dispatch"
    /\ \/ /\ conn[n][e] = "open"
          /\ down' = [down EXCEPT ![n][e] = Append(@, [kind |-> "execute_task", atts |-> {a}])]
          /\ streams' = streams \cup {a}
          /\ req' = [req EXCEPT ![t].pc = "wait"]
          /\ UNCHANGED <<task, failedSlots, attempt, slot, failures, resp>>
       \/ /\ conn[n][e] # "open"
          /\ streams' = streams \cup {a}
          /\ req' = [req EXCEPT ![t].pc = "wait"]
          /\ UNCHANGED <<task, failedSlots, attempt, slot, failures, resp, down>>
       \/ /\ Overflow \/ conn[n][e] # "open"
          /\ MarkAttemptFailed(a)
          /\ Finish(t, "error")
          /\ UNCHANGED <<streams, down>>
    /\ UNCHANGED <<node, reports, charged, sessVars, events, gone, jobCancels, shown,
                   up, workerVars>>

\* cleanupAttempt: the stream is unregistered, its channel dropped.
Cleanup(a) ==
    /\ streams' = streams \ {a}
    /\ events' = [events EXCEPT ![a] = <<>>]

\* A failure is retried when it says so; a failed report only by collectChat.
Retries(t, event) ==
    event = "failed_retry" \/ (event = "report_retry" /\ t \notin Streaming)

\* collectAttempt and streamAttempt receive an event.  When the request ends
\* the deferred cancel of its context races with cancelWorkerOnContext, which
\* may or may not see it and send a cancel for the attempt.
TakeEvent(t) ==
    LET a == Current(t)
        event == Head(events[a])
    IN
    /\ req[t].pc = "wait"
    /\ events[a] # <<>>
    /\ \/ /\ event = "token"
          /\ events' = [events EXCEPT ![a] = Tail(@)]
          /\ shown' = IF t \in Streaming THEN shown \cup {a} ELSE shown
          /\ UNCHANGED <<streams, req, resp, down>>
       \/ /\ Retries(t, event)
          /\ Cleanup(a)
          /\ req' = [req EXCEPT ![t] = [@ EXCEPT !.pc = "start", !.slot = NoSlot, !.sess = 0]]
          /\ IF t \in gone THEN SendCancels({a}) ELSE UNCHANGED down
          /\ UNCHANGED <<resp, shown>>
       \/ /\ event # "token" /\ ~Retries(t, event)
          /\ Cleanup(a)
          /\ Finish(t, IF event = "report_completed" THEN "ok" ELSE "error")
          /\ SendCancels({a}) \/ UNCHANGED down
          /\ UNCHANGED shown
    /\ UNCHANGED <<db, sessVars, gone, jobCancels, up, workerVars>>

\* Mutant: the context is looked at only after an event was received.
ContextDone_AfterEvent(t) ==
    /\ req[t].pc = "wait"
    /\ t \in gone /\ events[Current(t)] # <<>>
    /\ Cleanup(Current(t))
    /\ CancelTask(t, {Current(t)})
    /\ Finish(t, "cancelled")
    /\ UNCHANGED <<failedSlots, attempt, slot, failures, node, reports, charged, sessVars,
                   gone, jobCancels, shown, up, workerVars>>

\* The context of a waiting request is done.
ContextDone(t) ==
    /\ req[t].pc = "wait"
    /\ t \in gone
    /\ Cleanup(Current(t))
    /\ CancelTask(t, {Current(t)})
    /\ Finish(t, "cancelled")
    /\ UNCHANGED <<failedSlots, attempt, slot, failures, node, reports, charged, sessVars,
                   gone, jobCancels, shown, up, workerVars>>

\* The client of an unfinished request disconnects.
ClientGone(t) ==
    /\ t \in MayLeave \ gone
    /\ req[t].pc \notin {"none", "done"}
    /\ gone' = gone \cup {t}
    /\ UNCHANGED <<db, sessVars, streams, events, req, resp, jobCancels, shown,
                   netVars, workerVars>>

\* POST /v1/jobs/<id>/cancel, once per task.
CancelJob(t) ==
    /\ t \in MayCancel \ jobCancels
    /\ task[t] # "none"
    /\ jobCancels' = jobCancels \cup {t}
    /\ CancelTask(t, {})
    /\ UNCHANGED <<failedSlots, attempt, slot, failures, node, reports, charged, sessVars,
                   streams, events, req, resp, gone, shown, up, workerVars>>

-----------------------------------------------------------------------------
(* Worker sessions: workerSession.close, the heartbeat monitor *)

SlotDrainable(record) ==
    record.state = "ready" /\ record.active = NoTask /\ ~record.quarantined

\* applyPlacementDrainState, the part of replanAndDispatch that changes slots,
\* for the slots some placement plan wants warm.  The assign_profile messages
\* of the plan are Assign.
ReplanAndDispatch(slots) ==
    {[s \in Slots |-> IF SlotDrainable(slots[s])
                      THEN [slots[s] EXCEPT !.accepts = s \in desired] ELSE slots[s]] :
        desired \in Plans}

\* What follows the last step of a close: the heartbeat monitor replans, the
\* other closers do not.
AfterClose(slots) == {slots} \cup ReplanAndDispatch(slots)

\* Only a connection that another one can follow breaks: the last one of the
\* bound stays up.
MayBreak(n, e) == n \in Flaky /\ e < MaxSessions

\* The first half of closeWithFlapEvent: the done channel is closed and the
\* session leaves Manager.sessions.  Nothing else happens for a session that
\* has not registered a node.
BeginClose(n, e) ==
    /\ conn' = [conn EXCEPT ![n][e] = IF e \in registered[n] THEN "closing" ELSE "closed"]
    /\ session' = [session EXCEPT ![n] =
                      IF e \in registered[n] /\ @ = e THEN 0 ELSE @]

\* Closed by the write loop or by the heartbeat monitor.  Both meet registered
\* sessions only: the monitor takes them from Manager.sessions, and nothing but
\* an error reply is written before the acknowledgement of the greeting.
CloseSession(n, e) ==
    /\ MayBreak(n, e) /\ e \in registered[n]
    /\ conn[n][e] = "open"
    /\ BeginClose(n, e)
    /\ UNCHANGED <<db, registered, reader, pending, reqVars, netVars, workerVars>>

\* readLoop ends on a read error, drops what was not read and closes the session.
ReaderStop(n, e) ==
    /\ reader[n][e].pc = "idle"
    /\ MayBreak(n, e) \/ conn[n][e] # "open" \/ wsess[n] # e
    /\ reader' = [reader EXCEPT ![n][e].pc = "off"]
    /\ up' = [up EXCEPT ![n][e] = <<>>]
    /\ IF conn[n][e] = "open" THEN BeginClose(n, e) ELSE UNCHANGED <<conn, session>>
    /\ UNCHANGED <<db, registered, pending, reqVars, down, workerVars>>

\* markDisconnectedNode on the slots of n.
Disconnected(s) ==
    IF slot[s].state # "serving"
    THEN [slot[s] EXCEPT !.state = "unavailable", !.accepts = FALSE]
    ELSE slot[s]

\* failRunningAttempts.  When several attempts of one task fail at once the
\* last one in map order decides whether the task is queued again.
FailRunningAttempts(n, e) ==
    LET failed == {a \in Attempts : attempt[a].status = "running" /\ NodeOfAttempt(a) = n}
        failedOf(t) == {a \in failed : TaskOf(a) = t}
        failedOn(s) == {a \in failed : attempt[a].slot = s}
        owner == node[n].connected \in {e, 0}
        slots == [s \in Slots |->
          IF failedOn(s) # {}
          THEN RecordSlotFailure(s, [slot[s] EXCEPT !.state = "unavailable", !.active = NoTask,
                                                    !.accepts = FALSE],
                                 "worker_disconnected", Cardinality(failedOn(s)))
          ELSE IF owner /\ NodeOf[s] = n THEN Disconnected(s) ELSE slot[s]]
    IN
    /\ conn[n][e] = "closing"
    /\ node' = IF owner THEN [node EXCEPT ![n] = [online |-> FALSE, connected |-> 0]] ELSE node
    /\ attempt' = [a \in Attempts |->
          IF a \in failed THEN [attempt[a] EXCEPT !.status = "failed"] ELSE attempt[a]]
    /\ slot' \in IF failed = {} THEN AfterClose(slots) ELSE {slots}
    /\ failures' = [s \in Slots |->
          [failures[s] EXCEPT !["worker_disconnected"] = @ + Cardinality(failedOn(s))]]
    /\ failedSlots' = [t \in Tasks |->
          failedSlots[t] \cup {attempt[a].slot : a \in failedOf(t)}]
    /\ \E requeued \in SUBSET {t \in Tasks : \E a \in failedOf(t) : ~attempt[a].first} :
          /\ \A t \in Tasks \ requeued : failedOf(t) # {} => \E a \in failedOf(t) : attempt[a].first
          /\ task' = [t \in Tasks |-> IF failedOf(t) = {} THEN task[t]
                                      ELSE IF t \in requeued THEN "queued" ELSE "failed"]
    /\ pending' = [pending EXCEPT ![n][e] =
          {[att |-> a, kind |-> IF attempt[a].first THEN "failed_final" ELSE "failed_retry"] :
              a \in failed}]
    /\ conn' = [conn EXCEPT ![n][e] = IF failed = {} THEN "closed" ELSE "publishing"]
    /\ UNCHANGED <<reports, charged, session, registered, reader, reqVars, netVars,
                   workerVars>>

\* An event reaches the request only while its stream is registered.
Push(a, event) ==
    events' = IF a \in streams THEN [events EXCEPT ![a] = Append(@, event)] ELSE events

\* publishWorkerDisconnectFailures, one attempt at a time.
PublishFailure(n, e) ==
    /\ conn[n][e] = "publishing"
    /\ \E failure \in pending[n][e] :
          /\ Push(failure.att, failure.kind)
          /\ pending' = [pending EXCEPT ![n][e] = @ \ {failure}]
          /\ conn' = [conn EXCEPT ![n][e] =
                         IF pending[n][e] = {failure} THEN "closed" ELSE @]
          /\ slot' \in IF pending[n][e] = {failure} THEN AfterClose(slot) ELSE {slot}
    /\ UNCHANGED <<task, failedSlots, attempt, failures, node, reports, charged, session,
                   registered, reader, streams, req, resp, gone, jobCancels, shown,
                   netVars, workerVars>>

\* expireWorkerHeartbeats on an online node without a session: markOfflineWorkers
\* and a replan.
MarkOffline(n) ==
    /\ n \in Flaky
    /\ node[n].online /\ session[n] = 0
    /\ node' = [node EXCEPT ![n] = [online |-> FALSE, connected |-> 0]]
    /\ slot' \in ReplanAndDispatch(
          [s \in Slots |-> IF NodeOf[s] = n THEN Disconnected(s) ELSE slot[s]])
    /\ UNCHANGED <<task, failedSlots, attempt, failures, reports, charged,
                   session, conn, registered, reader, pending, reqVars, netVars, workerVars>>

\* clearExpiredQuarantines: the failure counters stay.
ClearQuarantine(s) ==
    /\ slot[s].quarantined
    /\ slot' = [slot EXCEPT ![s] = [@ EXCEPT !.quarantined = FALSE,
          !.accepts = IF slot[s].state = "ready" /\ slot[s].active = NoTask THEN TRUE ELSE slot[s].accepts]]
    /\ UNCHANGED <<task, failedSlots, attempt, failures, node, reports, charged, sessVars, reqVars,
                   netVars, workerVars>>

-----------------------------------------------------------------------------
(* The reader of a session handles the message at the head of its queue,    *)
(* which stays there until every step of the handler is done.               *)

Message(n, e) == Head(up[n][e])

Receives(n, e, kinds) ==
    /\ reader[n][e].pc = "idle"
    /\ up[n][e] # <<>>
    /\ Message(n, e).kind \in kinds
    /\ e \in registered[n] \/ kinds = {"full_state"}

ReaderAt(n, e, pc) == reader' = [reader EXCEPT ![n][e].pc = pc]

NextMessage(n, e) ==
    /\ ReaderAt(n, e, "idle")
    /\ up' = [up EXCEPT ![n][e] = Tail(@)]

\* validateWorkerEnvelopeSession refuses what precedes the greeting.
RefuseUnregistered(n, e) ==
    /\ reader[n][e].pc = "idle"
    /\ up[n][e] # <<>>
    /\ e \notin registered[n] /\ Message(n, e).kind # "full_state"
    /\ up' = [up EXCEPT ![n][e] = Tail(@)]
    /\ UNCHANGED <<db, sessVars, reqVars, down, workerVars>>

\* handleWorkerHeartbeat: the node is online again, whatever marked it offline.
HandleHeartbeat(n, e) ==
    /\ reader[n][e].pc = "idle" /\ e \in registered[n]
    /\ ~node[n].online
    /\ node' = [node EXCEPT ![n].online = TRUE]
    /\ UNCHANGED <<task, failedSlots, attempt, slot, failures, reports, charged, sessVars, reqVars,
                   netVars, workerVars>>

\* Mutant: the reported slots replace the stored ones, failure state included.
UpsertWorkerState_ForgetsFailures(n, e) ==
    /\ Receives(n, e, {"full_state"})
    /\ node' = [node EXCEPT ![n] = [online |-> TRUE, connected |-> e]]
    /\ slot' = [s \in Slots |->
          IF NodeOf[s] # n THEN slot[s]
          ELSE LET said == Message(n, e).slots[s] IN
               [state |-> said.state, active |-> said.active, profile |-> said.profile,
                quarantined |-> FALSE, accepts |-> said.state = "ready"]]
    /\ ReaderAt(n, e, "swap")
    /\ UNCHANGED <<task, failedSlots, attempt, failures, reports, charged,
                   session, conn, registered, pending, reqVars, netVars, workerVars>>

\* upsertWorkerState, the transaction: the Worker's word on its slots replaces
\* the Manager's, except for the failure state.
UpsertWorkerState(n, e) ==
    /\ Receives(n, e, {"full_state"})
    /\ node' = [node EXCEPT ![n] = [online |-> TRUE, connected |-> e]]
    /\ slot' = [s \in Slots |->
          IF NodeOf[s] # n THEN slot[s]
          ELSE LET said == Message(n, e).slots[s] IN
               [state |-> said.state, active |-> said.active, profile |-> said.profile,
                quarantined |-> slot[s].quarantined,
                accepts |-> said.state = "ready" /\ ~slot[s].quarantined]]
    /\ ReaderAt(n, e, "swap")
    /\ UNCHANGED <<task, failedSlots, attempt, failures, reports, charged,
                   session, conn, registered, pending, reqVars, netVars, workerVars>>

\* upsertWorkerState, the session map: the reader closes the session it replaces.
SwapSession(n, e) ==
    LET old == session[n] IN
    /\ reader[n][e].pc = "swap"
    /\ registered' = [registered EXCEPT ![n] = @ \cup {e}]
    /\ session' = [session EXCEPT ![n] = e]
    /\ reader' = [reader EXCEPT ![n][e] = [pc |-> IF old \in {0, e} THEN "replan" ELSE "join",
                                           old |-> IF old = e THEN 0 ELSE old]]
    /\ conn' = IF old \in {0, e} \/ conn[n][old] # "open" THEN conn
               ELSE [conn EXCEPT ![n][old] = "closing"]
    /\ UNCHANGED <<db, pending, reqVars, netVars, workerVars>>

\* old.close() returns when the close of the old session is complete.
JoinClose(n, e) ==
    /\ reader[n][e].pc = "join"
    /\ conn[n][reader[n][e].old] = "closed"
    /\ reader' = [reader EXCEPT ![n][e] = [pc |-> "replan", old |-> 0]]
    /\ UNCHANGED <<db, session, conn, registered, pending, reqVars, netVars, workerVars>>

\* The replan at the end of a handler.
Replan(n, e) ==
    /\ reader[n][e].pc = "replan"
    /\ slot' \in ReplanAndDispatch(slot)
    /\ NextMessage(n, e)
    /\ UNCHANGED <<task, failedSlots, attempt, failures, node, reports, charged,
                   session, conn, registered, pending, reqVars, down, workerVars>>

\* handleWorkerSlotState.
HandleSlotState(n, e) ==
    LET s == Message(n, e).slot
        said == Message(n, e).value
    IN
    /\ Receives(n, e, {"slot_state"})
    /\ slot' = [slot EXCEPT ![s] = [@ EXCEPT !.state = said.state, !.active = said.active,
          !.profile = said.profile,
          !.accepts = said.state = "ready" /\ ~slot[s].quarantined]]
    /\ ReaderAt(n, e, "replan")
    /\ UNCHANGED <<task, failedSlots, attempt, failures, node, reports, charged,
                   session, conn, registered, pending, reqVars, netVars, workerVars>>

\* handleWorkerAttemptStarted: whatever the attempt was, it is running now.
HandleAttemptStarted(n, e) ==
    /\ Receives(n, e, {"started"})
    /\ attempt' = [attempt EXCEPT ![Message(n, e).att].status = "running"]
    /\ NextMessage(n, e)
    /\ UNCHANGED <<task, failedSlots, slot, failures, node, reports, charged,
                   session, conn, registered, pending, reqVars, down, workerVars>>

\* handleToken: the first output is recorded before the token is pushed, and
\* only for an attempt whose stream is registered.
HandleToken(n, e) ==
    LET a == Message(n, e).att IN
    /\ Receives(n, e, {"token"})
    /\ IF a \in streams
       THEN /\ attempt' = [attempt EXCEPT ![a].first = TRUE]
            /\ ReaderAt(n, e, "push")
            /\ UNCHANGED up
       ELSE /\ NextMessage(n, e)
            /\ UNCHANGED attempt
    /\ UNCHANGED <<task, failedSlots, slot, failures, node, reports, charged,
                   session, conn, registered, pending, reqVars, down, workerVars>>

\* The slot after an attempt of task t on it is over: it is ready again,
\* unless it was given another profile meanwhile.
Released(s, t, refusing) ==
    IF slot[s].profile = ProfileOf[t]
    THEN [slot[s] EXCEPT !.active = NoTask, !.state = "ready", !.accepts = TRUE]
    ELSE [slot[s] EXCEPT !.active = NoTask, !.state = "idle",
                         !.accepts = @ /\ ~refusing]

\* Mutant: the attempt itself is not marked failed.
HandleAttemptFailed_KeepsRunning(n, e) ==
    LET m == Message(n, e)
        t == TaskOf(m.att)
        s == attempt[m.att].slot
    IN
    /\ Receives(n, e, Failures)
    /\ slot' = [slot EXCEPT ![s] = RecordSlotFailure(s, Released(s, t, FALSE), m.reason, 1)]
    /\ CountFailure(s, m.reason)
    /\ failedSlots' = [failedSlots EXCEPT ![t] = @ \cup {s}]
    /\ task' = [task EXCEPT ![t] = IF m.kind = "failed_retry" THEN "queued" ELSE "failed"]
    /\ ReaderAt(n, e, "push")
    /\ UNCHANGED <<attempt, node, reports, charged, session, conn, registered, pending, reqVars,
                   netVars, workerVars>>

\* handleAttemptFailed, the transaction.
HandleAttemptFailed(n, e) ==
    LET m == Message(n, e)
        t == TaskOf(m.att)
        s == attempt[m.att].slot
    IN
    /\ Receives(n, e, Failures)
    /\ attempt' = [attempt EXCEPT ![m.att] =
          [@ EXCEPT !.status = "failed", !.first = (m.kind = "failed_final")]]
    /\ slot' = [slot EXCEPT ![s] = RecordSlotFailure(s, Released(s, t, FALSE), m.reason, 1)]
    /\ CountFailure(s, m.reason)
    /\ failedSlots' = [failedSlots EXCEPT ![t] = @ \cup {s}]
    /\ task' = [task EXCEPT ![t] = IF m.kind = "failed_retry" THEN "queued" ELSE "failed"]
    /\ ReaderAt(n, e, "push")
    /\ UNCHANGED <<node, reports, charged, session, conn, registered, pending, reqVars,
                   netVars, workerVars>>

\* Mutants: a retryable report puts its attempt back in the queue; a failed
\* report of an attempt that may be retried counts as completed.
StatusOfReport_Requeues(kind) ==
    IF kind = "report_completed" THEN "completed"
    ELSE IF kind = "report_cancelled" THEN "cancelled"
    ELSE IF kind = "report_retry" THEN "queued" ELSE "failed"

StatusOfReport_OnlyFinalFails(kind) ==
    IF kind = "report_final" THEN "failed"
    ELSE IF kind = "report_cancelled" THEN "cancelled" ELSE "completed"

StatusOfReport(kind) ==
    IF kind = "report_completed" THEN "completed"
    ELSE IF kind = "report_cancelled" THEN "cancelled" ELSE "failed"

\* Mutant: the report is stored and the event follows, but an attempt that the
\* Manager has already failed is left as it is.
HandleComputeReport_SkipsFailed(n, e) ==
    LET m == Message(n, e)
        t == TaskOf(m.att)
        s == attempt[m.att].slot
        status == StatusOfReport(m.kind)
    IN
    /\ Receives(n, e, Reports)
    /\ reports' = reports \cup {m.att}
    /\ IF m.att \in reports \/ attempt[m.att].status = "failed"
       THEN UNCHANGED <<task, failedSlots, attempt, slot, charged>>
       ELSE /\ charged' = IF status = "completed" THEN charged \cup {m.att} ELSE charged
            /\ attempt' = [attempt EXCEPT ![m.att].status = status]
            /\ task' = [task EXCEPT ![t] = status]
            /\ failedSlots' = [failedSlots EXCEPT ![t] = @ \cup {s}]
            /\ slot' = [slot EXCEPT ![s] = Released(s, t, TRUE)]
    /\ ReaderAt(n, e, "push")
    /\ UNCHANGED <<failures, node, session, conn, registered, pending, reqVars,
                   netVars, workerVars>>

\* handleComputeReport, the transaction: accounting, attempt, task and slot.
\* A report that was stored before changes nothing.
HandleComputeReport(n, e) ==
    LET m == Message(n, e)
        t == TaskOf(m.att)
        s == attempt[m.att].slot
        status == StatusOfReport(m.kind)
        requeue == m.kind = "report_retry" /\ ~attempt[m.att].first
        fresh == status = "failed" /\ attempt[m.att].status # "failed"
    IN
    /\ Receives(n, e, Reports)
    /\ IF m.att \in reports
       THEN UNCHANGED db
       ELSE /\ charged' = IF status = "completed" THEN charged \cup {m.att} ELSE charged
            /\ reports' = reports \cup {m.att}
            /\ attempt' = [attempt EXCEPT ![m.att].status = status]
            /\ task' = [task EXCEPT ![t] = IF requeue THEN "queued" ELSE status]
            /\ failedSlots' = [failedSlots EXCEPT ![t] = IF requeue THEN @ \cup {s} ELSE @]
            /\ IF fresh
               THEN /\ slot' = [slot EXCEPT ![s] =
                                   RecordSlotFailure(s, Released(s, t, TRUE), m.reason, 1)]
                    /\ CountFailure(s, m.reason)
               ELSE /\ slot' = [slot EXCEPT ![s] = Released(s, t, TRUE)]
                    /\ UNCHANGED failures
            /\ UNCHANGED node
    /\ ReaderAt(n, e, "push")
    /\ UNCHANGED <<session, conn, registered, pending, reqVars, netVars, workerVars>>

\* The handler's event for the request; a report is followed by a replan.
PushEvent(n, e) ==
    LET m == Message(n, e) IN
    /\ reader[n][e].pc = "push"
    /\ Push(m.att, m.kind)
    /\ IF m.kind \in Reports THEN ReaderAt(n, e, "replan") /\ UNCHANGED up
                             ELSE NextMessage(n, e)
    /\ UNCHANGED <<db, session, conn, registered, pending, streams, req, resp, gone,
                   jobCancels, shown, down, workerVars>>

-----------------------------------------------------------------------------
(* The Worker *)

\* Worker.enqueue: messages are lost while disconnected, by a full buffer, and
\* on a connection that the Manager has closed.
Kept(messages) ==
    {messages} \cup (IF Overflow THEN {<<>>, <<Head(messages)>>, Tail(messages)} ELSE {})

Send(n, messages) ==
    IF wsess[n] # 0 /\ conn[n][wsess[n]] = "open"
    THEN \E kept \in Kept(messages) : up' = [up EXCEPT ![n][wsess[n]] = @ \o kept]
    ELSE UNCHANGED up

AttemptMsg(k, a, r) == [kind |-> k, att |-> a, reason |-> r]
SlotMsg(s, value) == [kind |-> "slot_state", slot |-> s, value |-> value]

\* setSlotState: no active task any more.
SetSlotState(s, state, p) ==
    wslot' = [wslot EXCEPT ![s] = [state |-> state, active |-> NoTask, profile |-> p]]

\* connectAndServe ends.
Disconnect(n) ==
    /\ wsess[n] # 0
    /\ MayBreak(n, wsess[n]) \/ conn[n][wsess[n]] # "open"
    /\ wsess' = [wsess EXCEPT ![n] = 0]
    /\ greeting' = [greeting EXCEPT ![n] = 0]
    /\ down' = [down EXCEPT ![n][wsess[n]] = <<>>]
    /\ UNCHANGED <<db, sessVars, reqVars, up, wslot, exec, loading>>

\* connectAndServe dials; handleWorkerWS starts a session that has no node yet.
Connect(n) ==
    /\ wsess[n] = 0
    /\ \E e \in Sessions :
          /\ conn[n][e] = "none"
          /\ \A f \in Sessions : f < e => conn[n][f] # "none"
          /\ conn' = [conn EXCEPT ![n][e] = "open"]
          /\ reader' = [reader EXCEPT ![n][e] = [pc |-> "idle", old |-> 0]]
          /\ wsess' = [wsess EXCEPT ![n] = e]
    /\ greeting' = [greeting EXCEPT ![n] = 2]
    /\ UNCHANGED <<db, session, registered, pending, reqVars, netVars, wslot, exec, loading>>

\* sendHello and sendFullState, each with the slots of that moment.
Greet(n) ==
    /\ greeting[n] > 0
    /\ greeting' = [greeting EXCEPT ![n] = @ - 1]
    /\ Send(n, <<[kind |-> "full_state",
                  slots |-> [s \in Slots |-> IF NodeOf[s] = n THEN wslot[s] ELSE HomeSlot(s)]]>>)
    /\ UNCHANGED <<db, sessVars, reqVars, down, wsess, wslot, exec, loading>>

\* workerExecuteTask starts a goroutine; workerCancelTask cancels the context
\* of an attempt only when executeTask has registered it.
Receive(n) ==
    LET e == wsess[n]
        m == Head(down[n][e])
    IN
    /\ e # 0
    /\ down[n][e] # <<>>
    /\ down' = [down EXCEPT ![n][e] = Tail(@)]
    /\ exec' = [a \in Attempts |->
          IF a \notin m.atts THEN exec[a]
          ELSE IF m.kind = "execute_task" THEN [exec[a] EXCEPT !.pc = "spawned"]
          ELSE IF exec[a].pc \in {"none", "spawned", "done"} THEN exec[a]
          ELSE [exec[a] EXCEPT !.cancelled = TRUE]]
    /\ UNCHANGED <<db, sessVars, reqVars, up, wsess, greeting, wslot, loading>>

ExecAt(a, pc) == exec' = [exec EXCEPT ![a].pc = pc]

\* registerActiveAttempt.
Register(a) ==
    /\ exec[a].pc = "spawned"
    /\ ExecAt(a, "active")
    /\ UNCHANGED <<db, sessVars, reqVars, netVars, wsess, greeting, wslot, loading>>

Admissible(a) ==
    LET w == wslot[attempt[a].slot] IN
    w.active = NoTask /\ w.state = "ready" /\ w.profile = ProfileOf[TaskOf(a)]

\* admitTask lets the attempt pass; nothing is claimed yet.
Admit(a) ==
    /\ exec[a].pc = "active"
    /\ Admissible(a)
    /\ ExecAt(a, "admitted")
    /\ UNCHANGED <<db, sessVars, reqVars, netVars, wsess, greeting, wslot, loading>>

\* Mutant: admitTask refuses and executeTask returns without a word.
Reject_Silent(a) ==
    /\ exec[a].pc = "active"
    /\ ~Admissible(a) \/ attempt[a].slot \in Faulty
    /\ ExecAt(a, "done")
    /\ UNCHANGED <<db, sessVars, reqVars, netVars, wsess, greeting, wslot, loading>>

\* admitTask refuses: the slot is not free and warm, or an artifact or fit
\* check fails.  failExecution sends the failure and the report.
Reject(a) ==
    /\ exec[a].pc = "active"
    /\ \E reason \in {"admission_check_failed", "artifact_digest_mismatch"} :
          /\ IF reason = "admission_check_failed" THEN ~Admissible(a)
             ELSE Admissible(a) /\ attempt[a].slot \in Faulty
          /\ Send(NodeOfAttempt(a), <<AttemptMsg("failed_retry", a, reason),
                                      AttemptMsg("report_retry", a, reason)>>)
    /\ ExecAt(a, "done")
    /\ UNCHANGED <<db, sessVars, reqVars, down, wsess, greeting, wslot, loading>>

\* setSlotServing and attempt_started.
Serve(a) ==
    LET s == attempt[a].slot
        w == [state |-> "serving", active |-> TaskOf(a), profile |-> ProfileOf[TaskOf(a)]]
    IN
    /\ exec[a].pc = "admitted"
    /\ wslot' = [wslot EXCEPT ![s] = w]
    /\ Send(NodeOf[s], <<SlotMsg(s, w), AttemptMsg("started", a, "none")>>)
    /\ ExecAt(a, "serving")
    /\ UNCHANGED <<db, sessVars, reqVars, down, wsess, greeting, loading>>

\* The first token of the runtime.
SendToken(a) ==
    /\ exec[a].pc = "serving" /\ ~exec[a].first /\ ~exec[a].cancelled
    /\ Send(NodeOfAttempt(a), <<AttemptMsg("token", a, "none")>>)
    /\ exec' = [exec EXCEPT ![a].first = TRUE]
    /\ UNCHANGED <<db, sessVars, reqVars, down, wsess, greeting, wslot, loading>>

\* The runtime finishes: the slot is ready, then the report is sent.
Complete(a) ==
    LET s == attempt[a].slot
        p == ProfileOf[TaskOf(a)]
    IN
    /\ exec[a].pc = "serving"
    /\ SetSlotState(s, "ready", p)
    /\ Send(NodeOf[s], <<SlotMsg(s, [state |-> "ready", active |-> NoTask, profile |-> p]),
                         AttemptMsg("report_completed", a, "none")>>)
    /\ ExecAt(a, "done")
    /\ UNCHANGED <<db, sessVars, reqVars, down, wsess, greeting, loading>>

\* The runtime returns an error, its own or that of the cancelled context;
\* recoverRuntimeSlot starts beside it.
RuntimeError(a) ==
    /\ exec[a].pc = "serving"
    /\ exec[a].cancelled \/ attempt[a].slot \in Faulty
    /\ exec' = [exec EXCEPT ![a] = [@ EXCEPT !.pc = "failing", !.recovery = "pending"]]
    /\ UNCHANGED <<db, sessVars, reqVars, netVars, wsess, greeting, wslot, loading>>

\* Mutant: a runtime error may always be retried.
ReportError_AlwaysRetries(a) ==
    /\ exec[a].pc = "failing"
    /\ Send(NodeOfAttempt(a), <<AttemptMsg("failed_retry", a, "runtime_error"),
                                AttemptMsg("report_retry", a, "runtime_error")>>)
    /\ ExecAt(a, "done")
    /\ UNCHANGED <<db, sessVars, reqVars, down, wsess, greeting, wslot, loading>>

\* The attempt ends with a cancelled report, or with a failure and its report.
ReportError(a) ==
    LET kind == IF exec[a].first THEN <<"failed_final", "report_final">>
                                 ELSE <<"failed_retry", "report_retry">>
    IN
    /\ exec[a].pc = "failing"
    /\ Send(NodeOfAttempt(a),
            IF exec[a].cancelled THEN <<AttemptMsg("report_cancelled", a, "none")>>
            ELSE <<AttemptMsg(kind[1], a, "runtime_error"), AttemptMsg(kind[2], a, "runtime_error")>>)
    /\ ExecAt(a, "done")
    /\ UNCHANGED <<db, sessVars, reqVars, down, wsess, greeting, wslot, loading>>

SlotBecomes(s, state, p) ==
    /\ SetSlotState(s, state, p)
    /\ Send(NodeOf[s], <<SlotMsg(s, [state |-> state, active |-> NoTask, profile |-> p])>>)

\* recoverRuntimeSlot: a healthy server makes the slot ready at once; otherwise
\* the restart limit ends in error, or the server is restarted.
Recover(a) ==
    LET s == attempt[a].slot IN
    /\ exec[a].recovery = "pending"
    /\ \E state \in IF s \in Faulty THEN {"ready", "error", "warming"} ELSE {"ready"} :
          /\ SlotBecomes(s, state, ProfileOf[TaskOf(a)])
          /\ exec' = [exec EXCEPT ![a].recovery = IF state = "warming" THEN "restarting" ELSE "off"]
    /\ UNCHANGED <<db, sessVars, reqVars, down, wsess, greeting, loading>>

\* restartRuntimeServer returns.
Restarted(a) ==
    /\ exec[a].recovery = "restarting"
    /\ \E state \in {"ready", "error"} :
          SlotBecomes(attempt[a].slot, state, ProfileOf[TaskOf(a)])
    /\ exec' = [exec EXCEPT ![a].recovery = "off"]
    /\ UNCHANGED <<db, sessVars, reqVars, down, wsess, greeting, loading>>

\* runAssignment of a plan's profile to a slot: it does not look at what the
\* slot is doing.  Downloading, loading and warming are one state here.
Assign(s) ==
    /\ loading[s].to = {} /\ loading[s].count < MaxLoads
    /\ \E p \in Profiles :
          /\ SlotBecomes(s, "warming", p)
          /\ loading' = [loading EXCEPT ![s] = [to |-> {p}, count |-> @.count + 1]]
    /\ UNCHANGED <<db, sessVars, reqVars, down, wsess, greeting, exec>>

Assigned(s) ==
    /\ \E p \in loading[s].to :
          \E state \in IF s \in Faulty THEN {"ready", "error"} ELSE {"ready"} :
              SlotBecomes(s, state, p)
    /\ loading' = [loading EXCEPT ![s].to = {}]
    /\ UNCHANGED <<db, sessVars, reqVars, down, wsess, greeting, exec>>

-----------------------------------------------------------------------------
(* The specification *)

RequestStep(t) ==
    \/ SelectSlot(t) \/ NoCapacity(t) \/ StartCancelled(t) \/ ReserveAttempt(t)
    \/ DispatchAttempt(t) \/ TakeEvent(t) \/ ContextDone(t)

ClientStep(t) == Submit(t) \/ ClientGone(t) \/ CancelJob(t)

HandlerStep(n, e) ==
    \/ RefuseUnregistered(n, e) \/ UpsertWorkerState(n, e) \/ SwapSession(n, e)
    \/ JoinClose(n, e) \/ Replan(n, e) \/ HandleSlotState(n, e)
    \/ HandleAttemptStarted(n, e) \/ HandleToken(n, e) \/ HandleAttemptFailed(n, e)
    \/ HandleComputeReport(n, e) \/ PushEvent(n, e)

CloserStep(n, e) == FailRunningAttempts(n, e) \/ PublishFailure(n, e)

ExecStep(a) ==
    \/ Register(a) \/ Admit(a) \/ Reject(a) \/ Serve(a) \/ SendToken(a) \/ Complete(a)
    \/ RuntimeError(a) \/ ReportError(a) \/ Recover(a) \/ Restarted(a)

Next ==
    \/ \E t \in Tasks : ClientStep(t) \/ RequestStep(t)
    \/ \E n \in Nodes : \E e \in Sessions :
          \/ HandlerStep(n, e) \/ CloserStep(n, e)
          \/ CloseSession(n, e) \/ ReaderStop(n, e) \/ HandleHeartbeat(n, e)
    \/ \E n \in Nodes :
          \/ MarkOffline(n) \/ Disconnect(n) \/ Connect(n) \/ Greet(n) \/ Receive(n)
    \/ \E a \in Attempts : ExecStep(a)
    \/ \E s \in Slots : ClearQuarantine(s) \/ Assign(s) \/ Assigned(s)

Spec == Init /\ [][Next]_vars

-----------------------------------------------------------------------------
(* Safety *)

\* No two attempts of a task use the same slot: the retry loop of startAttempt
\* keeps off every slot that failed the task, although ReserveAttempt does not
\* look at the failed slots again and messages about old attempts still arrive.
ExcludeFailedSlots ==
    \A a, b \in Attempts :
        (a # b /\ TaskOf(a) = TaskOf(b) /\ Exists(a) /\ Exists(b))
            => attempt[a].slot # attempt[b].slot

\* A client that got its completion was charged for the attempt it came from:
\* the ledger transaction of handleComputeReport precedes the stream event.
AnsweredIsCharged ==
    \A t \in Tasks : resp[t] = "ok" => Current(t) \in charged

\* What the client sees of a request: the number of its attempts, and which of them
\* were charged.
Life == INSTANCE RequestLife WITH
    Requests <- Tasks,
    answer <- resp,
    stage <- [t \in Tasks |-> CASE req[t].pc = "none" -> "new" [] req[t].pc = "done" -> "closed"
                               [] OTHER -> "open"],
    tries <- [t \in Tasks |-> req[t].n],
    billed <- [t \in Tasks |-> {a[2] : a \in {b \in charged : TaskOf(b) = t}}]

\* Requests live as RequestLife promises: lost connections, late messages, retries and
\* cancels show in nothing but the number of tries (createChatTask, startAttempt,
\* the event loop of the request, handleComputeReport).
LifeAsPromised == Life!Spec

\* While a request waits for events of an attempt, something will still
\* produce one: the dispatched message, the Worker's goroutine, a final message
\* on its way, or an event in the channel.
WaitingIsServed ==
    \A t \in Tasks :
        LET a == Current(t)
            n == NodeOfAttempt(a)
        IN  req[t].pc = "wait" =>
            \/ events[a] # <<>>
            \/ exec[a].pc \notin {"none", "done"}
            \/ \E e \in Sessions :
                \/ \E i \in DOMAIN down[n][e] :
                      down[n][e][i] = [kind |-> "execute_task", atts |-> {a}]
                \/ \E i \in DOMAIN up[n][e] :
                      /\ up[n][e][i].kind \in Failures \cup Reports
                      /\ up[n][e][i].att = a

\* Assigned by the Manager and not yet over at the Worker.
Active(a) == attempt[a].status = "running" /\ exec[a].pc # "done"

\* PRD.md: "never assign two active tasks to one slot".
OneTaskPerSlot ==
    \A a, b \in Attempts :
        (a # b /\ Active(a) /\ Active(b)) => attempt[a].slot # attempt[b].slot

\* PRD.md: "Failed attempts must not charge by default".
FailedAttemptNeverCharged ==
    [][\A a \in charged' \ charged : attempt[a].status # "failed"]_vars

\* PRD.md: "retry only before first output": a streaming client that has read
\* output of one attempt is not given a second one.
RetryOnlyBeforeFirstOutput ==
    [][\A t \in Tasks : req[t].n # req'[t].n => \A a \in shown : TaskOf(a) # t]_vars

\* PRD.md: "cancelled queued work must not be assigned later".
CancelledNeverAssigned ==
    [][\A t \in Tasks : t \in jobCancels => req[t].n = req'[t].n]_vars

\* A task has one running attempt at a time.
OneRunningAttempt ==
    \A t \in Tasks : \A a, b \in Running(t) : a = b

\* No message of a Worker, and no reconnect, lifts a quarantine: only its expiry.
QuarantineHolds ==
    [][(\E s \in Slots : slot[s].quarantined /\ ~slot'[s].quarantined)
        => UNCHANGED <<up, reader>>]_vars

-----------------------------------------------------------------------------
(* Bookkeeping: what makes every lookup of the code succeed *)

\* The attempts of a task are numbered from 1, and each one has its slot.
AttemptsNumbered ==
    \A a \in Attempts :
        /\ Exists(a) <=> a[2] <= req[TaskOf(a)].n
        /\ Exists(a) => attempt[a].slot \in Slots

\* A request that reserves knows its slot and session and may start one more
\* attempt; one that dispatches or waits has a current attempt.
RequestsNamed ==
    \A t \in Tasks :
        /\ req[t].pc \in {"reserve", "dispatch"} => req[t].slot \in Slots /\ req[t].sess \in Sessions
        /\ req[t].pc = "reserve" => req[t].n < MaxAttempts
        /\ req[t].pc \in {"dispatch", "wait"} => req[t].n > 0
        /\ req[t].pc = "dispatch" => attempt[Current(t)].slot = req[t].slot

\* The attempts that node n may speak of: those given to it.
AttemptsOn(n) == {a \in Attempts : Exists(a) /\ NodeOfAttempt(a) = n}

UpMessageOn(n) ==
    {m \in AttemptMessage : m.att \in AttemptsOn(n)}
        \cup {m \in SlotMessage : NodeOf[m.slot] = n} \cup StateMessage

DownMessageOn(n) == {m \in DownMessage : m.atts \subseteq AttemptsOn(n)}

\* Everything on a connection is about attempts and slots of its node, so
\* requireWorkerAttempt never refuses a Worker that follows the protocol.
MessagesNamed ==
    \A n \in Nodes : \A e \in Sessions :
        /\ up[n][e] \in Seq(UpMessageOn(n))
        /\ down[n][e] \in Seq(DownMessageOn(n))

\* A Worker executes, and recovers from, attempts that the Manager made.
ExecutionsNamed ==
    \A a \in Attempts :
        (exec[a].pc # "none" \/ exec[a].recovery # "off") => Exists(a)

\* Streams and disconnect failures belong to attempts that the Manager made.
StreamsNamed ==
    /\ \A a \in streams : Exists(a)
    /\ \A n \in Nodes : \A e \in Sessions : \A f \in pending[n][e] : Exists(f.att)

\* The message a handler works on is there until the handler is done.
ReadersHold ==
    \A n \in Nodes : \A e \in Sessions :
        /\ reader[n][e].pc \in {"swap", "join", "push", "replan"} => up[n][e] # <<>>
        /\ reader[n][e].pc = "push" => Message(n, e).kind \in StreamEvents

\* Every attempt, slot and session that a goroutine or a message names exists,
\* whatever was lost, closed or delivered late.
Bookkeeping ==
    /\ AttemptsNumbered
    /\ RequestsNamed
    /\ MessagesNamed
    /\ ExecutionsNamed
    /\ StreamsNamed
    /\ ReadersHold

-----------------------------------------------------------------------------
(* Liveness *)

\* What handles a message, finishes a close or advances an attempt.
WorkStep ==
    \/ \E n \in Nodes : \E e \in Sessions : HandlerStep(n, e) \/ CloserStep(n, e)
    \/ \E n \in Nodes : Greet(n) \/ Receive(n)
    \/ \E a \in Attempts : ExecStep(a)

\* Goroutines that can run do run, messages on an open connection are handled
\* and the heartbeat monitor ticks.  There are finitely many work steps in a
\* bounded instance, so fairness to their disjunction is fairness to each one.
Fairness ==
    /\ \A t \in Tasks : WF_vars(RequestStep(t))
    /\ WF_vars(WorkStep)
    /\ \A n \in Nodes : WF_vars(MarkOffline(n))

FairSpec == Spec /\ Fairness

\* Only the request goroutines are scheduled fairly; Workers, readers and
\* closers may stop at any point.
RequestFairSpec == Spec /\ \A t \in Tasks : WF_vars(RequestStep(t))

\* Every accepted request is answered.
RequestsAnswered ==
    \A t \in Tasks : req[t].pc = "start" ~> req[t].pc = "done"

\* A request whose client is gone gives its place in the queue back.
GoneReleasesQueue ==
    \A t \in Tasks : t \in gone ~> t \notin InQueue

\* PRD.md: "mark silent Worker connections offline after missed heartbeats":
\* a node whose session is closed and read by nobody goes offline, unless
\* another session takes its place.
SilentWorkerGoesOffline ==
    \A n \in Nodes : \A e \in Sessions :
        (session[n] = e /\ conn[n][e] = "closed" /\ reader[n][e].pc = "off")
            ~> (session[n] # e \/ ~node[n].online)
=============================================================================
