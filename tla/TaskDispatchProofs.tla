------------------------ MODULE TaskDispatchProofs ------------------------
(***************************************************************************)
(* The proofs about TaskDispatch, for every set of requests, Workers,      *)
(* slots and profiles and every bound.                                     *)
(*                                                                         *)
(* The types are not inductive alone: a handler reads the attempt, the     *)
(* task and the slot that its message names, a closer those it remembered, *)
(* and the records they write are typed only if those lookups succeed.     *)
(* The inductive invariant therefore joins the types to Bookkeeping, which *)
(* says that everything named exists.  It is carried through every action, *)
(* whichever messages are lost, dropped or late.  What an action leaves    *)
(* alone is handled once, by the frame lemmas; a step of a request, of a   *)
(* Worker, of a closer and of a handler each have one lemma with what such *)
(* a step has to show.                                                     *)
(***************************************************************************)
EXTENDS TaskDispatch, FiniteSetTheorems, TLAPS

\* The inductive invariant.
IndInv == TypeOK /\ Bookkeeping

-----------------------------------------------------------------------------
(* Initial states *)

\* The initial state, with every Worker connected and no request, satisfies it.
LEMMA InitInv == Init => IndInv
<1> SUFFICES ASSUME Init PROVE IndInv
    OBVIOUS
<1> USE ConstantsAssumption, BoundsAssumption DEF Init, Sessions
<1>1. DbTypeOK
    BY DEF DbTypeOK, Attempts, TaskStatus, AttemptStatus, AttemptRecord, SlotRecord,
           SlotState, NodeRecord
<1>2. SessionTypeOK
    BY DEF SessionTypeOK, ConnState, ReaderPC, ReaderRecord
<1>3. RequestTypeOK
    BY DEF RequestTypeOK, RequestPC, RequestRecord, Answers
<1>4. NetTypeOK
    BY DEF NetTypeOK
<1>5. WorkerTypeOK
    BY DEF WorkerTypeOK, WorkerSlot, SlotState, HomeSlot, ExecPC, ExecRecord, LoadRecord
<1>6. AttemptsNumbered
    BY DEF AttemptsNumbered, Exists, Attempts, TaskOf
<1>7. RequestsNamed
    BY DEF RequestsNamed
<1>8. MessagesNamed
    BY DEF MessagesNamed
<1>9. ExecutionsNamed
    BY DEF ExecutionsNamed
<1>10. StreamsNamed
    BY DEF StreamsNamed
<1>11. ReadersHold
    BY DEF ReadersHold
<1> QED
    BY <1>1, <1>2, <1>3, <1>4, <1>5, <1>6, <1>7, <1>8, <1>9, <1>10, <1>11
       DEF IndInv, TypeOK, Bookkeeping

-----------------------------------------------------------------------------
(* What an action leaves alone *)

\* An attempt, once made, stays on its slot.
AttemptsKept ==
    \A a \in Attempts : Exists(a) => Exists(a)' /\ attempt'[a].slot = attempt[a].slot

\* A message a handler works on stays at the head of its queue.
HeadsKept ==
    \A n \in Nodes : \A e \in Sessions :
        up[n][e] # <<>> => up'[n][e] # <<>> /\ Head(up'[n][e]) = Head(up[n][e])

\* A step that leaves the database alone keeps its type; the next four say the
\* same of sessions, requests, connections and Workers.
LEMMA DbFrame == DbTypeOK /\ UNCHANGED db => DbTypeOK'
    BY DEF DbTypeOK, db

\* Likewise for the session table.
LEMMA SessionFrame == SessionTypeOK /\ UNCHANGED sessVars => SessionTypeOK'
    BY DEF SessionTypeOK, sessVars

\* Likewise for requests and streams.
LEMMA RequestFrame == RequestTypeOK /\ UNCHANGED reqVars => RequestTypeOK'
    BY DEF RequestTypeOK, reqVars

\* Likewise for the connections.
LEMMA NetFrame == NetTypeOK /\ UNCHANGED netVars => NetTypeOK'
    BY DEF NetTypeOK, netVars

\* Likewise for the Workers.
LEMMA WorkerFrame == WorkerTypeOK /\ UNCHANGED workerVars => WorkerTypeOK'
    BY DEF WorkerTypeOK, workerVars

\* A step that touches no attempt keeps the attempts.
LEMMA KeptFrame == UNCHANGED attempt => AttemptsKept
    BY DEF AttemptsKept, Exists

\* Numbering depends on the attempts and the attempt counters only.
LEMMA NumbersFrame ==
    ASSUME AttemptsNumbered, UNCHANGED attempt, \A t \in Tasks : req'[t].n = req[t].n
    PROVE AttemptsNumbered'
    BY DEF AttemptsNumbered, Exists, Attempts, TaskOf

\* What requests name depends on the attempts and the requests only.
LEMMA NamesFrame == RequestsNamed /\ UNCHANGED <<attempt, req>> => RequestsNamed'
    BY DEF RequestsNamed, Current

\* Executions stay named while no attempt disappears.
LEMMA ExecutionsFrame ==
    ExecutionsNamed /\ AttemptsKept /\ UNCHANGED exec => ExecutionsNamed'
    BY DEF ExecutionsNamed, AttemptsKept

\* Streams stay named while no attempt disappears and none is registered.
LEMMA StreamsFrame ==
    ASSUME StreamsNamed, RequestTypeOK, SessionTypeOK, AttemptsKept, UNCHANGED pending,
           streams' \subseteq streams
    PROVE StreamsNamed'
    BY DEF StreamsNamed, RequestTypeOK, SessionTypeOK, AttemptsKept, FailureRecord

\* Readers keep their message while no head of a queue changes.
LEMMA ReadersFrame ==
    ASSUME ReadersHold, HeadsKept, UNCHANGED reader
    PROVE ReadersHold'
    BY DEF ReadersHold, HeadsKept, Message

\* A step that leaves the queues alone keeps their heads.
LEMMA HeadsFrame == UNCHANGED up => HeadsKept
    BY DEF HeadsKept

\* Sequences over a set are sequences over a larger one.
LEMMA SeqMonotonic ==
    ASSUME NEW S, NEW T, S \subseteq T, NEW s \in Seq(S)
    PROVE s \in Seq(T)
    OBVIOUS

\* Messages stay named while no attempt disappears.
LEMMA MessagesKept ==
    ASSUME MessagesNamed, AttemptsKept, NEW n \in Nodes
    PROVE /\ AttemptsOn(n) \subseteq AttemptsOn(n)'
          /\ UpMessageOn(n) \subseteq UpMessageOn(n)'
          /\ DownMessageOn(n) \subseteq DownMessageOn(n)'
          /\ \A e \in Sessions : /\ up[n][e] \in Seq(UpMessageOn(n)')
                                 /\ down[n][e] \in Seq(DownMessageOn(n)')
<1>1. AttemptsOn(n) \subseteq AttemptsOn(n)'
    BY DEF AttemptsOn, AttemptsKept, NodeOfAttempt
<1>2. UpMessageOn(n) \subseteq UpMessageOn(n)'
    BY <1>1 DEF UpMessageOn
<1>3. DownMessageOn(n) \subseteq DownMessageOn(n)'
    BY <1>1 DEF DownMessageOn
<1>4. ASSUME NEW e \in Sessions
      PROVE up[n][e] \in Seq(UpMessageOn(n)') /\ down[n][e] \in Seq(DownMessageOn(n)')
    BY <1>2, <1>3, SeqMonotonic DEF MessagesNamed
<1> QED
    BY <1>1, <1>2, <1>3, <1>4

\* So a step that leaves the queues alone keeps them named.
LEMMA MessagesFrame ==
    ASSUME MessagesNamed, AttemptsKept, UNCHANGED <<up, down>>
    PROVE MessagesNamed'
    BY MessagesKept DEF MessagesNamed

-----------------------------------------------------------------------------
(* Messages *)

\* Appending an element of the set stays in the set's sequences.
LEMMA AppendSeq ==
    ASSUME NEW S, NEW s \in Seq(S), NEW m \in S
    PROVE Append(s, m) \in Seq(S)
    OBVIOUS

\* What an enqueue keeps of its messages is a sequence of the same messages.
LEMMA KeptSeq ==
    ASSUME NEW S, NEW ms \in Seq(S), Len(ms) \in 1..2, NEW kept \in Kept(ms)
    PROVE kept \in Seq(S)
<1>1. kept = ms \/ kept = <<>> \/ kept = <<Head(ms)>> \/ kept = Tail(ms)
    BY DEF Kept
<1>2. Head(ms) \in S /\ Tail(ms) \in Seq(S)
    OBVIOUS
<1>3. <<Head(ms)>> \in Seq(S)
    BY <1>2
<1>4. <<>> \in Seq(S)
    OBVIOUS
<1> HIDE DEF Kept
<1> QED
    BY <1>1, <1>2, <1>3, <1>4, Zenon

\* cancelAttempt names attempts of the node it speaks to.
LEMMA SendCancelsInv ==
    ASSUME NetTypeOK, MessagesNamed, NEW atts \in SUBSET Attempts,
           \A a \in atts : Exists(a),
           SendCancels(atts), UNCHANGED <<up, attempt>>
    PROVE NetTypeOK' /\ MessagesNamed'
<1>1. PICK delivered \in SUBSET Nodes :
        down' = [n \in Nodes |-> [e \in Sessions |->
            LET here == {a \in atts : NodeOfAttempt(a) = n}
            IN  IF /\ here # {} /\ n \in delivered
                   /\ session[n] = e /\ conn[n][e] = "open"
                THEN Append(down[n][e], [kind |-> "cancel_task", atts |-> here])
                ELSE down[n][e]]]
    BY DEF SendCancels
<1>2. ASSUME NEW n \in Nodes, NEW e \in Sessions
      PROVE down'[n][e] \in Seq(DownMessageOn(n)) /\ down'[n][e] \in Seq(DownMessage)
    <2> DEFINE here == {a \in atts : NodeOfAttempt(a) = n}
               m == [kind |-> "cancel_task", atts |-> here]
    <2>1. here \subseteq AttemptsOn(n) /\ here \subseteq Attempts
        BY DEF AttemptsOn
    <2>2. m \in DownMessage /\ m \in DownMessageOn(n)
        BY <2>1 DEF DownMessage, DownMessageOn
    <2>3. down'[n][e] = down[n][e] \/ down'[n][e] = Append(down[n][e], m)
        BY <1>1 DEF here, m
    <2>4. down[n][e] \in Seq(DownMessageOn(n)) /\ down[n][e] \in Seq(DownMessage)
        BY DEF MessagesNamed, NetTypeOK
    <2> HIDE DEF m
    <2> QED
        BY <2>2, <2>3, <2>4, AppendSeq
<1>3. down' \in [Nodes -> [Sessions -> Seq(DownMessage)]]
    BY <1>1, <1>2
<1>4. AttemptsKept
    BY KeptFrame
<1>5. NetTypeOK'
    BY <1>3 DEF NetTypeOK
<1>6. MessagesNamed'
    BY <1>2, <1>4, MessagesKept, SeqMonotonic DEF MessagesNamed
<1> QED
    BY <1>5, <1>6

\* A Worker's messages about its own attempts and slots keep the queues named.
LEMMA SendInv ==
    ASSUME NetTypeOK, MessagesNamed, WorkerTypeOK,
           NEW n \in Nodes, NEW ms \in Seq(UpMessageOn(n)), Len(ms) \in 1..2,
           Send(n, ms), UNCHANGED <<down, attempt>>
    PROVE NetTypeOK' /\ MessagesNamed' /\ HeadsKept
<1>1. UpMessageOn(n) \subseteq UpMessage
    BY DEF UpMessageOn, UpMessage
<1>2. AttemptsKept
    BY KeptFrame
<1>3. CASE UNCHANGED up
    BY <1>2, <1>3, MessagesFrame, HeadsFrame, NetFrame DEF netVars
<1>4. CASE /\ wsess[n] # 0
           /\ \E kept \in Kept(ms) : up' = [up EXCEPT ![n][wsess[n]] = @ \o kept]
    <2>1. PICK kept \in Kept(ms) : up' = [up EXCEPT ![n][wsess[n]] = @ \o kept]
        BY <1>4
    <2>2. kept \in Seq(UpMessageOn(n))
        BY <2>1, KeptSeq
    <2> DEFINE e == wsess[n]
    <2>3. e \in Sessions
        BY <1>4 DEF WorkerTypeOK
    <2>4. up[n][e] \in Seq(UpMessageOn(n))
        BY <2>3 DEF MessagesNamed
    <2>5. up[n][e] \o kept \in Seq(UpMessageOn(n))
        BY <2>2, <2>4
    <2>6. up[n][e] \o kept \in Seq(UpMessage)
        BY <2>5, <1>1, SeqMonotonic
    <2>7. NetTypeOK'
        BY <2>1, <2>3, <2>6 DEF NetTypeOK
    <2>8. ASSUME NEW m \in Nodes, NEW f \in Sessions
          PROVE up'[m][f] \in Seq(UpMessageOn(m)) /\ down'[m][f] \in Seq(DownMessageOn(m))
        BY <2>1, <2>3, <2>5 DEF MessagesNamed, NetTypeOK
    <2>9. MessagesNamed'
        BY <2>8, <1>2, MessagesKept, SeqMonotonic DEF MessagesNamed
    <2>10. ASSUME NEW m \in Nodes, NEW f \in Sessions, up[m][f] # <<>>
           PROVE up'[m][f] # <<>> /\ Head(up'[m][f]) = Head(up[m][f])
        <3>1. CASE m = n /\ f = e
            <4>1. up'[m][f] = up[n][e] \o kept
                BY <2>1, <2>3, <3>1 DEF NetTypeOK
            <4> QED
                BY <2>10, <2>2, <2>4, <3>1, <4>1
        <3>2. CASE ~(m = n /\ f = e)
            BY <2>1, <2>3, <2>10, <3>2 DEF NetTypeOK
        <3> QED
            BY <3>1, <3>2
    <2> QED
        BY <2>7, <2>9, <2>10 DEF HeadsKept
<1> QED
    BY <1>3, <1>4 DEF Send

\* The head of a queue belongs to its node, and its kind says which record it is.
LEMMA HeadMessage ==
    ASSUME MessagesNamed, NEW n \in Nodes, NEW e \in Sessions, up[n][e] # <<>>
    PROVE /\ Message(n, e) \in UpMessageOn(n)
          /\ Message(n, e).kind \in {"started"} \cup StreamEvents
                => /\ Message(n, e) \in AttemptMessage
                   /\ Message(n, e).att \in AttemptsOn(n)
          /\ Message(n, e).kind = "slot_state"
                => Message(n, e) \in SlotMessage /\ NodeOf[Message(n, e).slot] = n
          /\ Message(n, e).kind = "full_state" => Message(n, e) \in StateMessage
<1>1. Message(n, e) \in UpMessageOn(n)
    BY DEF MessagesNamed, Message
<1> HIDE DEF Message
<1> QED
    BY <1>1 DEF UpMessageOn, AttemptMessage, SlotMessage, StateMessage, StreamEvents,
                Failures, Reports

\* Dropping the head of a queue.
LEMMA TailInv ==
    ASSUME NetTypeOK, MessagesNamed, AttemptsKept, NEW n \in Nodes, NEW e \in Sessions,
           up[n][e] # <<>>, up' = [up EXCEPT ![n][e] = Tail(@)], UNCHANGED down
    PROVE NetTypeOK' /\ MessagesNamed'
<1>1. NetTypeOK'
    BY DEF NetTypeOK
<1>2. ASSUME NEW m \in Nodes, NEW f \in Sessions
      PROVE up'[m][f] \in Seq(UpMessageOn(m)')
    <2>1. up[m][f] \in Seq(UpMessageOn(m)')
        BY MessagesKept
    <2> QED
        BY <2>1 DEF NetTypeOK
<1> QED
    BY <1>1, <1>2, MessagesKept DEF MessagesNamed

-----------------------------------------------------------------------------
(* The request goroutine *)

\* A request goroutine moves on without starting an attempt.
LEMMA RequestMoves ==
    ASSUME RequestTypeOK, AttemptsNumbered, RequestsNamed, UNCHANGED attempt,
           NEW t \in Tasks, NEW r \in RequestRecord, r.n = req[t].n,
           r.pc \in {"reserve", "dispatch"} => r.slot \in Slots /\ r.sess \in Sessions,
           r.pc = "reserve" => r.n < MaxAttempts,
           r.pc \in {"dispatch", "wait"} => r.n > 0,
           r.pc = "dispatch" => attempt[<<t, r.n>>].slot = r.slot,
           req' = [req EXCEPT ![t] = r]
    PROVE req' \in [Tasks -> RequestRecord] /\ AttemptsNumbered' /\ RequestsNamed'
<1>1. req' \in [Tasks -> RequestRecord]
    BY DEF RequestTypeOK
<1>2. req'[t] = r /\ \A u \in Tasks \ {t} : req'[u] = req[u]
    BY DEF RequestTypeOK
<1>3. AttemptsNumbered'
    BY <1>2, NumbersFrame
<1>4. RequestsNamed'
    BY <1>2 DEF RequestsNamed, Current
<1> QED
    BY <1>1, <1>3, <1>4

\* Answering the client ends the request and nothing else.
LEMMA FinishInv ==
    ASSUME RequestTypeOK, AttemptsNumbered, RequestsNamed, UNCHANGED attempt,
           NEW t \in Tasks, NEW answer \in Answers, Finish(t, answer)
    PROVE /\ req' \in [Tasks -> RequestRecord]
          /\ resp' \in [Tasks -> Answers]
          /\ AttemptsNumbered' /\ RequestsNamed'
<1> DEFINE r == [req[t] EXCEPT !.pc = "done", !.slot = NoSlot, !.sess = 0]
<1>1. r \in RequestRecord /\ r.n = req[t].n /\ r.pc = "done"
    BY DEF RequestTypeOK, RequestRecord, RequestPC
<1>2. req' = [req EXCEPT ![t] = r] /\ resp' = [resp EXCEPT ![t] = answer]
    BY DEF Finish
<1>3. resp' \in [Tasks -> Answers]
    BY <1>2 DEF RequestTypeOK
<1> HIDE DEF r
<1> QED
    BY <1>1, <1>2, <1>3, RequestMoves

\* The parts of the invariant that speak of sessions and Workers do not see a
\* step of a request.
LEMMA RequestStepFrame ==
    ASSUME IndInv, AttemptsKept, UNCHANGED <<sessVars, up, workerVars>>
    PROVE SessionTypeOK' /\ WorkerTypeOK' /\ ExecutionsNamed' /\ ReadersHold'
<1> USE DEF IndInv, TypeOK, Bookkeeping
<1>1. SessionTypeOK' /\ WorkerTypeOK'
    BY SessionFrame, WorkerFrame
<1>2. ExecutionsNamed' /\ ReadersHold'
    BY ExecutionsFrame, ReadersFrame, HeadsFrame DEF sessVars, workerVars
<1> QED
    BY <1>1, <1>2

\* acquireQueue and createChatTask preserve the invariant.
LEMMA SubmitInv ==
    ASSUME IndInv, NEW t \in Tasks, Submit(t)
    PROVE IndInv'
<1>1. TypeOK /\ Bookkeeping
    BY DEF IndInv
<1>2. /\ UNCHANGED <<failedSlots, attempt, slot, failures, node, reports, charged, sessVars,
                     streams, events, gone, jobCancels, shown, netVars, workerVars>>
      /\ \/ /\ req' = [req EXCEPT ![t].pc = "start"]
            /\ task' = [task EXCEPT ![t] = "queued"]
            /\ UNCHANGED resp
         \/ Finish(t, "busy") /\ UNCHANGED task
    BY DEF Submit
<1>3. AttemptsKept
    BY <1>2, KeptFrame
<1>4. DbTypeOK'
    <2>1. task' \in [Tasks -> TaskStatus]
        BY <1>1, <1>2 DEF TypeOK, DbTypeOK, TaskStatus
    <2> QED
        BY <1>1, <1>2, <2>1 DEF TypeOK, DbTypeOK
<1>5. /\ req' \in [Tasks -> RequestRecord]
      /\ resp' \in [Tasks -> Answers]
      /\ AttemptsNumbered' /\ RequestsNamed'
    <2>1. CASE Finish(t, "busy")
        BY <1>1, <1>2, <2>1, FinishInv DEF TypeOK, Bookkeeping, Answers
    <2>2. CASE req' = [req EXCEPT ![t].pc = "start"] /\ UNCHANGED resp
        <3> DEFINE r == [req[t] EXCEPT !.pc = "start"]
        <3>1. r \in RequestRecord /\ r.n = req[t].n /\ r.pc = "start"
            BY <1>1 DEF TypeOK, RequestTypeOK, RequestRecord, RequestPC
        <3>2. req' = [req EXCEPT ![t] = r]
            BY <2>2
        <3>3. resp' \in [Tasks -> Answers]
            BY <1>1, <2>2 DEF TypeOK, RequestTypeOK
        <3> HIDE DEF r
        <3> QED
            BY <1>1, <1>2, <3>1, <3>2, <3>3, RequestMoves DEF TypeOK, Bookkeeping
    <2> QED
        BY <1>2, <2>1, <2>2
<1>6. RequestTypeOK'
    BY <1>1, <1>2, <1>5 DEF TypeOK, RequestTypeOK
<1>7. NetTypeOK' /\ MessagesNamed'
    BY <1>1, <1>2, <1>3, NetFrame, MessagesFrame DEF TypeOK, Bookkeeping, netVars
<1>8. SessionTypeOK' /\ WorkerTypeOK' /\ ExecutionsNamed' /\ ReadersHold'
    BY <1>2, <1>3, RequestStepFrame DEF netVars
<1>9. StreamsNamed'
    BY <1>1, <1>2, <1>3, StreamsFrame DEF TypeOK, Bookkeeping, sessVars
<1> QED
    BY <1>4, <1>5, <1>6, <1>7, <1>8, <1>9 DEF IndInv, TypeOK, Bookkeeping

\* What a step of a request goroutine that makes no attempt has to show.
LEMMA RequestStepInv ==
    ASSUME IndInv, AttemptsKept, UNCHANGED <<sessVars, up, workerVars>>,
           DbTypeOK', RequestTypeOK', NetTypeOK',
           AttemptsNumbered', RequestsNamed', MessagesNamed', StreamsNamed'
    PROVE IndInv'
    BY RequestStepFrame DEF IndInv, TypeOK, Bookkeeping

\* Only the status of a task changes in the database.
LEMMA TaskInv ==
    ASSUME DbTypeOK, task' \in [Tasks -> TaskStatus],
           UNCHANGED <<failedSlots, attempt, slot, failures, node, reports, charged>>
    PROVE DbTypeOK'
    BY DEF DbTypeOK

\* A request ends or waits; streams may be removed.
LEMMA RequestMoveInv ==
    ASSUME IndInv, UNCHANGED <<attempt, sessVars, up, workerVars>>,
           DbTypeOK', NetTypeOK' /\ MessagesNamed',
           req' \in [Tasks -> RequestRecord], resp' \in [Tasks -> Answers],
           AttemptsNumbered' /\ RequestsNamed',
           streams' \subseteq streams, events' \in [Attempts -> Seq(StreamEvents)],
           gone' \subseteq Tasks, jobCancels' \subseteq Tasks, shown' \subseteq Attempts
    PROVE IndInv'
<1>1. AttemptsKept
    BY KeptFrame
<1>2. RequestTypeOK'
    BY DEF IndInv, TypeOK, RequestTypeOK
<1>3. StreamsNamed'
    BY <1>1, StreamsFrame DEF IndInv, TypeOK, Bookkeeping, sessVars
<1> QED
    BY <1>1, <1>2, <1>3, RequestStepInv

\* A step that leaves the requests alone satisfies the premises on them.
LEMMA RequestUnmoved ==
    ASSUME IndInv, UNCHANGED <<attempt, req>>
    PROVE req' \in [Tasks -> RequestRecord] /\ AttemptsNumbered' /\ RequestsNamed'
<1>1. AttemptsNumbered' /\ RequestsNamed'
    BY NumbersFrame, NamesFrame DEF IndInv, Bookkeeping
<1> QED
    BY <1>1 DEF IndInv, TypeOK, RequestTypeOK

\* markTaskCancelRequested and the cancel messages keep types and names.
LEMMA CancelTaskInv ==
    ASSUME IndInv, NEW t \in Tasks, NEW more \in SUBSET Attempts, \A a \in more : Exists(a),
           CancelTask(t, more), UNCHANGED <<up, attempt>>
    PROVE task' \in [Tasks -> TaskStatus] /\ NetTypeOK' /\ MessagesNamed'
<1>1. task' \in [Tasks -> TaskStatus]
    BY DEF CancelTask, IndInv, TypeOK, DbTypeOK, TaskStatus
<1>2. SendCancels(Running(t) \cup more)
    BY DEF CancelTask
<1>3. /\ Running(t) \cup more \in SUBSET Attempts
      /\ \A a \in Running(t) \cup more : Exists(a)
    BY DEF Running, Exists
<1>4. NetTypeOK' /\ MessagesNamed'
    BY <1>2, <1>3, SendCancelsInv DEF IndInv, TypeOK, Bookkeeping
<1> QED
    BY <1>1, <1>4

\* What a request with a current attempt knows of it.
LEMMA CurrentAttempt ==
    ASSUME IndInv, NEW t \in Tasks, req[t].pc \in {"dispatch", "wait"}
    PROVE /\ Current(t) \in Attempts /\ TaskOf(Current(t)) = t
          /\ Exists(Current(t)) /\ attempt[Current(t)].slot \in Slots
<1>1. req[t].n \in 1..MaxAttempts
    BY BoundsAssumption
       DEF IndInv, TypeOK, RequestTypeOK, RequestRecord, Bookkeeping, RequestsNamed
<1>2. Current(t) \in Attempts /\ TaskOf(Current(t)) = t /\ Current(t)[2] = req[t].n
    BY <1>1 DEF Current, Attempts, TaskOf
<1> QED
    BY <1>1, <1>2 DEF IndInv, Bookkeeping, AttemptsNumbered

\* selectReadySlot: the chosen slot and its session exist.
LEMMA SelectSlotInv ==
    ASSUME IndInv, NEW t \in Tasks, SelectSlot(t)
    PROVE IndInv'
<1>1. TypeOK /\ Bookkeeping
    BY DEF IndInv
<1>2. PICK s \in Reachable(t) :
        req' = [req EXCEPT ![t] = [@ EXCEPT !.pc = "reserve", !.slot = s,
                                            !.sess = session[NodeOf[s]]]]
    BY DEF SelectSlot
<1>3. UNCHANGED <<db, sessVars, streams, events, resp, gone, jobCancels, shown,
                  netVars, workerVars>>
    BY DEF SelectSlot
<1>4. s \in Slots /\ session[NodeOf[s]] \in Sessions /\ req[t].n < MaxAttempts
    BY <1>1, ConstantsAssumption DEF Reachable, TypeOK, SessionTypeOK, SelectSlot
<1> DEFINE r == [req[t] EXCEPT !.pc = "reserve", !.slot = s, !.sess = session[NodeOf[s]]]
<1>5. /\ r \in RequestRecord /\ r.n = req[t].n /\ r.pc = "reserve"
      /\ r.slot = s /\ r.sess = session[NodeOf[s]]
    BY <1>1, <1>4 DEF TypeOK, RequestTypeOK, RequestRecord, RequestPC
<1>6. req' = [req EXCEPT ![t] = r]
    BY <1>2
<1>7. DbTypeOK' /\ NetTypeOK' /\ MessagesNamed'
    BY <1>1, <1>3, DbFrame, NetFrame, MessagesFrame, KeptFrame DEF TypeOK, Bookkeeping, db, netVars
<1> HIDE DEF r
<1>8. req' \in [Tasks -> RequestRecord] /\ AttemptsNumbered' /\ RequestsNamed'
    BY <1>1, <1>3, <1>4, <1>5, <1>6, RequestMoves DEF TypeOK, Bookkeeping, db
<1> QED
    BY <1>1, <1>3, <1>7, <1>8, RequestMoveInv DEF TypeOK, RequestTypeOK, db, netVars

\* The failure for want of capacity preserves the invariant.
LEMMA NoCapacityInv ==
    ASSUME IndInv, NEW t \in Tasks, NoCapacity(t)
    PROVE IndInv'
<1>1. TypeOK /\ Bookkeeping
    BY DEF IndInv
<1>2. /\ Finish(t, "error")
      /\ UNCHANGED <<failedSlots, attempt, slot, failures, node, reports, charged, sessVars,
                     streams, events, gone, jobCancels, shown, netVars, workerVars>>
    BY DEF NoCapacity
<1>3. task' \in [Tasks -> TaskStatus]
    BY <1>1 DEF NoCapacity, TypeOK, DbTypeOK, TaskStatus
<1>4. DbTypeOK'
    BY <1>1, <1>2, <1>3, TaskInv DEF TypeOK
<1>5. NetTypeOK' /\ MessagesNamed'
    BY <1>1, <1>2, NetFrame, MessagesFrame, KeptFrame DEF TypeOK, Bookkeeping, netVars
<1>6. /\ req' \in [Tasks -> RequestRecord] /\ resp' \in [Tasks -> Answers]
      /\ AttemptsNumbered' /\ RequestsNamed'
    BY <1>1, <1>2, FinishInv DEF TypeOK, Bookkeeping, Answers
<1> QED
    BY <1>1, <1>2, <1>4, <1>5, <1>6, RequestMoveInv DEF TypeOK, RequestTypeOK, netVars

\* The cancellation found by startAttempt preserves the invariant.
LEMMA StartCancelledInv ==
    ASSUME IndInv, NEW t \in Tasks, StartCancelled(t)
    PROVE IndInv'
<1>1. TypeOK /\ Bookkeeping
    BY DEF IndInv
<1>2. /\ CancelTask(t, {})
      /\ Finish(t, "cancelled")
      /\ UNCHANGED <<failedSlots, attempt, slot, failures, node, reports, charged, sessVars,
                     streams, events, gone, jobCancels, shown, up, workerVars>>
    BY DEF StartCancelled
<1>3. task' \in [Tasks -> TaskStatus] /\ NetTypeOK' /\ MessagesNamed'
    BY <1>2, CancelTaskInv
<1>4. DbTypeOK'
    BY <1>1, <1>2, <1>3, TaskInv DEF TypeOK
<1>5. /\ req' \in [Tasks -> RequestRecord] /\ resp' \in [Tasks -> Answers]
      /\ AttemptsNumbered' /\ RequestsNamed'
    BY <1>1, <1>2, FinishInv DEF TypeOK, Bookkeeping, Answers
<1> QED
    BY <1>1, <1>2, <1>3, <1>4, <1>5, RequestMoveInv DEF TypeOK, RequestTypeOK

\* A client that leaves changes no record.
LEMMA ClientGoneInv ==
    ASSUME IndInv, NEW t \in Tasks, ClientGone(t)
    PROVE IndInv'
<1>1. TypeOK /\ Bookkeeping
    BY DEF IndInv
<1>2. /\ gone' = gone \cup {t}
      /\ UNCHANGED <<db, sessVars, streams, events, req, resp, jobCancels, shown,
                     netVars, workerVars>>
    BY DEF ClientGone
<1>3. DbTypeOK' /\ NetTypeOK' /\ MessagesNamed'
    BY <1>1, <1>2, DbFrame, NetFrame, MessagesFrame, KeptFrame DEF TypeOK, Bookkeeping, db, netVars
<1>4. req' \in [Tasks -> RequestRecord] /\ AttemptsNumbered' /\ RequestsNamed'
    BY <1>2, RequestUnmoved DEF db
<1> QED
    BY <1>1, <1>2, <1>3, <1>4, RequestMoveInv DEF TypeOK, RequestTypeOK, db, netVars

\* handleJobs preserves the invariant.
LEMMA CancelJobInv ==
    ASSUME IndInv, NEW t \in Tasks, CancelJob(t)
    PROVE IndInv'
<1>1. TypeOK /\ Bookkeeping
    BY DEF IndInv
<1>2. /\ jobCancels' = jobCancels \cup {t}
      /\ CancelTask(t, {})
      /\ UNCHANGED <<failedSlots, attempt, slot, failures, node, reports, charged, sessVars,
                     streams, events, req, resp, gone, shown, up, workerVars>>
    BY DEF CancelJob
<1>3. task' \in [Tasks -> TaskStatus] /\ NetTypeOK' /\ MessagesNamed'
    BY <1>2, CancelTaskInv
<1>4. DbTypeOK'
    BY <1>1, <1>2, <1>3, TaskInv DEF TypeOK
<1>5. req' \in [Tasks -> RequestRecord] /\ AttemptsNumbered' /\ RequestsNamed'
    BY <1>2, RequestUnmoved
<1> QED
    BY <1>1, <1>2, <1>3, <1>4, <1>5, RequestMoveInv DEF TypeOK, RequestTypeOK

\* cleanupAttempt keeps the streams and their channels typed.
LEMMA CleanupInv ==
    ASSUME RequestTypeOK, NEW a \in Attempts, Cleanup(a)
    PROVE streams' \subseteq streams /\ events' \in [Attempts -> Seq(StreamEvents)]
<1>1. <<>> \in Seq(StreamEvents)
    OBVIOUS
<1> QED
    BY <1>1 DEF Cleanup, RequestTypeOK

\* The end of a request's context preserves the invariant.
LEMMA ContextDoneInv ==
    ASSUME IndInv, NEW t \in Tasks, ContextDone(t)
    PROVE IndInv'
<1>1. TypeOK /\ Bookkeeping
    BY DEF IndInv
<1>2. /\ Cleanup(Current(t))
      /\ CancelTask(t, {Current(t)})
      /\ Finish(t, "cancelled")
      /\ UNCHANGED <<failedSlots, attempt, slot, failures, node, reports, charged, sessVars,
                     gone, jobCancels, shown, up, workerVars>>
      /\ req[t].pc = "wait"
    BY DEF ContextDone
<1>3. {Current(t)} \in SUBSET Attempts /\ \A a \in {Current(t)} : Exists(a)
    BY <1>2, CurrentAttempt
<1>4. task' \in [Tasks -> TaskStatus] /\ NetTypeOK' /\ MessagesNamed'
    BY <1>2, <1>3, CancelTaskInv
<1>5. DbTypeOK'
    BY <1>1, <1>2, <1>4, TaskInv DEF TypeOK
<1>6. /\ req' \in [Tasks -> RequestRecord] /\ resp' \in [Tasks -> Answers]
      /\ AttemptsNumbered' /\ RequestsNamed'
    BY <1>1, <1>2, FinishInv DEF TypeOK, Bookkeeping, Answers
<1>7. streams' \subseteq streams /\ events' \in [Attempts -> Seq(StreamEvents)]
    BY <1>1, <1>2, <1>3, CleanupInv DEF TypeOK
<1> QED
    BY <1>1, <1>2, <1>4, <1>5, <1>6, <1>7, RequestMoveInv DEF TypeOK, RequestTypeOK

\* Every kind of event a request takes preserves the invariant.
LEMMA TakeEventInv ==
    ASSUME IndInv, NEW t \in Tasks, TakeEvent(t)
    PROVE IndInv'
<1> DEFINE a == Current(t)
<1>1. TypeOK /\ Bookkeeping
    BY DEF IndInv
<1>2. /\ UNCHANGED <<db, sessVars, gone, jobCancels, up, workerVars>>
      /\ req[t].pc = "wait" /\ events[a] # <<>>
    BY DEF TakeEvent
<1>3. a \in Attempts /\ {a} \in SUBSET Attempts /\ \A b \in {a} : Exists(b)
    BY <1>2, CurrentAttempt
<1>4. DbTypeOK' /\ UNCHANGED attempt
    BY <1>1, <1>2, DbFrame DEF TypeOK, db
<1>5. ASSUME SendCancels({a}) \/ UNCHANGED down
      PROVE NetTypeOK' /\ MessagesNamed'
    <2>1. CASE SendCancels({a})
        BY <1>1, <1>2, <1>3, <1>4, <2>1, SendCancelsInv DEF TypeOK, Bookkeeping
    <2>2. CASE UNCHANGED down
        BY <1>1, <1>2, <1>4, <2>2, NetFrame, MessagesFrame, KeptFrame
           DEF TypeOK, Bookkeeping, netVars
    <2> QED
        BY <1>5, <2>1, <2>2
<1>6. CASE /\ events' = [events EXCEPT ![a] = Tail(@)]
           /\ shown' = IF t \in Streaming THEN shown \cup {a} ELSE shown
           /\ UNCHANGED <<streams, req, resp, down>>
    <2>1. events' \in [Attempts -> Seq(StreamEvents)]
        BY <1>1, <1>2, <1>3, <1>6 DEF TypeOK, RequestTypeOK
    <2>2. shown' \subseteq Attempts
        BY <1>1, <1>3, <1>6 DEF TypeOK, RequestTypeOK
    <2>3. req' \in [Tasks -> RequestRecord] /\ AttemptsNumbered' /\ RequestsNamed'
        BY <1>4, <1>6, RequestUnmoved
    <2> QED
        BY <1>1, <1>2, <1>4, <1>5, <1>6, <2>1, <2>2, <2>3, RequestMoveInv
           DEF TypeOK, RequestTypeOK
<1>7. CASE /\ Cleanup(a)
           /\ req' = [req EXCEPT ![t] = [@ EXCEPT !.pc = "start", !.slot = NoSlot, !.sess = 0]]
           /\ IF t \in gone THEN SendCancels({a}) ELSE UNCHANGED down
           /\ UNCHANGED <<resp, shown>>
    <2> DEFINE r == [req[t] EXCEPT !.pc = "start", !.slot = NoSlot, !.sess = 0]
    <2>1. r \in RequestRecord /\ r.n = req[t].n /\ r.pc = "start"
        BY <1>1 DEF TypeOK, RequestTypeOK, RequestRecord, RequestPC
    <2>2. req' = [req EXCEPT ![t] = r]
        BY <1>7
    <2> HIDE DEF r
    <2>3. req' \in [Tasks -> RequestRecord] /\ AttemptsNumbered' /\ RequestsNamed'
        BY <1>1, <1>4, <2>1, <2>2, RequestMoves DEF TypeOK, Bookkeeping
    <2>4. streams' \subseteq streams /\ events' \in [Attempts -> Seq(StreamEvents)]
        BY <1>1, <1>3, <1>7, CleanupInv DEF TypeOK
    <2>5. NetTypeOK' /\ MessagesNamed'
        BY <1>5, <1>7
    <2> QED
        BY <1>1, <1>2, <1>4, <1>7, <2>3, <2>4, <2>5, RequestMoveInv DEF TypeOK, RequestTypeOK
<1>8. ASSUME NEW answer \in {"ok", "error"},
             Cleanup(a), Finish(t, answer), SendCancels({a}) \/ UNCHANGED down, UNCHANGED shown
      PROVE IndInv'
    <2>1. /\ req' \in [Tasks -> RequestRecord] /\ resp' \in [Tasks -> Answers]
          /\ AttemptsNumbered' /\ RequestsNamed'
        <3>1. answer \in Answers
            BY <1>8 DEF Answers
        <3> QED
            BY <1>1, <1>4, <1>8, <3>1, FinishInv DEF TypeOK, Bookkeeping
    <2>2. streams' \subseteq streams /\ events' \in [Attempts -> Seq(StreamEvents)]
        BY <1>1, <1>3, <1>8, CleanupInv DEF TypeOK
    <2>3. NetTypeOK' /\ MessagesNamed'
        BY <1>5, <1>8
    <2> QED
        BY <1>1, <1>2, <1>4, <1>8, <2>1, <2>2, <2>3, RequestMoveInv DEF TypeOK, RequestTypeOK
<1> QED
    BY <1>6, <1>7, <1>8 DEF TakeEvent

\* reserveAttemptInDB: the new attempt gets the next number and its slot.
LEMMA ReserveAttemptInv ==
    ASSUME IndInv, NEW t \in Tasks, ReserveAttempt(t)
    PROVE IndInv'
<1> DEFINE s == req[t].slot
           a == <<t, req[t].n + 1>>
<1>1. TypeOK /\ Bookkeeping
    BY DEF IndInv
<1>2. /\ UNCHANGED <<failedSlots, failures, node, reports, charged, sessVars,
                     streams, events, gone, jobCancels, shown, up, workerVars>>
      /\ req[t].pc = "reserve"
    BY DEF ReserveAttempt
<1>3. CASE /\ slot' = [slot EXCEPT ![s] = [@ EXCEPT !.state = "serving", !.active = t,
                                                   !.accepts = FALSE]]
           /\ task' = [task EXCEPT ![t] = "running"]
           /\ attempt' = [attempt EXCEPT ![a] = [status |-> "running", slot |-> s,
                                                 first |-> FALSE]]
           /\ req' = [req EXCEPT ![t] = [@ EXCEPT !.pc = "dispatch", !.n = req[t].n + 1]]
           /\ UNCHANGED <<resp, down>>
    <2>1. s \in Slots /\ req[t].sess \in Sessions /\ req[t].n \in 0..MaxAttempts
          /\ req[t].n < MaxAttempts
        BY <1>1, <1>2 DEF TypeOK, RequestTypeOK, RequestRecord, Bookkeeping, RequestsNamed
    <2>2. a \in Attempts /\ a[1] = t /\ a[2] = req[t].n + 1
        BY <2>1, BoundsAssumption DEF Attempts
    <2>3. /\ attempt' \in [Attempts -> AttemptRecord]
          /\ attempt'[a] = [status |-> "running", slot |-> s, first |-> FALSE]
          /\ \A b \in Attempts \ {a} : attempt'[b] = attempt[b]
        <3>1. [status |-> "running", slot |-> s, first |-> FALSE] \in AttemptRecord
            BY <2>1 DEF AttemptRecord, AttemptStatus, TaskStatus
        <3> QED
            BY <1>1, <1>3, <2>2, <3>1 DEF TypeOK, DbTypeOK
    <2>4. slot' \in [Slots -> SlotRecord]
        <3>1. slot[s] \in SlotRecord /\ slot \in [Slots -> SlotRecord]
            BY <1>1, <2>1 DEF TypeOK, DbTypeOK
        <3>2. [slot[s] EXCEPT !.state = "serving", !.active = t, !.accepts = FALSE] \in SlotRecord
            BY <3>1 DEF SlotRecord, SlotState
        <3> QED
            BY <1>3, <3>1, <3>2
    <2>5. DbTypeOK'
        <3>1. task' \in [Tasks -> TaskStatus]
            BY <1>1, <1>3 DEF TypeOK, DbTypeOK, TaskStatus
        <3> QED
            BY <1>1, <1>2, <2>3, <2>4, <3>1 DEF TypeOK, DbTypeOK
    <2>6. /\ req' \in [Tasks -> RequestRecord]
          /\ req'[t] = [req[t] EXCEPT !.pc = "dispatch", !.n = req[t].n + 1]
          /\ \A u \in Tasks \ {t} : req'[u] = req[u]
        <3> DEFINE r == [req[t] EXCEPT !.pc = "dispatch", !.n = req[t].n + 1]
        <3>1. req[t] \in RequestRecord /\ req \in [Tasks -> RequestRecord]
            BY <1>1 DEF TypeOK, RequestTypeOK
        <3>2. req[t].n + 1 \in 0..MaxAttempts
            BY <2>1, BoundsAssumption
        <3>3. r \in RequestRecord
            BY <3>1, <3>2 DEF RequestRecord, RequestPC
        <3>4. req' = [req EXCEPT ![t] = r]
            BY <1>3
        <3>5. r = [req[t] EXCEPT !.pc = "dispatch", !.n = req[t].n + 1]
            OBVIOUS
        <3> HIDE DEF r
        <3>6. req' \in [Tasks -> RequestRecord] /\ req'[t] = r /\ \A u \in Tasks \ {t} : req'[u] = req[u]
            BY <3>1, <3>3, <3>4
        <3> QED
            BY <3>5, <3>6, Zenon
    <2>7. req'[t].pc = "dispatch" /\ req'[t].n = req[t].n + 1
          /\ req'[t].slot = s /\ req'[t].sess = req[t].sess
        BY <1>1, <2>6 DEF TypeOK, RequestTypeOK, RequestRecord
    <2>8. ~Exists(a)
        BY <1>1, <2>1, <2>2 DEF Bookkeeping, AttemptsNumbered, TaskOf
    <2>9. AttemptsKept
        BY <2>3, <2>8 DEF AttemptsKept, Exists
    <2>10. AttemptsNumbered'
        <3> SUFFICES ASSUME NEW b \in Attempts
                     PROVE /\ Exists(b)' <=> b[2] <= req'[b[1]].n
                           /\ Exists(b)' => attempt'[b].slot \in Slots
            BY DEF AttemptsNumbered, TaskOf
        <3>1. b[1] \in Tasks /\ b[2] \in 1..MaxAttempts /\ b = <<b[1], b[2]>>
            BY DEF Attempts
        <3>2. CASE b = a
            BY <2>1, <2>2, <2>3, <2>7, <3>2 DEF Exists
        <3>3. CASE b # a
            <4>1. /\ Exists(b)' <=> Exists(b)
                  /\ attempt'[b].slot = attempt[b].slot
                BY <2>3, <3>3 DEF Exists
            <4>2. b[2] <= req'[b[1]].n <=> b[2] <= req[b[1]].n
                <5>1. CASE b[1] = t
                    <6>1. b[2] # req[t].n + 1
                        BY <3>1, <3>3, <5>1
                    <6> QED
                        BY <2>1, <2>7, <3>1, <5>1, <6>1, BoundsAssumption
                <5>2. CASE b[1] # t
                    BY <2>6, <3>1, <5>2
                <5> QED
                    BY <5>1, <5>2
            <4> QED
                BY <1>1, <4>1, <4>2 DEF Bookkeeping, AttemptsNumbered, TaskOf
        <3> QED
            BY <3>2, <3>3
    <2>11. RequestsNamed'
        <3> SUFFICES ASSUME NEW u \in Tasks
                     PROVE /\ req'[u].pc \in {"reserve", "dispatch"}
                                => req'[u].slot \in Slots /\ req'[u].sess \in Sessions
                           /\ req'[u].pc = "reserve" => req'[u].n < MaxAttempts
                           /\ req'[u].pc \in {"dispatch", "wait"} => req'[u].n > 0
                           /\ req'[u].pc = "dispatch"
                                => attempt'[<<u, req'[u].n>>].slot = req'[u].slot
            BY DEF RequestsNamed, Current
        <3>1. CASE u = t
            BY <2>1, <2>3, <2>7, <3>1
        <3>2. CASE u # t
            <4>1. req'[u] = req[u]
                BY <2>6, <3>2
            <4>2. CASE req[u].pc = "dispatch"
                <5>1. Current(u) \in Attempts /\ Current(u) # a
                    BY <4>2, <3>2, CurrentAttempt DEF Current
                <5> QED
                    BY <1>1, <2>3, <4>1, <4>2, <5>1 DEF Bookkeeping, RequestsNamed, Current
            <4>3. CASE req[u].pc # "dispatch"
                BY <1>1, <4>1, <4>3 DEF Bookkeeping, RequestsNamed
            <4> QED
                BY <4>2, <4>3
        <3> QED
            BY <3>1, <3>2
    <2>12. NetTypeOK' /\ MessagesNamed'
        BY <1>1, <1>2, <1>3, <2>9, NetFrame, MessagesFrame DEF TypeOK, Bookkeeping, netVars
    <2>13. RequestTypeOK'
        BY <1>1, <1>2, <1>3, <2>6 DEF TypeOK, RequestTypeOK
    <2>14. StreamsNamed'
        BY <1>1, <1>2, <2>9, StreamsFrame DEF TypeOK, Bookkeeping, sessVars
    <2> QED
        BY <1>2, <2>5, <2>9, <2>10, <2>11, <2>12, <2>13, <2>14, RequestStepInv
<1>4. CASE /\ req' = [req EXCEPT ![t] = [@ EXCEPT !.pc = "start", !.slot = NoSlot, !.sess = 0]]
           /\ UNCHANGED <<task, slot, attempt, resp, down>>
    <2> DEFINE r == [req[t] EXCEPT !.pc = "start", !.slot = NoSlot, !.sess = 0]
    <2>1. r \in RequestRecord /\ r.n = req[t].n /\ r.pc = "start"
        BY <1>1 DEF TypeOK, RequestTypeOK, RequestRecord, RequestPC
    <2>2. req' = [req EXCEPT ![t] = r]
        BY <1>4
    <2> HIDE DEF r
    <2>3. req' \in [Tasks -> RequestRecord] /\ AttemptsNumbered' /\ RequestsNamed'
        BY <1>1, <1>4, <2>1, <2>2, RequestMoves DEF TypeOK, Bookkeeping
    <2>4. DbTypeOK' /\ NetTypeOK' /\ MessagesNamed'
        BY <1>1, <1>2, <1>4, DbFrame, NetFrame, MessagesFrame, KeptFrame
           DEF TypeOK, Bookkeeping, db, netVars
    <2> QED
        BY <1>1, <1>2, <1>4, <2>3, <2>4, RequestMoveInv DEF TypeOK, RequestTypeOK
<1>5. CASE /\ CancelTask(t, {})
           /\ Finish(t, "cancelled")
           /\ UNCHANGED <<slot, attempt>>
    <2>1. task' \in [Tasks -> TaskStatus] /\ NetTypeOK' /\ MessagesNamed'
        BY <1>2, <1>5, CancelTaskInv
    <2>2. DbTypeOK'
        BY <1>1, <1>2, <1>5, <2>1, TaskInv DEF TypeOK
    <2>3. /\ req' \in [Tasks -> RequestRecord] /\ resp' \in [Tasks -> Answers]
          /\ AttemptsNumbered' /\ RequestsNamed'
        BY <1>1, <1>5, FinishInv DEF TypeOK, Bookkeeping, Answers
    <2> QED
        BY <1>1, <1>2, <1>5, <2>1, <2>2, <2>3, RequestMoveInv DEF TypeOK, RequestTypeOK
<1> QED
    BY <1>3, <1>4, <1>5 DEF ReserveAttempt

\* The quarantine counters and the slot record after a failure.
LEMMA RecordSlotFailureType ==
    ASSUME NEW s, NEW record \in SlotRecord, NEW r, NEW k
    PROVE RecordSlotFailure(s, record, r, k) \in SlotRecord
<1>1. [record EXCEPT !.quarantined = TRUE, !.accepts = FALSE] \in SlotRecord
    BY DEF SlotRecord
<1> QED
    BY <1>1 DEF RecordSlotFailure

\* The failure counters stay counters.
LEMMA CountFailureType ==
    ASSUME failures \in [Slots -> [Reasons -> Nat]], NEW s \in Slots, NEW r, CountFailure(s, r)
    PROVE failures' \in [Slots -> [Reasons -> Nat]]
<1> DEFINE counters == [failures[s] EXCEPT ![r] = failures[s][r] + 1]
<1>1. failures[s] \in [Reasons -> Nat]
    OBVIOUS
<1>2. counters \in [Reasons -> Nat]
    <2>1. CASE r \in Reasons
        BY <1>1, <2>1
    <2>2. CASE r \notin Reasons
        BY <1>1, <2>2
    <2> QED
        BY <2>1, <2>2
<1>3. failures' = [failures EXCEPT ![s] = counters]
    BY DEF CountFailure
<1> HIDE DEF counters
<1> QED
    BY <1>2, <1>3

\* markAttemptFailed keeps the database typed and the attempt on its slot.
LEMMA MarkAttemptFailedInv ==
    ASSUME IndInv, NEW a \in Attempts, Exists(a), MarkAttemptFailed(a),
           UNCHANGED <<node, reports, charged>>
    PROVE /\ DbTypeOK' /\ AttemptsKept
          /\ \A b \in Attempts : Exists(b)' <=> Exists(b)
          /\ \A b \in Attempts : attempt'[b].slot = attempt[b].slot
<1> DEFINE s == attempt[a].slot
           t == TaskOf(a)
<1>1. DbTypeOK /\ AttemptsNumbered
    BY DEF IndInv, TypeOK, Bookkeeping
<1>2. s \in Slots /\ t \in Tasks
    BY <1>1 DEF AttemptsNumbered, Attempts, TaskOf
<1>3. /\ attempt' \in [Attempts -> AttemptRecord]
      /\ attempt'[a].status = "failed" /\ attempt'[a].slot = attempt[a].slot
      /\ \A b \in Attempts \ {a} : attempt'[b] = attempt[b]
    <2> DEFINE r == [attempt[a] EXCEPT !.status = "failed", !.first = FALSE]
    <2>1. attempt[a] \in AttemptRecord /\ attempt \in [Attempts -> AttemptRecord]
        BY <1>1 DEF DbTypeOK
    <2>2. r \in AttemptRecord /\ r.status = "failed" /\ r.slot = attempt[a].slot
        BY <2>1 DEF AttemptRecord, AttemptStatus, TaskStatus
    <2>3. attempt' = [attempt EXCEPT ![a] = r]
        BY DEF MarkAttemptFailed
    <2> HIDE DEF r
    <2> QED
        BY <2>1, <2>2, <2>3
<1>4. slot' \in [Slots -> SlotRecord]
    <2> DEFINE r == [slot[s] EXCEPT !.state = "ready", !.active = NoTask]
    <2>1. slot[s] \in SlotRecord /\ slot \in [Slots -> SlotRecord]
        BY <1>1, <1>2 DEF DbTypeOK
    <2>2. r \in SlotRecord
        BY <2>1 DEF SlotRecord, SlotState
    <2>3. slot' = [slot EXCEPT ![s] = RecordSlotFailure(s, r, "worker_disconnected", 1)]
        BY DEF MarkAttemptFailed
    <2> HIDE DEF r, s
    <2> QED
        BY <2>1, <2>2, <2>3, RecordSlotFailureType
<1>5. failures' \in [Slots -> [Reasons -> Nat]]
    <2>1. CountFailure(s, "worker_disconnected")
        BY DEF MarkAttemptFailed
    <2> QED
        BY <1>1, <1>2, <2>1, CountFailureType DEF DbTypeOK
<1>6. /\ failedSlots' \in [Tasks -> SUBSET Slots]
      /\ task' \in [Tasks -> TaskStatus]
    BY <1>1, <1>2 DEF MarkAttemptFailed, DbTypeOK, TaskStatus
<1>7. DbTypeOK'
    BY <1>1, <1>3, <1>4, <1>5, <1>6 DEF DbTypeOK
<1>8. \A b \in Attempts : (Exists(b)' <=> Exists(b)) /\ attempt'[b].slot = attempt[b].slot
    BY <1>3 DEF Exists
<1> QED
    BY <1>7, <1>8 DEF AttemptsKept

\* dispatchAttempt: the message names the attempt just made, on its own node.
LEMMA DispatchAttemptInv ==
    ASSUME IndInv, NEW t \in Tasks, DispatchAttempt(t)
    PROVE IndInv'
<1> DEFINE a == Current(t)
           n == NodeOf[req[t].slot]
           e == req[t].sess
<1>1. TypeOK /\ Bookkeeping
    BY DEF IndInv
<1>2. /\ UNCHANGED <<node, reports, charged, sessVars, events, gone, jobCancels, shown,
                     up, workerVars>>
      /\ req[t].pc = "dispatch"
    BY DEF DispatchAttempt
<1>3. a \in Attempts /\ Exists(a) /\ attempt[a].slot \in Slots
    BY <1>2, CurrentAttempt
<1>4. n \in Nodes /\ e \in Sessions /\ req[t].slot \in Slots /\ a \in AttemptsOn(n)
    BY <1>1, <1>2, <1>3, ConstantsAssumption
       DEF Bookkeeping, RequestsNamed, AttemptsOn, NodeOfAttempt
<1>5. ASSUME streams' = streams \cup {a}, req' = [req EXCEPT ![t].pc = "wait"],
             UNCHANGED <<task, failedSlots, attempt, slot, failures, resp>>,
             NetTypeOK' /\ MessagesNamed'
      PROVE IndInv'
    <2> DEFINE r == [req[t] EXCEPT !.pc = "wait"]
    <2>1. r \in RequestRecord /\ r.n = req[t].n /\ r.pc = "wait" /\ r.n > 0
        BY <1>1, <1>2 DEF TypeOK, RequestTypeOK, RequestRecord, RequestPC, Bookkeeping, RequestsNamed
    <2>2. req' = [req EXCEPT ![t] = r]
        BY <1>5
    <2> HIDE DEF r
    <2>3. req' \in [Tasks -> RequestRecord] /\ AttemptsNumbered' /\ RequestsNamed'
        BY <1>1, <1>5, <2>1, <2>2, RequestMoves DEF TypeOK, Bookkeeping
    <2>4. AttemptsKept
        BY <1>5, KeptFrame
    <2>5. DbTypeOK'
        BY <1>1, <1>2, <1>5, DbFrame DEF TypeOK, db
    <2>6. RequestTypeOK'
        BY <1>1, <1>2, <1>3, <1>5, <2>3 DEF TypeOK, RequestTypeOK
    <2>7. StreamsNamed'
        <3>1. \A b \in streams' : b \in Attempts /\ Exists(b)
            BY <1>1, <1>3, <1>5 DEF TypeOK, RequestTypeOK, Bookkeeping, StreamsNamed
        <3>2. \A b \in streams' : Exists(b)'
            BY <2>4, <3>1 DEF AttemptsKept
        <3>3. \A m \in Nodes : \A f \in Sessions : \A p \in pending'[m][f] : Exists(p.att)'
            BY <1>1, <1>2, <1>5 DEF Bookkeeping, StreamsNamed, sessVars, Exists
        <3> QED
            BY <3>2, <3>3 DEF StreamsNamed
    <2> QED
        BY <1>2, <1>5, <2>3, <2>4, <2>5, <2>6, <2>7, RequestStepInv
<1>6. CASE /\ down' = [down EXCEPT ![n][e] =
                          Append(@, [kind |-> "execute_task", atts |-> {a}])]
           /\ streams' = streams \cup {a}
           /\ req' = [req EXCEPT ![t].pc = "wait"]
           /\ UNCHANGED <<task, failedSlots, attempt, slot, failures, resp>>
    <2> DEFINE m == [kind |-> "execute_task", atts |-> {a}]
    <2>1. m \in DownMessage /\ m \in DownMessageOn(n)
        BY <1>3, <1>4 DEF DownMessage, DownMessageOn
    <2>2. down' = [down EXCEPT ![n][e] = Append(@, m)]
        BY <1>6
    <2> HIDE DEF m, n, e, a
    <2>3. NetTypeOK'
        BY <1>1, <1>2, <1>4, <2>1, <2>2, AppendSeq DEF TypeOK, NetTypeOK
    <2>4. ASSUME NEW o \in Nodes, NEW f \in Sessions
          PROVE up'[o][f] \in Seq(UpMessageOn(o)) /\ down'[o][f] \in Seq(DownMessageOn(o))
        BY <1>1, <1>2, <1>4, <2>1, <2>2, AppendSeq
           DEF TypeOK, NetTypeOK, Bookkeeping, MessagesNamed
    <2>5. MessagesNamed'
        BY <1>1, <1>6, <2>4, KeptFrame, MessagesKept, SeqMonotonic DEF Bookkeeping, MessagesNamed
    <2> QED
        BY <1>5, <1>6, <2>3, <2>5
<1>7. CASE /\ streams' = streams \cup {a}
           /\ req' = [req EXCEPT ![t].pc = "wait"]
           /\ UNCHANGED <<task, failedSlots, attempt, slot, failures, resp, down>>
    <2>1. NetTypeOK' /\ MessagesNamed'
        BY <1>1, <1>2, <1>7, NetFrame, MessagesFrame, KeptFrame DEF TypeOK, Bookkeeping, netVars
    <2> QED
        BY <1>5, <1>7, <2>1
<1>8. CASE MarkAttemptFailed(a) /\ Finish(t, "error") /\ UNCHANGED <<streams, down>>
    <2>1. /\ DbTypeOK' /\ AttemptsKept
          /\ \A b \in Attempts : Exists(b)' <=> Exists(b)
          /\ \A b \in Attempts : attempt'[b].slot = attempt[b].slot
        BY <1>2, <1>3, <1>8, MarkAttemptFailedInv
    <2> DEFINE r == [req[t] EXCEPT !.pc = "done", !.slot = NoSlot, !.sess = 0]
    <2>2. r \in RequestRecord /\ r.n = req[t].n /\ r.pc = "done"
        BY <1>1 DEF TypeOK, RequestTypeOK, RequestRecord, RequestPC
    <2>3. req' = [req EXCEPT ![t] = r] /\ resp' = [resp EXCEPT ![t] = "error"]
        BY <1>8 DEF Finish
    <2> HIDE DEF r
    <2>4. /\ req' \in [Tasks -> RequestRecord] /\ req'[t] = r
          /\ \A u \in Tasks \ {t} : req'[u] = req[u]
        BY <1>1, <2>2, <2>3 DEF TypeOK, RequestTypeOK
    <2>5. AttemptsNumbered'
        BY <1>1, <2>1, <2>2, <2>4 DEF Bookkeeping, AttemptsNumbered, Attempts, TaskOf
    <2>6. RequestsNamed'
        <3> SUFFICES ASSUME NEW u \in Tasks
                     PROVE /\ req'[u].pc \in {"reserve", "dispatch"}
                                => req'[u].slot \in Slots /\ req'[u].sess \in Sessions
                           /\ req'[u].pc = "reserve" => req'[u].n < MaxAttempts
                           /\ req'[u].pc \in {"dispatch", "wait"} => req'[u].n > 0
                           /\ req'[u].pc = "dispatch"
                                => attempt'[<<u, req'[u].n>>].slot = req'[u].slot
            BY DEF RequestsNamed, Current
        <3>1. CASE u = t
            BY <2>2, <2>4, <3>1
        <3>2. CASE u # t
            <4>1. req[u].pc = "dispatch" => Current(u) \in Attempts
                BY CurrentAttempt
            <4> QED
                BY <1>1, <2>1, <2>4, <3>2, <4>1 DEF Bookkeeping, RequestsNamed, Current
        <3> QED
            BY <3>1, <3>2
    <2>7. NetTypeOK' /\ MessagesNamed'
        BY <1>1, <1>2, <1>8, <2>1, NetFrame, MessagesFrame DEF TypeOK, Bookkeeping, netVars
    <2>8. RequestTypeOK'
        <3>1. resp' \in [Tasks -> Answers]
            BY <1>1, <2>3 DEF TypeOK, RequestTypeOK, Answers
        <3> QED
            BY <1>1, <1>2, <1>8, <2>4, <3>1 DEF TypeOK, RequestTypeOK
    <2>9. StreamsNamed'
        BY <1>1, <1>2, <1>8, <2>1, StreamsFrame DEF TypeOK, Bookkeeping, sessVars
    <2> QED
        BY <1>2, <2>1, <2>5, <2>6, <2>7, <2>8, <2>9, RequestStepInv
<1> QED
    BY <1>6, <1>7, <1>8 DEF DispatchAttempt

-----------------------------------------------------------------------------
(* The Worker *)

\* What a step of a Worker has to show.
LEMMA WorkerStepInv ==
    ASSUME IndInv, UNCHANGED <<db, sessVars, reqVars>>,
           NetTypeOK', MessagesNamed', HeadsKept, WorkerTypeOK', ExecutionsNamed'
    PROVE IndInv'
<1>1. TypeOK /\ Bookkeeping
    BY DEF IndInv
<1>2. UNCHANGED <<attempt, req, streams, pending, reader>> /\ AttemptsKept
    BY KeptFrame DEF db, sessVars, reqVars
<1>3. DbTypeOK' /\ SessionTypeOK' /\ RequestTypeOK'
    BY <1>1, DbFrame, SessionFrame, RequestFrame DEF TypeOK
<1>4. AttemptsNumbered' /\ RequestsNamed' /\ StreamsNamed' /\ ReadersHold'
    BY <1>1, <1>2, NumbersFrame, NamesFrame, StreamsFrame, ReadersFrame DEF TypeOK, Bookkeeping
<1> QED
    BY <1>3, <1>4 DEF IndInv, TypeOK, Bookkeeping

\* An execution goroutine moves on.
LEMMA ExecMoves ==
    ASSUME WorkerTypeOK, ExecutionsNamed, UNCHANGED attempt,
           NEW a \in Attempts, Exists(a), NEW r \in ExecRecord, exec' = [exec EXCEPT ![a] = r]
    PROVE exec' \in [Attempts -> ExecRecord] /\ ExecutionsNamed'
<1>1. exec' \in [Attempts -> ExecRecord]
    BY DEF WorkerTypeOK
<1>2. \A b \in Attempts \ {a} : exec'[b] = exec[b]
    BY DEF WorkerTypeOK
<1>3. ExecutionsNamed'
    BY <1>2 DEF ExecutionsNamed, Exists
<1> QED
    BY <1>1, <1>3

\* An execution that moves on keeps its type and its name.
LEMMA ExecAtInv ==
    ASSUME WorkerTypeOK, ExecutionsNamed, UNCHANGED attempt,
           NEW a \in Attempts, Exists(a), NEW pc \in ExecPC, ExecAt(a, pc)
    PROVE exec' \in [Attempts -> ExecRecord] /\ ExecutionsNamed'
<1> DEFINE r == [exec[a] EXCEPT !.pc = pc]
<1>1. r \in ExecRecord
    BY DEF WorkerTypeOK, ExecRecord
<1>2. exec' = [exec EXCEPT ![a] = r]
    BY DEF ExecAt
<1> HIDE DEF r
<1> QED
    BY <1>1, <1>2, ExecMoves

\* The attempt of an execution, its slot and its node.
LEMMA ExecutedAttempt ==
    ASSUME IndInv, NEW a \in Attempts, exec[a].pc # "none" \/ exec[a].recovery # "off"
    PROVE /\ Exists(a) /\ attempt[a].slot \in Slots
          /\ NodeOfAttempt(a) \in Nodes /\ NodeOfAttempt(a) = NodeOf[attempt[a].slot]
          /\ a \in AttemptsOn(NodeOfAttempt(a))
          /\ TaskOf(a) \in Tasks /\ ProfileOf[TaskOf(a)] \in Profiles
<1>1. Exists(a) /\ attempt[a].slot \in Slots
    BY DEF IndInv, Bookkeeping, ExecutionsNamed, AttemptsNumbered
<1>2. NodeOfAttempt(a) \in Nodes /\ NodeOfAttempt(a) = NodeOf[attempt[a].slot]
    BY <1>1, ConstantsAssumption DEF NodeOfAttempt
<1>3. TaskOf(a) \in Tasks /\ ProfileOf[TaskOf(a)] \in Profiles
    BY ConstantsAssumption DEF TaskOf, Attempts
<1> QED
    BY <1>1, <1>2, <1>3 DEF AttemptsOn

\* The two kinds of message that an execution sends.
LEMMA AttemptMsgType ==
    ASSUME NEW n \in Nodes, NEW a \in AttemptsOn(n), NEW k \in {"started"} \cup StreamEvents,
           NEW r \in Reasons \cup {"none"}
    PROVE AttemptMsg(k, a, r) \in UpMessageOn(n)
<1>1. a \in Attempts
    BY DEF AttemptsOn
<1>2. AttemptMsg(k, a, r) \in AttemptMessage /\ AttemptMsg(k, a, r).att = a
    BY <1>1 DEF AttemptMsg, AttemptMessage
<1> QED
    BY <1>2 DEF UpMessageOn

\* A slot message of a node is about a slot of that node.
LEMMA SlotMsgType ==
    ASSUME NEW s \in Slots, NEW w \in WorkerSlot
    PROVE SlotMsg(s, w) \in UpMessageOn(NodeOf[s])
<1>1. SlotMsg(s, w) \in SlotMessage /\ SlotMsg(s, w).slot = s
    BY DEF SlotMsg, SlotMessage
<1> QED
    BY <1>1 DEF UpMessageOn

\* One message is a sequence of messages.
LEMMA OneMessage ==
    ASSUME NEW S, NEW x \in S
    PROVE <<x>> \in Seq(S) /\ Len(<<x>>) \in 1..2
    OBVIOUS

\* Two messages are a sequence of messages.
LEMMA TwoMessages ==
    ASSUME NEW S, NEW x \in S, NEW y \in S
    PROVE <<x, y>> \in Seq(S) /\ Len(<<x, y>>) \in 1..2
    OBVIOUS

\* A step of an execution that sends nothing.
LEMMA QuietExecInv ==
    ASSUME IndInv, NEW a \in Attempts, exec[a].pc # "none", NEW r \in ExecRecord,
           exec' = [exec EXCEPT ![a] = r],
           UNCHANGED <<db, sessVars, reqVars, netVars, wsess, greeting, wslot, loading>>
    PROVE IndInv'
<1>1. TypeOK /\ Bookkeeping
    BY DEF IndInv
<1>2. UNCHANGED <<attempt, up, down>> /\ AttemptsKept /\ HeadsKept
    BY KeptFrame, HeadsFrame DEF db, netVars
<1>3. exec' \in [Attempts -> ExecRecord] /\ ExecutionsNamed'
    BY <1>1, <1>2, ExecutedAttempt, ExecMoves DEF TypeOK, Bookkeeping
<1>4. WorkerTypeOK'
    BY <1>1, <1>3 DEF TypeOK, WorkerTypeOK
<1>5. NetTypeOK' /\ MessagesNamed'
    BY <1>1, <1>2, NetFrame, MessagesFrame DEF TypeOK, Bookkeeping, netVars
<1> QED
    BY <1>2, <1>3, <1>4, <1>5, WorkerStepInv

\* A step of a Worker that sends one or two messages.
LEMMA SendingInv ==
    ASSUME IndInv, NEW n \in Nodes, NEW ms \in Seq(UpMessageOn(n)), Len(ms) \in 1..2,
           Send(n, ms), UNCHANGED <<db, sessVars, reqVars, down>>,
           WorkerTypeOK', ExecutionsNamed'
    PROVE IndInv'
<1>1. TypeOK /\ Bookkeeping
    BY DEF IndInv
<1>2. NetTypeOK' /\ MessagesNamed' /\ HeadsKept
    BY <1>1, SendInv DEF TypeOK, Bookkeeping, db
<1> QED
    BY <1>2, WorkerStepInv

\* registerActiveAttempt preserves the invariant.
LEMMA RegisterInv ==
    ASSUME IndInv, NEW a \in Attempts, Register(a)
    PROVE IndInv'
<1> DEFINE r == [exec[a] EXCEPT !.pc = "active"]
<1>1. r \in ExecRecord
    BY DEF IndInv, TypeOK, WorkerTypeOK, ExecRecord, ExecPC
<1>2. /\ exec' = [exec EXCEPT ![a] = r] /\ exec[a].pc # "none"
      /\ UNCHANGED <<db, sessVars, reqVars, netVars, wsess, greeting, wslot, loading>>
    BY DEF Register, ExecAt
<1> HIDE DEF r
<1> QED
    BY <1>1, <1>2, QuietExecInv

\* An admission that passes preserves the invariant.
LEMMA AdmitInv ==
    ASSUME IndInv, NEW a \in Attempts, Admit(a)
    PROVE IndInv'
<1> DEFINE r == [exec[a] EXCEPT !.pc = "admitted"]
<1>1. r \in ExecRecord
    BY DEF IndInv, TypeOK, WorkerTypeOK, ExecRecord, ExecPC
<1>2. /\ exec' = [exec EXCEPT ![a] = r] /\ exec[a].pc # "none"
      /\ UNCHANGED <<db, sessVars, reqVars, netVars, wsess, greeting, wslot, loading>>
    BY DEF Admit, ExecAt
<1> HIDE DEF r
<1> QED
    BY <1>1, <1>2, QuietExecInv

\* A runtime error preserves the invariant.
LEMMA RuntimeErrorInv ==
    ASSUME IndInv, NEW a \in Attempts, RuntimeError(a)
    PROVE IndInv'
<1> DEFINE r == [exec[a] EXCEPT !.pc = "failing", !.recovery = "pending"]
<1>1. r \in ExecRecord
    BY DEF IndInv, TypeOK, WorkerTypeOK, ExecRecord, ExecPC
<1>2. /\ exec' = [exec EXCEPT ![a] = r] /\ exec[a].pc # "none"
      /\ UNCHANGED <<db, sessVars, reqVars, netVars, wsess, greeting, wslot, loading>>
    BY DEF RuntimeError
<1> HIDE DEF r
<1> QED
    BY <1>1, <1>2, QuietExecInv

\* failExecution: both messages are about the attempt that was refused.
LEMMA RejectInv ==
    ASSUME IndInv, NEW a \in Attempts, Reject(a)
    PROVE IndInv'
<1> DEFINE n == NodeOfAttempt(a)
<1>1. TypeOK /\ Bookkeeping
    BY DEF IndInv
<1>2. PICK reason \in {"admission_check_failed", "artifact_digest_mismatch"} :
        Send(n, <<AttemptMsg("failed_retry", a, reason), AttemptMsg("report_retry", a, reason)>>)
    BY DEF Reject
<1>3. /\ exec[a].pc = "active" /\ ExecAt(a, "done")
      /\ UNCHANGED <<db, sessVars, reqVars, down, wsess, greeting, wslot, loading>>
    BY DEF Reject
<1>4. n \in Nodes /\ a \in AttemptsOn(n) /\ Exists(a)
    BY <1>3, ExecutedAttempt
<1> DEFINE ms == <<AttemptMsg("failed_retry", a, reason), AttemptMsg("report_retry", a, reason)>>
<1>5. ms \in Seq(UpMessageOn(n)) /\ Len(ms) \in 1..2
    <2>1. /\ reason \in Reasons \cup {"none"}
          /\ {"failed_retry", "report_retry"} \subseteq {"started"} \cup StreamEvents
        BY DEF Reasons, StreamEvents, Failures, Reports
    <2>2. /\ AttemptMsg("failed_retry", a, reason) \in UpMessageOn(n)
          /\ AttemptMsg("report_retry", a, reason) \in UpMessageOn(n)
        BY <1>4, <2>1, AttemptMsgType
    <2> QED
        BY <2>2, TwoMessages
<1>6. WorkerTypeOK' /\ ExecutionsNamed'
    <2>1. exec' \in [Attempts -> ExecRecord] /\ ExecutionsNamed'
        BY <1>1, <1>3, <1>4, ExecAtInv DEF TypeOK, Bookkeeping, ExecPC, db
    <2> QED
        BY <1>1, <1>3, <2>1 DEF TypeOK, WorkerTypeOK
<1> HIDE DEF ms, n
<1> QED
    BY <1>2, <1>3, <1>4, <1>5, <1>6, SendingInv DEF ms

\* setSlotServing and attempt_started preserve the invariant.
LEMMA ServeInv ==
    ASSUME IndInv, NEW a \in Attempts, Serve(a)
    PROVE IndInv'
<1> DEFINE s == attempt[a].slot
           n == NodeOf[s]
           w == [state |-> "serving", active |-> TaskOf(a), profile |-> ProfileOf[TaskOf(a)]]
           ms == <<SlotMsg(s, w), AttemptMsg("started", a, "none")>>
<1>1. TypeOK /\ Bookkeeping
    BY DEF IndInv
<1>2. /\ exec[a].pc = "admitted" /\ ExecAt(a, "serving")
      /\ wslot' = [wslot EXCEPT ![s] = w] /\ Send(n, ms)
      /\ UNCHANGED <<db, sessVars, reqVars, down, wsess, greeting, loading>>
    BY DEF Serve
<1>3. /\ s \in Slots /\ n \in Nodes /\ a \in AttemptsOn(n) /\ Exists(a)
      /\ TaskOf(a) \in Tasks /\ ProfileOf[TaskOf(a)] \in Profiles
    BY <1>2, ExecutedAttempt
<1>4. w \in WorkerSlot
    BY <1>3 DEF WorkerSlot, SlotState
<1> HIDE DEF w
<1>5. ms \in Seq(UpMessageOn(n)) /\ Len(ms) \in 1..2
    <2>1. SlotMsg(s, w) \in UpMessageOn(n)
        BY <1>3, <1>4, SlotMsgType
    <2>2. AttemptMsg("started", a, "none") \in UpMessageOn(n)
        BY <1>3, AttemptMsgType
    <2> QED
        BY <2>1, <2>2, TwoMessages
<1>6. WorkerTypeOK' /\ ExecutionsNamed'
    <2>1. exec' \in [Attempts -> ExecRecord] /\ ExecutionsNamed'
        BY <1>1, <1>2, <1>3, ExecAtInv DEF TypeOK, Bookkeeping, ExecPC, db
    <2>2. wslot' \in [Slots -> WorkerSlot]
        BY <1>1, <1>2, <1>3, <1>4 DEF TypeOK, WorkerTypeOK
    <2> QED
        BY <1>1, <1>2, <2>1, <2>2 DEF TypeOK, WorkerTypeOK
<1> HIDE DEF ms, n
<1> QED
    BY <1>2, <1>3, <1>5, <1>6, SendingInv

\* sendTaskToken preserves the invariant.
LEMMA SendTokenInv ==
    ASSUME IndInv, NEW a \in Attempts, SendToken(a)
    PROVE IndInv'
<1> DEFINE n == NodeOfAttempt(a)
           r == [exec[a] EXCEPT !.first = TRUE]
           ms == <<AttemptMsg("token", a, "none")>>
<1>1. TypeOK /\ Bookkeeping
    BY DEF IndInv
<1>2. /\ exec[a].pc = "serving" /\ exec' = [exec EXCEPT ![a] = r] /\ Send(n, ms)
      /\ UNCHANGED <<db, sessVars, reqVars, down, wsess, greeting, wslot, loading>>
    BY DEF SendToken
<1>3. n \in Nodes /\ a \in AttemptsOn(n) /\ Exists(a)
    BY <1>2, ExecutedAttempt
<1>4. ms \in Seq(UpMessageOn(n)) /\ Len(ms) \in 1..2
    <2>1. AttemptMsg("token", a, "none") \in UpMessageOn(n)
        BY <1>3, AttemptMsgType DEF StreamEvents
    <2> QED
        BY <2>1, OneMessage
<1>5. r \in ExecRecord
    BY <1>1 DEF TypeOK, WorkerTypeOK, ExecRecord
<1> HIDE DEF r
<1>6. WorkerTypeOK' /\ ExecutionsNamed'
    <2>1. exec' \in [Attempts -> ExecRecord] /\ ExecutionsNamed'
        BY <1>1, <1>2, <1>3, <1>5, ExecMoves DEF TypeOK, Bookkeeping, db
    <2> QED
        BY <1>1, <1>2, <2>1 DEF TypeOK, WorkerTypeOK
<1> HIDE DEF ms, n
<1> QED
    BY <1>2, <1>3, <1>4, <1>6, SendingInv

\* The end of an execution preserves the invariant.
LEMMA CompleteInv ==
    ASSUME IndInv, NEW a \in Attempts, Complete(a)
    PROVE IndInv'
<1> DEFINE s == attempt[a].slot
           n == NodeOf[s]
           w == [state |-> "ready", active |-> NoTask, profile |-> ProfileOf[TaskOf(a)]]
           ms == <<SlotMsg(s, w), AttemptMsg("report_completed", a, "none")>>
<1>1. TypeOK /\ Bookkeeping
    BY DEF IndInv
<1>2. /\ exec[a].pc = "serving" /\ ExecAt(a, "done")
      /\ wslot' = [wslot EXCEPT ![s] = w] /\ Send(n, ms)
      /\ UNCHANGED <<db, sessVars, reqVars, down, wsess, greeting, loading>>
    BY DEF Complete, SetSlotState
<1>3. /\ s \in Slots /\ n \in Nodes /\ a \in AttemptsOn(n) /\ Exists(a)
      /\ ProfileOf[TaskOf(a)] \in Profiles
    BY <1>2, ExecutedAttempt
<1>4. w \in WorkerSlot
    BY <1>3 DEF WorkerSlot, SlotState
<1> HIDE DEF w
<1>5. ms \in Seq(UpMessageOn(n)) /\ Len(ms) \in 1..2
    <2>1. SlotMsg(s, w) \in UpMessageOn(n)
        BY <1>3, <1>4, SlotMsgType
    <2>2. AttemptMsg("report_completed", a, "none") \in UpMessageOn(n)
        BY <1>3, AttemptMsgType DEF StreamEvents, Reports
    <2> QED
        BY <2>1, <2>2, TwoMessages
<1>6. WorkerTypeOK' /\ ExecutionsNamed'
    <2>1. exec' \in [Attempts -> ExecRecord] /\ ExecutionsNamed'
        BY <1>1, <1>2, <1>3, ExecAtInv DEF TypeOK, Bookkeeping, ExecPC, db
    <2>2. wslot' \in [Slots -> WorkerSlot]
        BY <1>1, <1>2, <1>3, <1>4 DEF TypeOK, WorkerTypeOK
    <2> QED
        BY <1>1, <1>2, <2>1, <2>2 DEF TypeOK, WorkerTypeOK
<1> HIDE DEF ms, n
<1> QED
    BY <1>2, <1>3, <1>5, <1>6, SendingInv

\* The report of a failed or cancelled execution preserves the invariant.
LEMMA ReportErrorInv ==
    ASSUME IndInv, NEW a \in Attempts, ReportError(a)
    PROVE IndInv'
<1> DEFINE n == NodeOfAttempt(a)
<1>1. TypeOK /\ Bookkeeping
    BY DEF IndInv
<1>2. /\ exec[a].pc = "failing" /\ ExecAt(a, "done")
      /\ UNCHANGED <<db, sessVars, reqVars, down, wsess, greeting, wslot, loading>>
    BY DEF ReportError
<1>3. n \in Nodes /\ a \in AttemptsOn(n) /\ Exists(a)
    BY <1>2, ExecutedAttempt
<1>4. WorkerTypeOK' /\ ExecutionsNamed'
    <2>1. exec' \in [Attempts -> ExecRecord] /\ ExecutionsNamed'
        BY <1>1, <1>2, <1>3, ExecAtInv DEF TypeOK, Bookkeeping, ExecPC, db
    <2> QED
        BY <1>1, <1>2, <2>1 DEF TypeOK, WorkerTypeOK
<1>5. ASSUME NEW k \in Failures \cup Reports, NEW reason \in {"runtime_error", "none"}
      PROVE AttemptMsg(k, a, reason) \in UpMessageOn(n)
    <2>1. k \in {"started"} \cup StreamEvents /\ reason \in Reasons \cup {"none"}
        BY DEF StreamEvents, Reasons
    <2> QED
        BY <1>3, <2>1, AttemptMsgType
<1>6. CASE Send(n, <<AttemptMsg("report_cancelled", a, "none")>>)
    <2>1. AttemptMsg("report_cancelled", a, "none") \in UpMessageOn(n)
        BY <1>5 DEF Reports
    <2> HIDE DEF n
    <2> QED
        BY <1>2, <1>3, <1>4, <1>6, <2>1, OneMessage, SendingInv
<1>7. ASSUME NEW k \in Failures, NEW l \in Reports,
             Send(n, <<AttemptMsg(k, a, "runtime_error"), AttemptMsg(l, a, "runtime_error")>>)
      PROVE IndInv'
    <2>1. /\ AttemptMsg(k, a, "runtime_error") \in UpMessageOn(n)
          /\ AttemptMsg(l, a, "runtime_error") \in UpMessageOn(n)
        BY <1>5
    <2> HIDE DEF n
    <2> QED
        BY <1>2, <1>3, <1>4, <1>7, <2>1, TwoMessages, SendingInv
<1>8. \/ Send(n, <<AttemptMsg("report_cancelled", a, "none")>>)
      \/ Send(n, <<AttemptMsg("failed_final", a, "runtime_error"),
                   AttemptMsg("report_final", a, "runtime_error")>>)
      \/ Send(n, <<AttemptMsg("failed_retry", a, "runtime_error"),
                   AttemptMsg("report_retry", a, "runtime_error")>>)
    BY DEF ReportError
<1> QED
    BY <1>6, <1>7, <1>8 DEF Failures, Reports

\* A slot of a Worker changes its state and the Worker says so.
LEMMA SlotBecomesInv ==
    ASSUME IndInv, NEW s \in Slots, NEW state \in SlotState, NEW p \in Profiles,
           SlotBecomes(s, state, p), UNCHANGED <<db, sessVars, reqVars, down, wsess, greeting>>,
           exec' \in [Attempts -> ExecRecord], loading' \in [Slots -> LoadRecord],
           ExecutionsNamed'
    PROVE IndInv'
<1> DEFINE n == NodeOf[s]
           w == [state |-> state, active |-> NoTask, profile |-> p]
           ms == <<SlotMsg(s, w)>>
<1>1. wslot' = [wslot EXCEPT ![s] = w] /\ Send(n, ms)
    BY DEF SlotBecomes, SetSlotState
<1>2. w \in WorkerSlot
    BY DEF WorkerSlot
<1> HIDE DEF w
<1>3. n \in Nodes /\ ms \in Seq(UpMessageOn(n)) /\ Len(ms) \in 1..2
    BY <1>2, SlotMsgType, OneMessage, ConstantsAssumption
<1>4. WorkerTypeOK'
    BY <1>1, <1>2 DEF IndInv, TypeOK, WorkerTypeOK
<1> HIDE DEF ms, n
<1> QED
    BY <1>1, <1>3, <1>4, SendingInv

\* recoverRuntimeSlot preserves the invariant.
LEMMA RecoverInv ==
    ASSUME IndInv, NEW a \in Attempts, Recover(a)
    PROVE IndInv'
<1> DEFINE s == attempt[a].slot
<1>1. TypeOK /\ Bookkeeping
    BY DEF IndInv
<1>2. /\ exec[a].recovery = "pending"
      /\ UNCHANGED <<db, sessVars, reqVars, down, wsess, greeting, loading>>
    BY DEF Recover
<1>3. PICK state \in {"ready", "error", "warming"} :
        /\ SlotBecomes(s, state, ProfileOf[TaskOf(a)])
        /\ exec' = [exec EXCEPT ![a].recovery = IF state = "warming" THEN "restarting" ELSE "off"]
    BY DEF Recover
<1>4. s \in Slots /\ Exists(a) /\ ProfileOf[TaskOf(a)] \in Profiles
    BY <1>2, ExecutedAttempt
<1> DEFINE r == [exec[a] EXCEPT !.recovery = IF state = "warming" THEN "restarting" ELSE "off"]
<1>5. r \in ExecRecord
    BY <1>1 DEF TypeOK, WorkerTypeOK, ExecRecord
<1>6. exec' = [exec EXCEPT ![a] = r]
    BY <1>3
<1> HIDE DEF r
<1>7. exec' \in [Attempts -> ExecRecord] /\ ExecutionsNamed'
    BY <1>1, <1>2, <1>4, <1>5, <1>6, ExecMoves DEF TypeOK, Bookkeeping, db
<1>8. state \in SlotState /\ loading' \in [Slots -> LoadRecord]
    BY <1>1, <1>2 DEF SlotState, TypeOK, WorkerTypeOK
<1> QED
    BY <1>2, <1>3, <1>4, <1>7, <1>8, SlotBecomesInv

\* The end of a runtime restart preserves the invariant.
LEMMA RestartedInv ==
    ASSUME IndInv, NEW a \in Attempts, Restarted(a)
    PROVE IndInv'
<1> DEFINE s == attempt[a].slot
           r == [exec[a] EXCEPT !.recovery = "off"]
<1>1. TypeOK /\ Bookkeeping
    BY DEF IndInv
<1>2. /\ exec[a].recovery = "restarting" /\ exec' = [exec EXCEPT ![a] = r]
      /\ UNCHANGED <<db, sessVars, reqVars, down, wsess, greeting, loading>>
    BY DEF Restarted
<1>3. PICK state \in {"ready", "error"} : SlotBecomes(s, state, ProfileOf[TaskOf(a)])
    BY DEF Restarted
<1>4. s \in Slots /\ Exists(a) /\ ProfileOf[TaskOf(a)] \in Profiles
    BY <1>2, ExecutedAttempt
<1>5. r \in ExecRecord
    BY <1>1 DEF TypeOK, WorkerTypeOK, ExecRecord
<1> HIDE DEF r
<1>6. exec' \in [Attempts -> ExecRecord] /\ ExecutionsNamed'
    BY <1>1, <1>2, <1>4, <1>5, ExecMoves DEF TypeOK, Bookkeeping, db
<1>7. state \in SlotState /\ loading' \in [Slots -> LoadRecord]
    BY <1>1, <1>2 DEF SlotState, TypeOK, WorkerTypeOK
<1> QED
    BY <1>2, <1>3, <1>4, <1>6, <1>7, SlotBecomesInv

\* runAssignment preserves the invariant at its start and at its end.
LEMMA AssignInv ==
    ASSUME IndInv, NEW s \in Slots, Assign(s) \/ Assigned(s)
    PROVE IndInv'
<1>1. TypeOK /\ Bookkeeping
    BY DEF IndInv
<1>2. UNCHANGED <<db, sessVars, reqVars, down, wsess, greeting, exec>>
    BY DEF Assign, Assigned
<1>3. exec' \in [Attempts -> ExecRecord] /\ ExecutionsNamed'
    BY <1>1, <1>2, ExecutionsFrame, KeptFrame DEF TypeOK, WorkerTypeOK, Bookkeeping, db
<1>4. loading[s] \in LoadRecord /\ loading \in [Slots -> LoadRecord]
    BY <1>1 DEF TypeOK, WorkerTypeOK
<1>5. CASE Assign(s)
    <2>1. PICK p \in Profiles :
            /\ SlotBecomes(s, "warming", p)
            /\ loading' = [loading EXCEPT ![s] = [to |-> {p}, count |-> loading[s].count + 1]]
        BY <1>5 DEF Assign
    <2>2. [to |-> {p}, count |-> loading[s].count + 1] \in LoadRecord
        BY <1>4, <1>5, BoundsAssumption DEF LoadRecord, Assign
    <2>3. loading' \in [Slots -> LoadRecord]
        BY <1>4, <2>1, <2>2
    <2> QED
        BY <1>2, <1>3, <2>1, <2>3, SlotBecomesInv DEF SlotState
<1>6. CASE Assigned(s)
    <2>1. PICK p \in loading[s].to, state \in {"ready", "error"} : SlotBecomes(s, state, p)
        BY <1>6 DEF Assigned
    <2>2. p \in Profiles /\ state \in SlotState
        BY <1>4 DEF LoadRecord, SlotState
    <2>3. loading' \in [Slots -> LoadRecord]
        BY <1>4, <1>6 DEF Assigned, LoadRecord
    <2> QED
        BY <1>2, <1>3, <2>1, <2>2, <2>3, SlotBecomesInv
<1> QED
    BY <1>5, <1>6

\* A Worker that loses its connection drops what was sent to it.
LEMMA DisconnectInv ==
    ASSUME IndInv, NEW n \in Nodes, Disconnect(n)
    PROVE IndInv'
<1>1. TypeOK /\ Bookkeeping
    BY DEF IndInv
<1>2. /\ wsess[n] # 0
      /\ wsess' = [wsess EXCEPT ![n] = 0] /\ greeting' = [greeting EXCEPT ![n] = 0]
      /\ down' = [down EXCEPT ![n][wsess[n]] = <<>>]
      /\ UNCHANGED <<db, sessVars, reqVars, up, wslot, exec, loading>>
    BY DEF Disconnect
<1>3. UNCHANGED attempt /\ AttemptsKept /\ HeadsKept
    BY <1>2, KeptFrame, HeadsFrame DEF db
<1>4. WorkerTypeOK'
    BY <1>1, <1>2 DEF TypeOK, WorkerTypeOK
<1>5. ExecutionsNamed'
    BY <1>1, <1>2, <1>3, ExecutionsFrame DEF Bookkeeping
<1>6. NetTypeOK'
    <2>1. wsess[n] \in Sessions /\ <<>> \in Seq(DownMessage)
        BY <1>1, <1>2 DEF TypeOK, WorkerTypeOK
    <2> QED
        BY <1>1, <1>2, <2>1 DEF TypeOK, NetTypeOK
<1>7. ASSUME NEW m \in Nodes, NEW f \in Sessions
      PROVE down'[m][f] \in Seq(DownMessageOn(m)) /\ up'[m][f] \in Seq(UpMessageOn(m))
    BY <1>1, <1>2 DEF TypeOK, NetTypeOK, Bookkeeping, MessagesNamed
<1>8. MessagesNamed'
    BY <1>1, <1>3, <1>7, MessagesKept, SeqMonotonic DEF Bookkeeping, MessagesNamed
<1> QED
    BY <1>2, <1>3, <1>4, <1>5, <1>6, <1>8, WorkerStepInv

\* hello and full_state preserve the invariant.
LEMMA GreetInv ==
    ASSUME IndInv, NEW n \in Nodes, Greet(n)
    PROVE IndInv'
<1> DEFINE m == [kind |-> "full_state",
                 slots |-> [s \in Slots |-> IF NodeOf[s] = n THEN wslot[s] ELSE HomeSlot(s)]]
<1>1. TypeOK /\ Bookkeeping
    BY DEF IndInv
<1>2. /\ greeting[n] > 0 /\ greeting' = [greeting EXCEPT ![n] = @ - 1]
      /\ Send(n, <<m>>)
      /\ UNCHANGED <<db, sessVars, reqVars, down, wsess, wslot, exec, loading>>
    BY DEF Greet
<1>3. m \in UpMessageOn(n)
    <2>1. \A s \in Slots : HomeSlot(s) \in WorkerSlot
        BY ConstantsAssumption DEF HomeSlot, WorkerSlot, SlotState
    <2>2. m \in StateMessage
        BY <1>1, <2>1 DEF TypeOK, WorkerTypeOK, StateMessage
    <2> QED
        BY <2>2 DEF UpMessageOn
<1>4. WorkerTypeOK'
    BY <1>1, <1>2 DEF TypeOK, WorkerTypeOK
<1>5. ExecutionsNamed'
    BY <1>1, <1>2, ExecutionsFrame, KeptFrame DEF Bookkeeping, db
<1> HIDE DEF m
<1> QED
    BY <1>2, <1>3, <1>4, <1>5, OneMessage, SendingInv

\* A Worker starts or cancels only attempts the message names.
LEMMA ReceiveInv ==
    ASSUME IndInv, NEW n \in Nodes, Receive(n)
    PROVE IndInv'
<1> DEFINE e == wsess[n]
           m == Head(down[n][e])
<1>1. TypeOK /\ Bookkeeping
    BY DEF IndInv
<1>2. /\ e # 0 /\ down[n][e] # <<>> /\ down' = [down EXCEPT ![n][e] = Tail(@)]
      /\ exec' = [a \in Attempts |->
            IF a \notin m.atts THEN exec[a]
            ELSE IF m.kind = "execute_task" THEN [exec[a] EXCEPT !.pc = "spawned"]
            ELSE IF exec[a].pc \in {"none", "spawned", "done"} THEN exec[a]
            ELSE [exec[a] EXCEPT !.cancelled = TRUE]]
      /\ UNCHANGED <<db, sessVars, reqVars, up, wsess, greeting, wslot, loading>>
    BY DEF Receive
<1>3. e \in Sessions
    BY <1>1, <1>2 DEF TypeOK, WorkerTypeOK
<1>4. UNCHANGED attempt /\ AttemptsKept /\ HeadsKept
    BY <1>2, KeptFrame, HeadsFrame DEF db
<1>5. m \in DownMessageOn(n)
    BY <1>1, <1>2, <1>3 DEF Bookkeeping, MessagesNamed
<1>6. \A a \in m.atts : Exists(a)
    BY <1>5 DEF DownMessageOn, AttemptsOn
<1> HIDE DEF m
<1>7. exec' \in [Attempts -> ExecRecord]
    <2>1. ASSUME NEW a \in Attempts
          PROVE /\ exec[a] \in ExecRecord
                /\ [exec[a] EXCEPT !.pc = "spawned"] \in ExecRecord
                /\ [exec[a] EXCEPT !.cancelled = TRUE] \in ExecRecord
        BY <1>1 DEF TypeOK, WorkerTypeOK, ExecRecord, ExecPC
    <2> QED
        BY <1>2, <2>1
<1>8. WorkerTypeOK'
    BY <1>1, <1>2, <1>7 DEF TypeOK, WorkerTypeOK
<1>9. ExecutionsNamed'
    <2>1. \A a \in Attempts : a \notin m.atts => exec'[a] = exec[a]
        BY <1>2
    <2>2. \A a \in Attempts : exec[a].pc # "none" \/ exec[a].recovery # "off" => Exists(a)
        BY <1>1 DEF Bookkeeping, ExecutionsNamed
    <2>3. \A a \in Attempts : exec'[a].pc # "none" \/ exec'[a].recovery # "off" => Exists(a)
        BY <1>6, <2>1, <2>2
    <2> QED
        BY <1>4, <2>3 DEF ExecutionsNamed, Exists
<1>10. NetTypeOK'
    BY <1>1, <1>2, <1>3 DEF TypeOK, NetTypeOK
<1>11. ASSUME NEW o \in Nodes, NEW f \in Sessions
       PROVE down'[o][f] \in Seq(DownMessageOn(o)) /\ up'[o][f] \in Seq(UpMessageOn(o))
    BY <1>1, <1>2, <1>3 DEF TypeOK, NetTypeOK, Bookkeeping, MessagesNamed
<1>12. MessagesNamed'
    BY <1>1, <1>4, <1>11, MessagesKept, SeqMonotonic DEF Bookkeeping, MessagesNamed
<1> QED
    BY <1>2, <1>4, <1>8, <1>9, <1>10, <1>12, WorkerStepInv

-----------------------------------------------------------------------------
(* Sessions *)

\* The parts of the invariant that speak of requests and Workers do not see a
\* step of a reader or a closer.
LEMMA SessionStepInv ==
    ASSUME IndInv, AttemptsKept, UNCHANGED <<req, streams, exec>>,
           DbTypeOK', SessionTypeOK', RequestTypeOK', NetTypeOK', WorkerTypeOK',
           \A a \in Attempts : Exists(a)' <=> Exists(a),
           MessagesNamed', ReadersHold',
           \A n \in Nodes : \A e \in Sessions : \A f \in pending'[n][e] : Exists(f.att)'
    PROVE IndInv'
<1>1. TypeOK /\ Bookkeeping
    BY DEF IndInv
<1>2. \A a \in Attempts : Exists(a) => attempt'[a].slot = attempt[a].slot
    BY DEF AttemptsKept
<1>3. AttemptsNumbered'
    BY <1>1, <1>2 DEF Bookkeeping, AttemptsNumbered
<1>4. RequestsNamed'
    <2>1. \A t \in Tasks : req[t].pc = "dispatch" => Current(t) \in Attempts /\ Exists(Current(t))
        BY CurrentAttempt
    <2> QED
        BY <1>1, <1>2, <2>1 DEF Bookkeeping, RequestsNamed, Current
<1>5. ExecutionsNamed'
    BY <1>1, ExecutionsFrame DEF Bookkeeping
<1>6. StreamsNamed'
    <2>1. \A a \in streams : a \in Attempts /\ Exists(a)
        BY <1>1 DEF TypeOK, RequestTypeOK, Bookkeeping, StreamsNamed
    <2> QED
        BY <2>1 DEF StreamsNamed
<1> QED
    BY <1>3, <1>4, <1>5, <1>6 DEF IndInv, TypeOK, Bookkeeping

\* A step that changes nothing but sessions and their readers.
LEMMA SessionOnlyInv ==
    ASSUME IndInv, UNCHANGED <<db, pending, reqVars, down>>, UNCHANGED <<wslot, exec, loading>>,
           SessionTypeOK', NetTypeOK', WorkerTypeOK', MessagesNamed', ReadersHold'
    PROVE IndInv'
<1>1. TypeOK /\ Bookkeeping
    BY DEF IndInv
<1>2. UNCHANGED <<attempt, req, streams>> /\ AttemptsKept
    BY KeptFrame DEF db, reqVars
<1>3. DbTypeOK' /\ RequestTypeOK'
    BY <1>1, DbFrame, RequestFrame DEF TypeOK
<1>4. \A a \in Attempts : Exists(a)' <=> Exists(a)
    BY <1>2 DEF Exists
<1>5. \A n \in Nodes : \A e \in Sessions : \A f \in pending'[n][e] : Exists(f.att)'
    BY <1>1, <1>2 DEF Bookkeeping, StreamsNamed, Exists
<1> QED
    BY <1>2, <1>3, <1>4, <1>5, SessionStepInv

\* A reader that moves on keeps its type, and the others stay.
LEMMA ReaderAtType ==
    ASSUME SessionTypeOK, NEW n \in Nodes, NEW e \in Sessions, NEW pc \in ReaderPC,
           reader' = [reader EXCEPT ![n][e].pc = pc]
    PROVE /\ reader' \in [Nodes -> [Sessions -> ReaderRecord]]
          /\ reader'[n][e].pc = pc
          /\ \A m \in Nodes : \A f \in Sessions :
                (m # n \/ f # e) => reader'[m][f] = reader[m][f]
<1> DEFINE r == [reader[n][e] EXCEPT !.pc = pc]
           rs == [reader[n] EXCEPT ![e] = r]
<1>1. reader[n][e] \in ReaderRecord /\ reader[n] \in [Sessions -> ReaderRecord]
    BY DEF SessionTypeOK
<1>2. r \in ReaderRecord /\ r.pc = pc
    BY <1>1 DEF ReaderRecord
<1>3. rs \in [Sessions -> ReaderRecord] /\ rs[e] = r
      /\ \A f \in Sessions \ {e} : rs[f] = reader[n][f]
    BY <1>1, <1>2
<1>4. reader' = [reader EXCEPT ![n] = rs]
    OBVIOUS
<1> HIDE DEF r, rs
<1> QED
    BY <1>2, <1>3, <1>4 DEF SessionTypeOK

\* The first half of a close keeps the session table typed.
LEMMA BeginCloseType ==
    ASSUME SessionTypeOK, NEW n \in Nodes, NEW e \in Sessions, BeginClose(n, e)
    PROVE /\ conn' \in [Nodes -> [Sessions -> ConnState]]
          /\ session' \in [Nodes -> {0} \cup Sessions]
<1>1. conn' \in [Nodes -> [Sessions -> ConnState]]
    BY DEF SessionTypeOK, BeginClose, ConnState
<1>2. session' \in [Nodes -> {0} \cup Sessions]
    BY DEF SessionTypeOK, BeginClose
<1> QED
    BY <1>1, <1>2

\* A close by the writer or the monitor preserves the invariant.
LEMMA CloseSessionInv ==
    ASSUME IndInv, NEW n \in Nodes, NEW e \in Sessions, CloseSession(n, e)
    PROVE IndInv'
<1>1. TypeOK /\ Bookkeeping
    BY DEF IndInv
<1>2. /\ BeginClose(n, e)
      /\ UNCHANGED <<db, registered, reader, pending, reqVars, netVars, workerVars>>
    BY DEF CloseSession
<1>3. SessionTypeOK'
    BY <1>1, <1>2, BeginCloseType DEF TypeOK, SessionTypeOK
<1>4. NetTypeOK' /\ WorkerTypeOK' /\ MessagesNamed' /\ ReadersHold'
    BY <1>1, <1>2, NetFrame, WorkerFrame, MessagesFrame, ReadersFrame, HeadsFrame, KeptFrame
       DEF TypeOK, Bookkeeping, db, netVars
<1> QED
    BY <1>2, <1>3, <1>4, SessionOnlyInv DEF netVars, workerVars

\* readLoop ends between two messages, so no handler loses its message.
LEMMA ReaderStopInv ==
    ASSUME IndInv, NEW n \in Nodes, NEW e \in Sessions, ReaderStop(n, e)
    PROVE IndInv'
<1>1. TypeOK /\ Bookkeeping
    BY DEF IndInv
<1>2. /\ reader' = [reader EXCEPT ![n][e].pc = "off"]
      /\ up' = [up EXCEPT ![n][e] = <<>>]
      /\ BeginClose(n, e) \/ UNCHANGED <<conn, session>>
      /\ UNCHANGED <<db, registered, pending, reqVars, down, workerVars>>
    BY DEF ReaderStop
<1>3. SessionTypeOK'
    <2>1. /\ conn' \in [Nodes -> [Sessions -> ConnState]]
          /\ session' \in [Nodes -> {0} \cup Sessions]
        BY <1>1, <1>2, BeginCloseType DEF TypeOK, SessionTypeOK
    <2>2. reader' \in [Nodes -> [Sessions -> ReaderRecord]]
        BY <1>1, <1>2, ReaderAtType DEF TypeOK, ReaderPC
    <2> QED
        BY <1>1, <1>2, <2>1, <2>2 DEF TypeOK, SessionTypeOK
<1>4. WorkerTypeOK'
    BY <1>1, <1>2, WorkerFrame DEF TypeOK
<1>5. NetTypeOK'
    BY <1>1, <1>2 DEF TypeOK, NetTypeOK
<1>6. ASSUME NEW m \in Nodes, NEW f \in Sessions
      PROVE up'[m][f] \in Seq(UpMessageOn(m)) /\ down'[m][f] \in Seq(DownMessageOn(m))
    BY <1>1, <1>2 DEF TypeOK, NetTypeOK, Bookkeeping, MessagesNamed
<1>7. MessagesNamed'
    BY <1>1, <1>2, <1>6, KeptFrame, MessagesKept, SeqMonotonic DEF Bookkeeping, MessagesNamed, db
<1>8. ReadersHold'
    <2>1. /\ reader'[n][e].pc = "off"
          /\ \A m \in Nodes : \A f \in Sessions :
                (m # n \/ f # e) => reader'[m][f] = reader[m][f] /\ up'[m][f] = up[m][f]
        BY <1>1, <1>2 DEF TypeOK, SessionTypeOK, NetTypeOK, ReaderRecord
    <2> QED
        BY <1>1, <2>1 DEF Bookkeeping, ReadersHold, Message
<1> QED
    BY <1>2, <1>3, <1>4, <1>5, <1>7, <1>8, SessionOnlyInv DEF workerVars

\* A new session starts with empty queues.
LEMMA ConnectInv ==
    ASSUME IndInv, NEW n \in Nodes, Connect(n)
    PROVE IndInv'
<1>1. TypeOK /\ Bookkeeping
    BY DEF IndInv
<1>2. PICK e \in Sessions :
        /\ conn' = [conn EXCEPT ![n][e] = "open"]
        /\ reader' = [reader EXCEPT ![n][e] = [pc |-> "idle", old |-> 0]]
        /\ wsess' = [wsess EXCEPT ![n] = e]
    BY DEF Connect
<1>3. /\ greeting' = [greeting EXCEPT ![n] = 2]
      /\ UNCHANGED <<db, session, registered, pending, reqVars, netVars, wslot, exec, loading>>
    BY DEF Connect
<1>4. SessionTypeOK'
    <2>1. conn' \in [Nodes -> [Sessions -> ConnState]]
        BY <1>1, <1>2 DEF TypeOK, SessionTypeOK, ConnState
    <2>2. reader' \in [Nodes -> [Sessions -> ReaderRecord]]
        BY <1>1, <1>2 DEF TypeOK, SessionTypeOK, ReaderRecord, ReaderPC
    <2> QED
        BY <1>1, <1>3, <2>1, <2>2 DEF TypeOK, SessionTypeOK
<1>5. WorkerTypeOK'
    BY <1>1, <1>2, <1>3 DEF TypeOK, WorkerTypeOK
<1>6. NetTypeOK' /\ MessagesNamed'
    BY <1>1, <1>3, NetFrame, MessagesFrame, KeptFrame DEF TypeOK, Bookkeeping, db, netVars
<1>7. ReadersHold'
    <2>1. /\ reader'[n][e].pc = "idle"
          /\ \A m \in Nodes : \A f \in Sessions :
                (m # n \/ f # e) => reader'[m][f] = reader[m][f]
        BY <1>1, <1>2 DEF TypeOK, SessionTypeOK, ReaderRecord
    <2> QED
        BY <1>1, <1>3, <2>1 DEF Bookkeeping, ReadersHold, Message, netVars
<1> QED
    BY <1>3, <1>4, <1>5, <1>6, <1>7, SessionOnlyInv DEF netVars

-----------------------------------------------------------------------------
(* Slots *)

\* applyPlacementDrainState keeps the slots typed.
LEMMA ReplanType ==
    ASSUME NEW slots \in [Slots -> SlotRecord],
           NEW new \in ReplanAndDispatch(slots) \cup AfterClose(slots)
    PROVE new \in [Slots -> SlotRecord]
<1>1. CASE new = slots
    BY <1>1
<1>2. CASE new \in ReplanAndDispatch(slots)
    <2>1. PICK desired \in Plans :
            new = [s \in Slots |-> IF SlotDrainable(slots[s])
                                   THEN [slots[s] EXCEPT !.accepts = s \in desired] ELSE slots[s]]
        BY <1>2 DEF ReplanAndDispatch
    <2>2. ASSUME NEW s \in Slots, NEW b \in BOOLEAN
          PROVE slots[s] \in SlotRecord /\ [slots[s] EXCEPT !.accepts = b] \in SlotRecord
        BY DEF SlotRecord
    <2>3. ASSUME NEW s \in Slots
          PROVE new[s] \in SlotRecord
        <3>1. (s \in desired) \in BOOLEAN
            OBVIOUS
        <3>2. new[s] = slots[s] \/ new[s] = [slots[s] EXCEPT !.accepts = s \in desired]
            BY <2>1
        <3> QED
            BY <2>2, <3>1, <3>2
    <2> QED
        BY <2>1, <2>3
<1> QED
    BY <1>1, <1>2 DEF AfterClose

\* markDisconnectedNode keeps the slots typed.
LEMMA DisconnectedType ==
    ASSUME DbTypeOK, NEW s \in Slots
    PROVE Disconnected(s) \in SlotRecord
<1>1. slot[s] \in SlotRecord
    BY DEF DbTypeOK
<1>2. [slot[s] EXCEPT !.state = "unavailable", !.accepts = FALSE] \in SlotRecord
    BY <1>1 DEF SlotRecord, SlotState
<1> QED
    BY <1>1, <1>2 DEF Disconnected

\* The release of a slot keeps it typed.
LEMMA ReleasedType ==
    ASSUME DbTypeOK, NEW s \in Slots, NEW t, NEW refusing \in BOOLEAN
    PROVE Released(s, t, refusing) \in SlotRecord
<1>1. slot[s] \in SlotRecord
    BY DEF DbTypeOK
<1>2. [slot[s] EXCEPT !.active = NoTask, !.state = "ready", !.accepts = TRUE] \in SlotRecord
    BY <1>1 DEF SlotRecord, SlotState
<1>3. [slot[s] EXCEPT !.active = NoTask, !.state = "idle",
                      !.accepts = slot[s].accepts /\ ~refusing] \in SlotRecord
    BY <1>1 DEF SlotRecord, SlotState
<1> QED
    BY <1>2, <1>3 DEF Released

\* A step that changes nothing but slots, nodes and counters.
LEMMA DbOnlyInv ==
    ASSUME IndInv, DbTypeOK', UNCHANGED <<attempt, sessVars, reqVars, netVars, workerVars>>
    PROVE IndInv'
<1>1. TypeOK /\ Bookkeeping
    BY DEF IndInv
<1>2. AttemptsKept /\ UNCHANGED <<req, streams, exec, pending, reader, up, down>>
    BY KeptFrame DEF reqVars, workerVars, sessVars, netVars
<1>3. SessionTypeOK' /\ RequestTypeOK' /\ NetTypeOK' /\ WorkerTypeOK'
    BY <1>1, SessionFrame, RequestFrame, NetFrame, WorkerFrame DEF TypeOK
<1>4. MessagesNamed' /\ ReadersHold'
    BY <1>1, <1>2, MessagesFrame, ReadersFrame, HeadsFrame DEF Bookkeeping
<1>5. \A a \in Attempts : Exists(a)' <=> Exists(a)
    BY DEF Exists
<1>6. \A n \in Nodes : \A e \in Sessions : \A f \in pending'[n][e] : Exists(f.att)'
    BY <1>1, <1>2 DEF Bookkeeping, StreamsNamed, Exists
<1> QED
    BY <1>2, <1>3, <1>4, <1>5, <1>6, SessionStepInv

\* markOfflineWorkers and the replan preserve the invariant.
LEMMA MarkOfflineInv ==
    ASSUME IndInv, NEW n \in Nodes, MarkOffline(n)
    PROVE IndInv'
<1> DEFINE slots == [s \in Slots |-> IF NodeOf[s] = n THEN Disconnected(s) ELSE slot[s]]
<1>1. DbTypeOK
    BY DEF IndInv, TypeOK
<1>2. /\ node' = [node EXCEPT ![n] = [online |-> FALSE, connected |-> 0]]
      /\ slot' \in ReplanAndDispatch(slots)
      /\ UNCHANGED <<task, failedSlots, attempt, failures, reports, charged,
                     session, conn, registered, reader, pending, reqVars, netVars, workerVars>>
    BY DEF MarkOffline
<1>3. slots \in [Slots -> SlotRecord]
    BY <1>1, DisconnectedType DEF DbTypeOK
<1> HIDE DEF slots
<1>4. slot' \in [Slots -> SlotRecord]
    BY <1>2, <1>3, ReplanType
<1>5. node' \in [Nodes -> NodeRecord]
    BY <1>1, <1>2 DEF DbTypeOK, NodeRecord
<1>6. DbTypeOK'
    BY <1>1, <1>2, <1>4, <1>5 DEF DbTypeOK
<1> QED
    BY <1>2, <1>6, DbOnlyInv DEF sessVars

\* clearExpiredQuarantines preserves the invariant.
LEMMA ClearQuarantineInv ==
    ASSUME IndInv, NEW s \in Slots, ClearQuarantine(s)
    PROVE IndInv'
<1> DEFINE r == [slot[s] EXCEPT !.quarantined = FALSE,
                    !.accepts = IF slot[s].state = "ready" /\ slot[s].active = NoTask
                                THEN TRUE ELSE slot[s].accepts]
<1>1. DbTypeOK
    BY DEF IndInv, TypeOK
<1>2. /\ slot' = [slot EXCEPT ![s] = r]
      /\ UNCHANGED <<task, failedSlots, attempt, failures, node, reports, charged, sessVars,
                     reqVars, netVars, workerVars>>
    BY DEF ClearQuarantine
<1>3. slot[s] \in SlotRecord /\ slot \in [Slots -> SlotRecord]
    BY <1>1 DEF DbTypeOK
<1>4. r \in SlotRecord
    BY <1>3 DEF SlotRecord
<1> HIDE DEF r
<1>5. slot' \in [Slots -> SlotRecord]
    BY <1>2, <1>3, <1>4
<1>6. DbTypeOK'
    BY <1>1, <1>2, <1>5 DEF DbTypeOK
<1> QED
    BY <1>2, <1>6, DbOnlyInv

\* handleWorkerHeartbeat preserves the invariant.
LEMMA HandleHeartbeatInv ==
    ASSUME IndInv, NEW n \in Nodes, NEW e \in Sessions, HandleHeartbeat(n, e)
    PROVE IndInv'
<1>1. DbTypeOK
    BY DEF IndInv, TypeOK
<1>2. /\ node' = [node EXCEPT ![n].online = TRUE]
      /\ UNCHANGED <<task, failedSlots, attempt, slot, failures, reports, charged, sessVars,
                     reqVars, netVars, workerVars>>
    BY DEF HandleHeartbeat
<1>3. node' \in [Nodes -> NodeRecord]
    BY <1>1, <1>2 DEF DbTypeOK, NodeRecord
<1>4. DbTypeOK'
    BY <1>1, <1>2, <1>3 DEF DbTypeOK
<1> QED
    BY <1>2, <1>4, DbOnlyInv

-----------------------------------------------------------------------------
(* Closing a session *)

\* There are finitely many attempts, so the failed ones can be counted.
LEMMA AttemptsFinite == IsFiniteSet(Attempts)
<1>1. IsFiniteSet(1..MaxAttempts)
    BY FS_Interval, BoundsAssumption
<1>2. IsFiniteSet(Tasks)
    BY ConstantsAssumption
<1> QED
    BY <1>1, <1>2, FS_Product DEF Attempts

\* failRunningAttempts: what it will publish are attempts that exist.
LEMMA FailRunningAttemptsInv ==
    ASSUME IndInv, NEW n \in Nodes, NEW e \in Sessions, FailRunningAttempts(n, e)
    PROVE IndInv'
<1> DEFINE failed == {a \in Attempts : attempt[a].status = "running" /\ NodeOfAttempt(a) = n}
           failedOf(t) == {a \in failed : TaskOf(a) = t}
           failedOn(s) == {a \in failed : attempt[a].slot = s}
           owner == node[n].connected \in {e, 0}
           lost(s) == [slot[s] EXCEPT !.state = "unavailable", !.active = NoTask,
                                      !.accepts = FALSE]
           slots == [s \in Slots |->
             IF failedOn(s) # {}
             THEN RecordSlotFailure(s, lost(s), "worker_disconnected", Cardinality(failedOn(s)))
             ELSE IF owner /\ NodeOf[s] = n THEN Disconnected(s) ELSE slot[s]]
           published == {[att |-> a, kind |-> IF attempt[a].first THEN "failed_final"
                                              ELSE "failed_retry"] : a \in failed}
<1>1. TypeOK /\ Bookkeeping /\ DbTypeOK
    BY DEF IndInv, TypeOK
<1>2. node' = IF owner THEN [node EXCEPT ![n] = [online |-> FALSE, connected |-> 0]] ELSE node
    BY DEF FailRunningAttempts
<1>3. attempt' = [a \in Attempts |->
          IF a \in failed THEN [attempt[a] EXCEPT !.status = "failed"] ELSE attempt[a]]
    BY DEF FailRunningAttempts
<1>4. slot' \in IF failed = {} THEN AfterClose(slots) ELSE {slots}
    BY DEF FailRunningAttempts
<1>5. failures' = [s \in Slots |->
          [failures[s] EXCEPT !["worker_disconnected"] = @ + Cardinality(failedOn(s))]]
    BY DEF FailRunningAttempts
<1>6. failedSlots' = [t \in Tasks |->
          failedSlots[t] \cup {attempt[a].slot : a \in failedOf(t)}]
    BY DEF FailRunningAttempts
<1>7. \E requeued \in SUBSET Tasks :
          task' = [t \in Tasks |-> IF failedOf(t) = {} THEN task[t]
                                   ELSE IF t \in requeued THEN "queued" ELSE "failed"]
    BY DEF FailRunningAttempts
<1>8. pending' = [pending EXCEPT ![n][e] = published]
    BY DEF FailRunningAttempts
<1>9. /\ conn' = [conn EXCEPT ![n][e] = IF failed = {} THEN "closed" ELSE "publishing"]
      /\ UNCHANGED <<reports, charged, session, registered, reader, reqVars, netVars, workerVars>>
    BY DEF FailRunningAttempts
<1>10. failed \subseteq Attempts /\ \A a \in failed : Exists(a) /\ attempt[a].slot \in Slots
    BY <1>1 DEF Exists, Bookkeeping, AttemptsNumbered
<1>11. \A s \in Slots : Cardinality(failedOn(s)) \in Nat
    BY AttemptsFinite, FS_Subset, FS_CardinalityType
<1>12. /\ attempt' \in [Attempts -> AttemptRecord]
       /\ \A a \in Attempts : attempt'[a].slot = attempt[a].slot /\ (Exists(a)' <=> Exists(a))
    <2>1. ASSUME NEW a \in Attempts
          PROVE /\ [attempt[a] EXCEPT !.status = "failed"] \in AttemptRecord
                /\ [attempt[a] EXCEPT !.status = "failed"].status = "failed"
                /\ [attempt[a] EXCEPT !.status = "failed"].slot = attempt[a].slot
                /\ attempt[a] \in AttemptRecord
        BY <1>1 DEF DbTypeOK, AttemptRecord, AttemptStatus, TaskStatus
    <2> HIDE DEF failed
    <2>2. attempt' \in [Attempts -> AttemptRecord]
        BY <1>3, <2>1
    <2>3. ASSUME NEW a \in Attempts
          PROVE attempt'[a].slot = attempt[a].slot /\ (Exists(a)' <=> Exists(a))
        <3>1. CASE a \in failed
            BY <1>3, <1>10, <2>1, <3>1 DEF Exists
        <3>2. CASE a \notin failed
            BY <1>3, <3>2 DEF Exists
        <3> QED
            BY <3>1, <3>2
    <2> QED
        BY <2>2, <2>3
<1>13. AttemptsKept
    BY <1>12 DEF AttemptsKept
<1>14. slot' \in [Slots -> SlotRecord]
    <2>1. ASSUME NEW s \in Slots
          PROVE lost(s) \in SlotRecord
        BY <1>1 DEF DbTypeOK, SlotRecord, SlotState
    <2> HIDE DEF lost, owner, failed
    <2>2. slots \in [Slots -> SlotRecord]
        BY <1>1, <2>1, RecordSlotFailureType, DisconnectedType DEF DbTypeOK
    <2> HIDE DEF slots
    <2> QED
        BY <1>4, <2>2, ReplanType
<1>15. failures' \in [Slots -> [Reasons -> Nat]]
    <2> HIDE DEF failed
    <2>1. ASSUME NEW s \in Slots, NEW k \in Nat
          PROVE [failures[s] EXCEPT !["worker_disconnected"] = @ + k] \in [Reasons -> Nat]
        BY <1>1 DEF DbTypeOK, Reasons
    <2> QED
        BY <1>5, <1>11, <2>1
<1>16. failedSlots' \in [Tasks -> SUBSET Slots]
    <2> HIDE DEF failed
    <2> QED
        BY <1>1, <1>6, <1>10 DEF DbTypeOK
<1>17. task' \in [Tasks -> TaskStatus]
    <2> HIDE DEF failed
    <2> QED
        BY <1>1, <1>7 DEF DbTypeOK, TaskStatus
<1>18. node' \in [Nodes -> NodeRecord]
    BY <1>1, <1>2 DEF DbTypeOK, NodeRecord
<1>19. DbTypeOK'
    BY <1>1, <1>9, <1>12, <1>14, <1>15, <1>16, <1>17, <1>18 DEF DbTypeOK
<1>20. published \subseteq FailureRecord /\ \A f \in published : f.att \in failed
    BY <1>10 DEF FailureRecord, Failures
<1>21. SessionTypeOK'
    <2>1. SessionTypeOK
        BY <1>1 DEF TypeOK
    <2>2. conn' \in [Nodes -> [Sessions -> ConnState]]
        BY <1>9, <2>1 DEF SessionTypeOK, ConnState
    <2> HIDE DEF published
    <2>3. pending' \in [Nodes -> [Sessions -> SUBSET FailureRecord]]
        BY <1>8, <1>20, <2>1 DEF SessionTypeOK
    <2> QED
        BY <1>9, <2>1, <2>2, <2>3 DEF SessionTypeOK
<1>22. RequestTypeOK' /\ NetTypeOK' /\ WorkerTypeOK'
    BY <1>1, <1>9, RequestFrame, NetFrame, WorkerFrame DEF TypeOK
<1>23. UNCHANGED <<req, streams, exec, up, down, reader>>
    BY <1>9 DEF reqVars, workerVars, netVars
<1>24. MessagesNamed' /\ ReadersHold'
    BY <1>1, <1>13, <1>23, MessagesFrame, ReadersFrame, HeadsFrame DEF Bookkeeping
<1>25. ASSUME NEW m \in Nodes, NEW f \in Sessions, NEW p \in pending'[m][f]
       PROVE Exists(p.att)'
    <2> HIDE DEF published, failed
    <2>1. p \in published \/ p \in pending[m][f]
        BY <1>1, <1>8 DEF TypeOK, SessionTypeOK
    <2>2. p.att \in Attempts /\ Exists(p.att)
        BY <1>1, <1>10, <1>20, <2>1
           DEF TypeOK, SessionTypeOK, FailureRecord, Bookkeeping, StreamsNamed
    <2> QED
        BY <1>12, <2>2
<1> QED
    BY <1>12, <1>13, <1>19, <1>21, <1>22, <1>23, <1>24, <1>25, SessionStepInv

\* An event that reaches a stream keeps its channel typed.
LEMMA PushType ==
    ASSUME RequestTypeOK, NEW a \in Attempts, NEW event \in StreamEvents, Push(a, event),
           UNCHANGED <<streams, req, resp, gone, jobCancels, shown>>
    PROVE RequestTypeOK'
<1>1. Append(events[a], event) \in Seq(StreamEvents)
    BY AppendSeq DEF RequestTypeOK
<1>2. events' \in [Attempts -> Seq(StreamEvents)]
    BY <1>1 DEF Push, RequestTypeOK
<1> QED
    BY <1>2 DEF RequestTypeOK

\* publishWorkerDisconnectFailures preserves the invariant.
LEMMA PublishFailureInv ==
    ASSUME IndInv, NEW n \in Nodes, NEW e \in Sessions, PublishFailure(n, e)
    PROVE IndInv'
<1>1. TypeOK /\ Bookkeeping
    BY DEF IndInv
<1>2. PICK failure \in pending[n][e] :
          /\ Push(failure.att, failure.kind)
          /\ pending' = [pending EXCEPT ![n][e] = @ \ {failure}]
          /\ conn' = [conn EXCEPT ![n][e] =
                         IF pending[n][e] = {failure} THEN "closed" ELSE @]
          /\ slot' \in IF pending[n][e] = {failure} THEN AfterClose(slot) ELSE {slot}
    BY DEF PublishFailure
<1>3. UNCHANGED <<task, failedSlots, attempt, failures, node, reports, charged, session,
                  registered, reader, streams, req, resp, gone, jobCancels, shown,
                  netVars, workerVars>>
    BY DEF PublishFailure
<1>4. failure.att \in Attempts /\ failure.kind \in StreamEvents
    BY <1>1 DEF TypeOK, SessionTypeOK, FailureRecord, StreamEvents
<1>5. RequestTypeOK'
    BY <1>1, <1>2, <1>3, <1>4, PushType DEF TypeOK
<1>6. DbTypeOK'
    <2>1. slot' \in [Slots -> SlotRecord]
        BY <1>1, <1>2, ReplanType DEF TypeOK, DbTypeOK
    <2> QED
        BY <1>1, <1>3, <2>1 DEF TypeOK, DbTypeOK
<1>7. SessionTypeOK'
    <2>1. SessionTypeOK
        BY <1>1 DEF TypeOK
    <2>2. conn' \in [Nodes -> [Sessions -> ConnState]]
        BY <1>2, <2>1 DEF SessionTypeOK, ConnState
    <2>3. pending' \in [Nodes -> [Sessions -> SUBSET FailureRecord]]
        BY <1>2, <2>1 DEF SessionTypeOK
    <2> QED
        BY <1>3, <2>1, <2>2, <2>3 DEF SessionTypeOK
<1>8. AttemptsKept /\ UNCHANGED <<exec, up, down>> /\ \A a \in Attempts : Exists(a)' <=> Exists(a)
    BY <1>3, KeptFrame DEF workerVars, netVars, Exists
<1>9. NetTypeOK' /\ WorkerTypeOK' /\ MessagesNamed' /\ ReadersHold'
    BY <1>1, <1>3, <1>8, NetFrame, WorkerFrame, MessagesFrame, ReadersFrame, HeadsFrame
       DEF TypeOK, Bookkeeping
<1>10. ASSUME NEW m \in Nodes, NEW f \in Sessions, NEW p \in pending'[m][f]
       PROVE Exists(p.att)'
    <2>1. p \in pending[m][f]
        BY <1>1, <1>2 DEF TypeOK, SessionTypeOK
    <2> QED
        BY <1>1, <1>3, <2>1 DEF Bookkeeping, StreamsNamed, Exists
<1> QED
    BY <1>3, <1>5, <1>6, <1>7, <1>8, <1>9, <1>10, SessionStepInv

-----------------------------------------------------------------------------
(* The handlers of a session's reader *)

\* What a step of a message handler has to show.
LEMMA HandlerInv ==
    ASSUME IndInv, AttemptsKept, \A a \in Attempts : Exists(a)' <=> Exists(a),
           DbTypeOK', SessionTypeOK', RequestTypeOK', NetTypeOK', MessagesNamed', ReadersHold',
           UNCHANGED <<pending, req, streams, workerVars>>
    PROVE IndInv'
<1>1. TypeOK /\ Bookkeeping
    BY DEF IndInv
<1>2. WorkerTypeOK' /\ UNCHANGED exec
    BY <1>1, WorkerFrame DEF TypeOK, workerVars
<1>3. ASSUME NEW n \in Nodes, NEW e \in Sessions, NEW f \in pending'[n][e]
      PROVE Exists(f.att)'
    <2>1. f.att \in Attempts /\ Exists(f.att)
        BY <1>1 DEF TypeOK, SessionTypeOK, FailureRecord, Bookkeeping, StreamsNamed
    <2> QED
        BY <2>1
<1> QED
    BY <1>2, <1>3, SessionStepInv

\* The handler goes on with the message it has.
LEMMA ReaderMoves ==
    ASSUME IndInv, NEW n \in Nodes, NEW e \in Sessions, NEW pc \in ReaderPC, ReaderAt(n, e, pc),
           up[n][e] # <<>>, pc = "push" => Message(n, e).kind \in StreamEvents,
           UNCHANGED <<up, session, conn, registered, pending>>
    PROVE SessionTypeOK' /\ ReadersHold'
<1>1. SessionTypeOK /\ ReadersHold
    BY DEF IndInv, TypeOK, Bookkeeping
<1>2. /\ reader' \in [Nodes -> [Sessions -> ReaderRecord]]
      /\ reader'[n][e].pc = pc
      /\ \A m \in Nodes : \A f \in Sessions :
            (m # n \/ f # e) => reader'[m][f] = reader[m][f]
    BY <1>1, ReaderAtType DEF ReaderAt
<1>3. SessionTypeOK'
    BY <1>1, <1>2 DEF SessionTypeOK
<1>4. ReadersHold'
    BY <1>1, <1>2 DEF ReadersHold, Message
<1> QED
    BY <1>3, <1>4

\* The handler is done with its message.
LEMMA NextMessageInv ==
    ASSUME IndInv, NEW n \in Nodes, NEW e \in Sessions, NextMessage(n, e), AttemptsKept,
           up[n][e] # <<>>, UNCHANGED <<down, session, conn, registered, pending>>
    PROVE SessionTypeOK' /\ NetTypeOK' /\ MessagesNamed' /\ ReadersHold'
<1>1. TypeOK /\ Bookkeeping
    BY DEF IndInv
<1>2. /\ reader' = [reader EXCEPT ![n][e].pc = "idle"]
      /\ up' = [up EXCEPT ![n][e] = Tail(@)]
    BY DEF NextMessage, ReaderAt
<1>3. /\ reader' \in [Nodes -> [Sessions -> ReaderRecord]]
      /\ reader'[n][e].pc = "idle"
      /\ \A m \in Nodes : \A f \in Sessions :
            (m # n \/ f # e) => reader'[m][f] = reader[m][f]
    BY <1>1, <1>2, ReaderAtType DEF TypeOK, ReaderPC
<1>4. SessionTypeOK'
    BY <1>1, <1>3 DEF TypeOK, SessionTypeOK
<1>5. NetTypeOK' /\ MessagesNamed'
    BY <1>1, <1>2, TailInv DEF TypeOK, Bookkeeping
<1>6. \A m \in Nodes : \A f \in Sessions : (m # n \/ f # e) => up'[m][f] = up[m][f]
    BY <1>1, <1>2 DEF TypeOK, NetTypeOK
<1>7. ReadersHold'
    BY <1>1, <1>3, <1>6 DEF Bookkeeping, ReadersHold, Message
<1> QED
    BY <1>4, <1>5, <1>7

\* validateWorkerEnvelopeSession drops a message and nothing else.
LEMMA RefuseUnregisteredInv ==
    ASSUME IndInv, NEW n \in Nodes, NEW e \in Sessions, RefuseUnregistered(n, e)
    PROVE IndInv'
<1>1. TypeOK /\ Bookkeeping
    BY DEF IndInv
<1>2. /\ reader[n][e].pc = "idle" /\ up[n][e] # <<>>
      /\ up' = [up EXCEPT ![n][e] = Tail(@)]
      /\ UNCHANGED <<db, sessVars, reqVars, down, workerVars>>
    BY DEF RefuseUnregistered
<1>3. UNCHANGED <<attempt, req, streams, pending>> /\ AttemptsKept
      /\ \A a \in Attempts : Exists(a)' <=> Exists(a)
    BY <1>2, KeptFrame DEF db, reqVars, sessVars, Exists
<1>4. DbTypeOK' /\ SessionTypeOK' /\ RequestTypeOK'
    BY <1>1, <1>2, DbFrame, SessionFrame, RequestFrame DEF TypeOK
<1>5. NetTypeOK' /\ MessagesNamed'
    BY <1>1, <1>2, <1>3, TailInv DEF TypeOK, Bookkeeping
<1>6. ReadersHold'
    <2>1. \A m \in Nodes : \A f \in Sessions : (m # n \/ f # e) => up'[m][f] = up[m][f]
        BY <1>1, <1>2 DEF TypeOK, NetTypeOK
    <2> QED
        BY <1>1, <1>2, <2>1 DEF Bookkeeping, ReadersHold, Message, sessVars
<1> QED
    BY <1>2, <1>3, <1>4, <1>5, <1>6, HandlerInv

\* upsertWorkerState stores what a typed message says.
LEMMA UpsertWorkerStateInv ==
    ASSUME IndInv, NEW n \in Nodes, NEW e \in Sessions, UpsertWorkerState(n, e)
    PROVE IndInv'
<1> DEFINE m == Message(n, e)
<1>1. TypeOK /\ Bookkeeping /\ DbTypeOK
    BY DEF IndInv, TypeOK
<1>2. /\ up[n][e] # <<>> /\ m.kind = "full_state"
      /\ node' = [node EXCEPT ![n] = [online |-> TRUE, connected |-> e]]
      /\ ReaderAt(n, e, "swap")
      /\ UNCHANGED <<task, failedSlots, attempt, failures, reports, charged,
                     session, conn, registered, pending, reqVars, netVars, workerVars>>
    BY DEF UpsertWorkerState, Receives
<1>3. slot' = [s \in Slots |->
          IF NodeOf[s] # n THEN slot[s]
          ELSE [state |-> m.slots[s].state, active |-> m.slots[s].active,
                profile |-> m.slots[s].profile,
                quarantined |-> slot[s].quarantined,
                accepts |-> m.slots[s].state = "ready" /\ ~slot[s].quarantined]]
    BY DEF UpsertWorkerState
<1>4. m \in StateMessage
    BY <1>1, <1>2, HeadMessage DEF Bookkeeping
<1> HIDE DEF m
<1>5. slot' \in [Slots -> SlotRecord]
    <2>1. ASSUME NEW s \in Slots
          PROVE /\ slot[s] \in SlotRecord
                /\ [state |-> m.slots[s].state, active |-> m.slots[s].active,
                    profile |-> m.slots[s].profile, quarantined |-> slot[s].quarantined,
                    accepts |-> m.slots[s].state = "ready" /\ ~slot[s].quarantined] \in SlotRecord
        <3>1. slot[s] \in SlotRecord /\ m.slots[s] \in WorkerSlot
            BY <1>1, <1>4 DEF DbTypeOK, StateMessage
        <3> QED
            BY <3>1 DEF SlotRecord, WorkerSlot
    <2> QED
        BY <1>3, <2>1
<1>6. DbTypeOK'
    <2>1. node' \in [Nodes -> NodeRecord]
        BY <1>1, <1>2 DEF DbTypeOK, NodeRecord
    <2> QED
        BY <1>1, <1>2, <1>5, <2>1 DEF DbTypeOK
<1>7. SessionTypeOK' /\ ReadersHold'
    BY <1>2, ReaderMoves DEF ReaderPC, netVars
<1>8. UNCHANGED <<req, streams>> /\ AttemptsKept /\ \A a \in Attempts : Exists(a)' <=> Exists(a)
    BY <1>2, KeptFrame DEF reqVars, Exists
<1>9. RequestTypeOK' /\ NetTypeOK' /\ MessagesNamed'
    BY <1>1, <1>2, <1>8, RequestFrame, NetFrame, MessagesFrame DEF TypeOK, Bookkeeping, netVars
<1> QED
    BY <1>2, <1>6, <1>7, <1>8, <1>9, HandlerInv

\* The session swap preserves the invariant.
LEMMA SwapSessionInv ==
    ASSUME IndInv, NEW n \in Nodes, NEW e \in Sessions, SwapSession(n, e)
    PROVE IndInv'
<1> DEFINE old == session[n]
           r == [pc |-> IF old \in {0, e} THEN "replan" ELSE "join",
                 old |-> IF old = e THEN 0 ELSE old]
<1>1. TypeOK /\ Bookkeeping /\ SessionTypeOK
    BY DEF IndInv, TypeOK
<1>2. /\ reader[n][e].pc = "swap"
      /\ registered' = [registered EXCEPT ![n] = @ \cup {e}]
      /\ session' = [session EXCEPT ![n] = e]
      /\ reader' = [reader EXCEPT ![n][e] = r]
      /\ conn' = IF old \in {0, e} \/ conn[n][old] # "open" THEN conn
                 ELSE [conn EXCEPT ![n][old] = "closing"]
      /\ UNCHANGED <<db, pending, reqVars, netVars, workerVars>>
    BY DEF SwapSession
<1>3. old \in {0} \cup Sessions
    BY <1>1 DEF SessionTypeOK
<1>4. r \in ReaderRecord /\ r.pc \in {"replan", "join"}
    BY <1>3 DEF ReaderRecord, ReaderPC
<1>5. conn' \in [Nodes -> [Sessions -> ConnState]]
    BY <1>1, <1>2, <1>3 DEF SessionTypeOK, ConnState
<1> HIDE DEF r
<1>6. /\ reader' \in [Nodes -> [Sessions -> ReaderRecord]]
      /\ reader'[n][e] = r
      /\ \A m \in Nodes : \A f \in Sessions :
            (m # n \/ f # e) => reader'[m][f] = reader[m][f]
    BY <1>1, <1>2, <1>4 DEF SessionTypeOK
<1>7. SessionTypeOK'
    <2>1. /\ registered' \in [Nodes -> SUBSET Sessions]
          /\ session' \in [Nodes -> {0} \cup Sessions]
        BY <1>1, <1>2 DEF SessionTypeOK
    <2> QED
        BY <1>1, <1>2, <1>5, <1>6, <2>1 DEF SessionTypeOK
<1>8. ReadersHold'
    BY <1>1, <1>2, <1>4, <1>6 DEF Bookkeeping, ReadersHold, Message, netVars
<1>9. NetTypeOK' /\ WorkerTypeOK' /\ MessagesNamed'
    BY <1>1, <1>2, NetFrame, WorkerFrame, MessagesFrame, KeptFrame
       DEF TypeOK, Bookkeeping, db, netVars
<1> QED
    BY <1>2, <1>7, <1>8, <1>9, SessionOnlyInv DEF netVars, workerVars

\* The wait for the old session's close preserves the invariant.
LEMMA JoinCloseInv ==
    ASSUME IndInv, NEW n \in Nodes, NEW e \in Sessions, JoinClose(n, e)
    PROVE IndInv'
<1> DEFINE r == [pc |-> "replan", old |-> 0]
<1>1. TypeOK /\ Bookkeeping /\ SessionTypeOK
    BY DEF IndInv, TypeOK
<1>2. /\ reader[n][e].pc = "join" /\ reader' = [reader EXCEPT ![n][e] = r]
      /\ UNCHANGED <<db, session, conn, registered, pending, reqVars, netVars, workerVars>>
    BY DEF JoinClose
<1>3. r \in ReaderRecord /\ r.pc = "replan"
    BY DEF ReaderRecord, ReaderPC
<1> HIDE DEF r
<1>4. /\ reader' \in [Nodes -> [Sessions -> ReaderRecord]]
      /\ reader'[n][e] = r
      /\ \A m \in Nodes : \A f \in Sessions :
            (m # n \/ f # e) => reader'[m][f] = reader[m][f]
    BY <1>1, <1>2, <1>3 DEF SessionTypeOK
<1>5. SessionTypeOK'
    BY <1>1, <1>2, <1>4 DEF SessionTypeOK
<1>6. ReadersHold'
    BY <1>1, <1>2, <1>3, <1>4 DEF Bookkeeping, ReadersHold, Message, netVars
<1>7. NetTypeOK' /\ WorkerTypeOK' /\ MessagesNamed'
    BY <1>1, <1>2, NetFrame, WorkerFrame, MessagesFrame, KeptFrame
       DEF TypeOK, Bookkeeping, db, netVars
<1> QED
    BY <1>2, <1>5, <1>6, <1>7, SessionOnlyInv DEF netVars, workerVars

\* A handler changes the status or the first-output mark of an attempt that
\* exists, never its slot.
LEMMA AttemptUpdated ==
    ASSUME DbTypeOK, NEW a \in Attempts, Exists(a), NEW r \in AttemptRecord,
           r.status # "none", r.slot = attempt[a].slot,
           attempt' = [attempt EXCEPT ![a] = r]
    PROVE /\ attempt' \in [Attempts -> AttemptRecord]
          /\ AttemptsKept
          /\ \A b \in Attempts : Exists(b)' <=> Exists(b)
<1>1. attempt \in [Attempts -> AttemptRecord]
    BY DEF DbTypeOK
<1>2. \A b \in Attempts : /\ Exists(b)' <=> Exists(b)
                          /\ attempt'[b].slot = attempt[b].slot
    BY <1>1 DEF Exists
<1> QED
    BY <1>1, <1>2 DEF AttemptsKept

\* The message of an attempt handler names an attempt of the database.
LEMMA AttemptMessageNamed ==
    ASSUME IndInv, NEW n \in Nodes, NEW e \in Sessions, up[n][e] # <<>>,
           Message(n, e).kind \in {"started"} \cup StreamEvents
    PROVE /\ Message(n, e).att \in Attempts
          /\ TaskOf(Message(n, e).att) \in Tasks
          /\ Exists(Message(n, e).att)
          /\ attempt[Message(n, e).att] \in AttemptRecord
          /\ attempt[Message(n, e).att].slot \in Slots
<1>1. Message(n, e).att \in AttemptsOn(n)
    BY HeadMessage DEF IndInv, Bookkeeping
<1>2. Message(n, e).att \in Attempts /\ Exists(Message(n, e).att)
    BY <1>1 DEF AttemptsOn
<1> QED
    BY <1>2 DEF IndInv, TypeOK, DbTypeOK, Bookkeeping, AttemptsNumbered, Attempts, TaskOf

\* The replan that ends a handler drops the message the handler held.
LEMMA ReplanInv ==
    ASSUME IndInv, NEW n \in Nodes, NEW e \in Sessions, Replan(n, e)
    PROVE IndInv'
<1>1. TypeOK /\ Bookkeeping /\ DbTypeOK
    BY DEF IndInv, TypeOK
<1>2. /\ reader[n][e].pc = "replan"
      /\ slot' \in ReplanAndDispatch(slot)
      /\ NextMessage(n, e)
      /\ UNCHANGED <<task, failedSlots, attempt, failures, node, reports, charged,
                     session, conn, registered, pending, reqVars, down, workerVars>>
    BY DEF Replan
<1>3. up[n][e] # <<>>
    BY <1>1, <1>2 DEF Bookkeeping, ReadersHold
<1>4. DbTypeOK'
    <2>1. slot' \in [Slots -> SlotRecord]
        BY <1>1, <1>2, ReplanType DEF DbTypeOK
    <2> QED
        BY <1>1, <1>2, <2>1 DEF DbTypeOK
<1>5. UNCHANGED <<req, streams>> /\ AttemptsKept /\ \A a \in Attempts : Exists(a)' <=> Exists(a)
    BY <1>2, KeptFrame DEF reqVars, Exists
<1>6. SessionTypeOK' /\ NetTypeOK' /\ MessagesNamed' /\ ReadersHold'
    BY <1>2, <1>3, <1>5, NextMessageInv
<1>7. RequestTypeOK'
    BY <1>1, <1>2, RequestFrame DEF TypeOK
<1> QED
    BY <1>2, <1>4, <1>5, <1>6, <1>7, HandlerInv

\* handleWorkerSlotState preserves the invariant.
LEMMA HandleSlotStateInv ==
    ASSUME IndInv, NEW n \in Nodes, NEW e \in Sessions, HandleSlotState(n, e)
    PROVE IndInv'
<1> DEFINE m == Message(n, e)
           r == [slot[m.slot] EXCEPT !.state = m.value.state, !.active = m.value.active,
                   !.profile = m.value.profile,
                   !.accepts = m.value.state = "ready" /\ ~slot[m.slot].quarantined]
<1>1. TypeOK /\ Bookkeeping /\ DbTypeOK
    BY DEF IndInv, TypeOK
<1>2. /\ up[n][e] # <<>> /\ m.kind = "slot_state"
      /\ ReaderAt(n, e, "replan")
      /\ UNCHANGED <<task, failedSlots, attempt, failures, node, reports, charged,
                     session, conn, registered, pending, reqVars, netVars, workerVars>>
    BY DEF HandleSlotState, Receives
<1>3. slot' = [slot EXCEPT ![m.slot] = r]
    BY DEF HandleSlotState
<1>4. m.slot \in Slots /\ m.value \in WorkerSlot
    <2>1. m \in SlotMessage
        BY <1>1, <1>2, HeadMessage DEF Bookkeeping
    <2> QED
        BY <2>1 DEF SlotMessage
<1>5. r \in SlotRecord
    <2>1. slot[m.slot] \in SlotRecord
        BY <1>1, <1>4 DEF DbTypeOK
    <2> QED
        BY <1>4, <2>1 DEF SlotRecord, WorkerSlot
<1> HIDE DEF r, m
<1>6. DbTypeOK'
    BY <1>1, <1>2, <1>3, <1>5 DEF DbTypeOK
<1>7. SessionTypeOK' /\ ReadersHold'
    BY <1>2, ReaderMoves DEF ReaderPC, netVars
<1>8. UNCHANGED <<req, streams>> /\ AttemptsKept /\ \A a \in Attempts : Exists(a)' <=> Exists(a)
    BY <1>2, KeptFrame DEF reqVars, Exists
<1>9. RequestTypeOK' /\ NetTypeOK' /\ MessagesNamed'
    BY <1>1, <1>2, <1>8, RequestFrame, NetFrame, MessagesFrame DEF TypeOK, Bookkeeping, netVars
<1> QED
    BY <1>2, <1>6, <1>7, <1>8, <1>9, HandlerInv

\* handleWorkerAttemptStarted finds the attempt it sets running.
LEMMA HandleAttemptStartedInv ==
    ASSUME IndInv, NEW n \in Nodes, NEW e \in Sessions, HandleAttemptStarted(n, e)
    PROVE IndInv'
<1> DEFINE a == Message(n, e).att
           r == [attempt[a] EXCEPT !.status = "running"]
<1>1. TypeOK /\ Bookkeeping /\ DbTypeOK
    BY DEF IndInv, TypeOK
<1>2. /\ up[n][e] # <<>> /\ Message(n, e).kind = "started"
      /\ NextMessage(n, e)
      /\ UNCHANGED <<task, failedSlots, slot, failures, node, reports, charged,
                     session, conn, registered, pending, reqVars, down, workerVars>>
    BY DEF HandleAttemptStarted, Receives
<1>3. attempt' = [attempt EXCEPT ![a] = r]
    BY DEF HandleAttemptStarted
<1>4. a \in Attempts /\ Exists(a) /\ attempt[a] \in AttemptRecord
    BY <1>2, AttemptMessageNamed
<1>5. r \in AttemptRecord /\ r.status # "none" /\ r.slot = attempt[a].slot
    BY <1>4 DEF AttemptRecord, AttemptStatus, TaskStatus
<1> HIDE DEF r, a
<1>6. /\ attempt' \in [Attempts -> AttemptRecord]
      /\ AttemptsKept
      /\ \A b \in Attempts : Exists(b)' <=> Exists(b)
    BY <1>1, <1>3, <1>4, <1>5, AttemptUpdated
<1>7. DbTypeOK'
    BY <1>1, <1>2, <1>6 DEF DbTypeOK
<1>8. SessionTypeOK' /\ NetTypeOK' /\ MessagesNamed' /\ ReadersHold'
    BY <1>2, <1>6, NextMessageInv
<1>9. RequestTypeOK' /\ UNCHANGED <<req, streams>>
    BY <1>1, <1>2, RequestFrame DEF TypeOK, reqVars
<1> QED
    BY <1>2, <1>6, <1>7, <1>8, <1>9, HandlerInv

\* recordFirstOutput finds the attempt it marks.
LEMMA HandleTokenInv ==
    ASSUME IndInv, NEW n \in Nodes, NEW e \in Sessions, HandleToken(n, e)
    PROVE IndInv'
<1> DEFINE a == Message(n, e).att
           r == [attempt[a] EXCEPT !.first = TRUE]
<1>1. TypeOK /\ Bookkeeping /\ DbTypeOK
    BY DEF IndInv, TypeOK
<1>2. /\ up[n][e] # <<>> /\ Message(n, e).kind = "token"
      /\ UNCHANGED <<task, failedSlots, slot, failures, node, reports, charged,
                     session, conn, registered, pending, reqVars, down, workerVars>>
    BY DEF HandleToken, Receives
<1>3. \/ /\ attempt' = [attempt EXCEPT ![a] = r]
         /\ ReaderAt(n, e, "push")
         /\ UNCHANGED up
      \/ NextMessage(n, e) /\ UNCHANGED attempt
    BY DEF HandleToken
<1>4. a \in Attempts /\ Exists(a) /\ attempt[a] \in AttemptRecord
    BY <1>2, AttemptMessageNamed DEF StreamEvents
<1>5. r \in AttemptRecord /\ r.status # "none" /\ r.slot = attempt[a].slot
    BY <1>4 DEF AttemptRecord, Exists
<1> HIDE DEF r, a
<1>6. /\ attempt' \in [Attempts -> AttemptRecord]
      /\ AttemptsKept
      /\ \A b \in Attempts : Exists(b)' <=> Exists(b)
    <2>1. CASE attempt' = [attempt EXCEPT ![a] = r]
        BY <1>1, <1>4, <1>5, <2>1, AttemptUpdated
    <2>2. CASE UNCHANGED attempt
        BY <1>1, <2>2, KeptFrame DEF DbTypeOK, Exists
    <2> QED
        BY <1>3, <2>1, <2>2
<1>7. DbTypeOK'
    BY <1>1, <1>2, <1>6 DEF DbTypeOK
<1>8. SessionTypeOK' /\ NetTypeOK' /\ MessagesNamed' /\ ReadersHold'
    <2>1. CASE NextMessage(n, e)
        BY <1>2, <1>6, <2>1, NextMessageInv
    <2>2. CASE ReaderAt(n, e, "push") /\ UNCHANGED up
        <3>1. SessionTypeOK' /\ ReadersHold'
            BY <1>2, <2>2, ReaderMoves DEF ReaderPC, StreamEvents
        <3>2. NetTypeOK' /\ MessagesNamed'
            BY <1>1, <1>2, <1>6, <2>2, NetFrame, MessagesFrame DEF TypeOK, Bookkeeping, netVars
        <3> QED
            BY <3>1, <3>2
    <2> QED
        BY <1>3, <2>1, <2>2
<1>9. RequestTypeOK' /\ UNCHANGED <<req, streams>>
    BY <1>1, <1>2, RequestFrame DEF TypeOK, reqVars
<1> QED
    BY <1>2, <1>6, <1>7, <1>8, <1>9, HandlerInv

\* handleAttemptFailed finds the attempt, its task and its slot.
LEMMA HandleAttemptFailedInv ==
    ASSUME IndInv, NEW n \in Nodes, NEW e \in Sessions, HandleAttemptFailed(n, e)
    PROVE IndInv'
<1> DEFINE m == Message(n, e)
           a == m.att
           t == TaskOf(a)
           s == attempt[a].slot
           r == [attempt[a] EXCEPT !.status = "failed", !.first = (m.kind = "failed_final")]
           record == RecordSlotFailure(s, Released(s, t, FALSE), m.reason, 1)
<1>1. TypeOK /\ Bookkeeping /\ DbTypeOK
    BY DEF IndInv, TypeOK
<1>2. /\ up[n][e] # <<>> /\ m.kind \in Failures
      /\ ReaderAt(n, e, "push")
      /\ UNCHANGED <<node, reports, charged, session, conn, registered, pending, reqVars,
                     netVars, workerVars>>
    BY DEF HandleAttemptFailed, Receives
<1>3. /\ attempt' = [attempt EXCEPT ![a] = r]
      /\ slot' = [slot EXCEPT ![s] = record]
      /\ CountFailure(s, m.reason)
      /\ failedSlots' = [failedSlots EXCEPT ![t] = @ \cup {s}]
      /\ task' = [task EXCEPT ![t] = IF m.kind = "failed_retry" THEN "queued" ELSE "failed"]
    BY DEF HandleAttemptFailed
<1>4. /\ a \in Attempts /\ t \in Tasks /\ Exists(a)
      /\ attempt[a] \in AttemptRecord /\ s \in Slots
    BY <1>2, AttemptMessageNamed DEF StreamEvents
<1>5. r \in AttemptRecord /\ r.status # "none" /\ r.slot = s
    BY <1>4 DEF AttemptRecord, AttemptStatus, TaskStatus
<1>6. record \in SlotRecord
    BY <1>1, <1>4, ReleasedType, RecordSlotFailureType
<1>7. m.kind \in StreamEvents
    BY <1>2 DEF StreamEvents
<1> HIDE DEF r, record, s, t, a
<1>8. /\ attempt' \in [Attempts -> AttemptRecord]
      /\ AttemptsKept
      /\ \A b \in Attempts : Exists(b)' <=> Exists(b)
    BY <1>1, <1>3, <1>4, <1>5, AttemptUpdated DEF s
<1>9. DbTypeOK'
    <2>1. slot' \in [Slots -> SlotRecord] /\ failures' \in [Slots -> [Reasons -> Nat]]
        BY <1>1, <1>3, <1>4, <1>6, CountFailureType DEF DbTypeOK
    <2>2. failedSlots' \in [Tasks -> SUBSET Slots] /\ task' \in [Tasks -> TaskStatus]
        BY <1>1, <1>3, <1>4 DEF DbTypeOK, TaskStatus
    <2> QED
        BY <1>1, <1>2, <1>8, <2>1, <2>2 DEF DbTypeOK
<1>10. SessionTypeOK' /\ ReadersHold'
    BY <1>2, <1>7, ReaderMoves DEF ReaderPC, netVars
<1>11. RequestTypeOK' /\ NetTypeOK' /\ MessagesNamed' /\ UNCHANGED <<req, streams>>
    BY <1>1, <1>2, <1>8, RequestFrame, NetFrame, MessagesFrame
       DEF TypeOK, Bookkeeping, netVars, reqVars
<1> QED
    BY <1>2, <1>8, <1>9, <1>10, <1>11, HandlerInv

\* The database after a compute report, stored before or not.
LEMMA ReportedType ==
    ASSUME IndInv, NEW n \in Nodes, NEW e \in Sessions, HandleComputeReport(n, e)
    PROVE /\ DbTypeOK' /\ AttemptsKept
          /\ \A b \in Attempts : Exists(b)' <=> Exists(b)
<1> DEFINE m == Message(n, e)
           a == m.att
           t == TaskOf(a)
           s == attempt[a].slot
           status == StatusOfReport(m.kind)
           requeue == m.kind = "report_retry" /\ ~attempt[a].first
           r == [attempt[a] EXCEPT !.status = status]
           released == Released(s, t, TRUE)
           record == RecordSlotFailure(s, released, m.reason, 1)
<1>1. DbTypeOK
    BY DEF IndInv, TypeOK
<1>2. CASE UNCHANGED db
    BY <1>1, <1>2, DbFrame, KeptFrame DEF db, Exists
<1>3. CASE ~UNCHANGED db
    <2>1. up[n][e] # <<>> /\ m.kind \in Reports
        BY DEF HandleComputeReport, Receives
    <2>2. /\ charged' = IF status = "completed" THEN charged \cup {a} ELSE charged
          /\ reports' = reports \cup {a}
          /\ attempt' = [attempt EXCEPT ![a] = r]
          /\ task' = [task EXCEPT ![t] = IF requeue THEN "queued" ELSE status]
          /\ failedSlots' = [failedSlots EXCEPT ![t] = IF requeue THEN @ \cup {s} ELSE @]
          /\ UNCHANGED node
        BY <1>3 DEF HandleComputeReport
    <2>3. \/ /\ slot' = [slot EXCEPT ![s] = record]
             /\ CountFailure(s, m.reason)
          \/ /\ slot' = [slot EXCEPT ![s] = released]
             /\ UNCHANGED failures
        BY <1>3 DEF HandleComputeReport
    <2>4. /\ a \in Attempts /\ t \in Tasks /\ Exists(a)
          /\ attempt[a] \in AttemptRecord /\ s \in Slots
        BY <2>1, AttemptMessageNamed DEF StreamEvents
    <2>5. status \in AttemptStatus \ {"none"} /\ status \in TaskStatus
        BY DEF StatusOfReport, AttemptStatus, TaskStatus
    <2> HIDE DEF status
    <2>6. r \in AttemptRecord /\ r.status # "none" /\ r.slot = s
        BY <2>4, <2>5 DEF AttemptRecord
    <2>7. released \in SlotRecord
        BY <1>1, <2>4, ReleasedType
    <2> HIDE DEF released
    <2>8. record \in SlotRecord
        BY <2>7, RecordSlotFailureType
    <2> HIDE DEF r, record, s, t, a, requeue
    <2>9. /\ attempt' \in [Attempts -> AttemptRecord]
          /\ AttemptsKept
          /\ \A b \in Attempts : Exists(b)' <=> Exists(b)
        BY <1>1, <2>2, <2>4, <2>6, AttemptUpdated DEF s
    <2>10. slot' \in [Slots -> SlotRecord] /\ failures' \in [Slots -> [Reasons -> Nat]]
        BY <1>1, <2>3, <2>4, <2>7, <2>8, CountFailureType DEF DbTypeOK
    <2>11. failedSlots' \in [Tasks -> SUBSET Slots] /\ task' \in [Tasks -> TaskStatus]
        BY <1>1, <2>2, <2>4, <2>5 DEF DbTypeOK, TaskStatus
    <2>12. reports' \subseteq Attempts /\ charged' \subseteq Attempts
        BY <1>1, <2>2, <2>4 DEF DbTypeOK
    <2> QED
        BY <1>1, <2>2, <2>9, <2>10, <2>11, <2>12 DEF DbTypeOK
<1> QED
    BY <1>2, <1>3

\* handleComputeReport finds the attempt, its task and its slot.
LEMMA HandleComputeReportInv ==
    ASSUME IndInv, NEW n \in Nodes, NEW e \in Sessions, HandleComputeReport(n, e)
    PROVE IndInv'
<1>1. TypeOK /\ Bookkeeping
    BY DEF IndInv
<1>2. /\ up[n][e] # <<>> /\ Message(n, e).kind \in StreamEvents
      /\ ReaderAt(n, e, "push")
      /\ UNCHANGED <<session, conn, registered, pending, reqVars, netVars, workerVars>>
    BY DEF HandleComputeReport, Receives, StreamEvents
<1>3. /\ DbTypeOK' /\ AttemptsKept
      /\ \A b \in Attempts : Exists(b)' <=> Exists(b)
    BY ReportedType
<1>4. SessionTypeOK' /\ ReadersHold'
    BY <1>2, ReaderMoves DEF ReaderPC, netVars
<1>5. RequestTypeOK' /\ NetTypeOK' /\ MessagesNamed' /\ UNCHANGED <<req, streams>>
    BY <1>1, <1>2, <1>3, RequestFrame, NetFrame, MessagesFrame
       DEF TypeOK, Bookkeeping, netVars, reqVars
<1> QED
    BY <1>2, <1>3, <1>4, <1>5, HandlerInv

\* The event a handler pushes is the one its message stands for.
LEMMA PushEventInv ==
    ASSUME IndInv, NEW n \in Nodes, NEW e \in Sessions, PushEvent(n, e)
    PROVE IndInv'
<1> DEFINE m == Message(n, e)
<1>1. TypeOK /\ Bookkeeping
    BY DEF IndInv
<1>2. /\ reader[n][e].pc = "push"
      /\ Push(m.att, m.kind)
      /\ UNCHANGED <<db, session, conn, registered, pending, streams, req, resp, gone,
                     jobCancels, shown, down, workerVars>>
    BY DEF PushEvent
<1>3. \/ ReaderAt(n, e, "replan") /\ UNCHANGED up
      \/ NextMessage(n, e)
    BY DEF PushEvent
<1>4. up[n][e] # <<>> /\ m.kind \in StreamEvents
    BY <1>1, <1>2 DEF Bookkeeping, ReadersHold
<1>5. m.att \in Attempts
    BY <1>4, AttemptMessageNamed
<1> HIDE DEF m
<1>6. RequestTypeOK'
    BY <1>1, <1>2, <1>4, <1>5, PushType DEF TypeOK
<1>7. DbTypeOK' /\ AttemptsKept /\ \A a \in Attempts : Exists(a)' <=> Exists(a)
    BY <1>1, <1>2, DbFrame, KeptFrame DEF TypeOK, db, Exists
<1>8. SessionTypeOK' /\ NetTypeOK' /\ MessagesNamed' /\ ReadersHold'
    <2>1. CASE NextMessage(n, e)
        BY <1>2, <1>4, <1>7, <2>1, NextMessageInv
    <2>2. CASE ReaderAt(n, e, "replan") /\ UNCHANGED up
        <3>1. SessionTypeOK' /\ ReadersHold'
            BY <1>2, <1>4, <2>2, ReaderMoves DEF ReaderPC
        <3>2. NetTypeOK' /\ MessagesNamed'
            BY <1>1, <1>2, <1>7, <2>2, NetFrame, MessagesFrame DEF TypeOK, Bookkeeping, netVars
        <3> QED
            BY <3>1, <3>2
    <2> QED
        BY <1>3, <2>1, <2>2
<1> QED
    BY <1>2, <1>6, <1>7, <1>8, HandlerInv

-----------------------------------------------------------------------------
(* Every step preserves the invariant, and the theorems *)

\* A step that changes nothing preserves the invariant.
LEMMA StutterInv == IndInv /\ UNCHANGED vars => IndInv'
<1> SUFFICES ASSUME IndInv, UNCHANGED vars PROVE IndInv'
    OBVIOUS
<1>1. UNCHANGED <<db, sessVars, reqVars, netVars, workerVars>>
    BY DEF vars
<1>2. DbTypeOK' /\ UNCHANGED attempt
    BY <1>1, DbFrame DEF IndInv, TypeOK, db
<1> QED
    BY <1>1, <1>2, DbOnlyInv

\* One case per action.
LEMMA NextInv == IndInv /\ [Next]_vars => IndInv'
<1> SUFFICES ASSUME IndInv, [Next]_vars PROVE IndInv'
    OBVIOUS
<1>1. ASSUME NEW t \in Tasks, ClientStep(t) PROVE IndInv'
    BY <1>1, SubmitInv, ClientGoneInv, CancelJobInv DEF ClientStep
<1>2. ASSUME NEW t \in Tasks, RequestStep(t) PROVE IndInv'
    BY <1>2, SelectSlotInv, NoCapacityInv, StartCancelledInv, ReserveAttemptInv,
       DispatchAttemptInv, TakeEventInv, ContextDoneInv DEF RequestStep
<1>3. ASSUME NEW n \in Nodes, NEW e \in Sessions, HandlerStep(n, e) PROVE IndInv'
    BY <1>3, RefuseUnregisteredInv, UpsertWorkerStateInv, SwapSessionInv, JoinCloseInv, ReplanInv,
       HandleSlotStateInv, HandleAttemptStartedInv, HandleTokenInv, HandleAttemptFailedInv,
       HandleComputeReportInv, PushEventInv DEF HandlerStep
<1>4. ASSUME NEW n \in Nodes, NEW e \in Sessions,
             \/ CloserStep(n, e) \/ CloseSession(n, e) \/ ReaderStop(n, e) \/ HandleHeartbeat(n, e)
      PROVE IndInv'
    BY <1>4, FailRunningAttemptsInv, PublishFailureInv, CloseSessionInv, ReaderStopInv,
       HandleHeartbeatInv DEF CloserStep
<1>5. ASSUME NEW n \in Nodes,
             \/ MarkOffline(n) \/ Disconnect(n) \/ Connect(n) \/ Greet(n) \/ Receive(n)
      PROVE IndInv'
    BY <1>5, MarkOfflineInv, DisconnectInv, ConnectInv, GreetInv, ReceiveInv
<1>6. ASSUME NEW a \in Attempts, ExecStep(a) PROVE IndInv'
    BY <1>6, RegisterInv, AdmitInv, RejectInv, ServeInv, SendTokenInv, CompleteInv,
       RuntimeErrorInv, ReportErrorInv, RecoverInv, RestartedInv DEF ExecStep
<1>7. ASSUME NEW s \in Slots, ClearQuarantine(s) \/ Assign(s) \/ Assigned(s) PROVE IndInv'
    BY <1>7, ClearQuarantineInv, AssignInv
<1> QED
    BY <1>1, <1>2, <1>3, <1>4, <1>5, <1>6, <1>7, StutterInv DEF Next

\* The invariant holds in every reachable state.
LEMMA Invariance == Spec => []IndInv
    BY InitInv, NextInv, PTL DEF Spec

\* Every variable keeps its type: no interleaving of requests, closers, readers
\* and Workers gives a task, an attempt or a slot a status outside its values.
THEOREM TypeCorrect == Spec => []TypeOK
<1>1. IndInv => TypeOK
    BY DEF IndInv
<1> QED
    BY <1>1, Invariance, PTL

\* Every attempt, slot and session that a request, a stream, a message, a closer
\* or a Worker goroutine names exists and belongs to the node that speaks of it,
\* so the lookups of requireWorkerAttempt, handleAttemptFailed,
\* handleComputeReport and failRunningAttempts succeed.
THEOREM BookkeepingHolds == Spec => []Bookkeeping
<1>1. IndInv => Bookkeeping
    BY DEF IndInv
<1> QED
    BY <1>1, Invariance, PTL

-----------------------------------------------------------------------------
(* No step but its expiry lifts a quarantine *)

\* Every quarantined slot stays quarantined.
QuarantinesKept == \A s \in Slots : slot[s].quarantined => slot'[s].quarantined

\* The operators that make a slot record keep its quarantine.
LEMMA RecordKeeps ==
    ASSUME NEW s, NEW record \in SlotRecord, NEW r, NEW k, record.quarantined
    PROVE RecordSlotFailure(s, record, r, k).quarantined
    BY DEF RecordSlotFailure, SlotRecord

\* The release of a slot keeps its quarantine.
LEMMA ReleasedKeeps ==
    ASSUME DbTypeOK, NEW s \in Slots, NEW t, NEW refusing, slot[s].quarantined
    PROVE Released(s, t, refusing).quarantined
    BY DEF Released, DbTypeOK, SlotRecord

\* A disconnect keeps a slot's quarantine.
LEMMA DisconnectedKeeps ==
    ASSUME DbTypeOK, NEW s \in Slots, slot[s].quarantined
    PROVE Disconnected(s).quarantined
    BY DEF Disconnected, DbTypeOK, SlotRecord

\* A replan keeps every slot's quarantine.
LEMMA ReplanKeeps ==
    ASSUME NEW slots \in [Slots -> SlotRecord],
           NEW new \in ReplanAndDispatch(slots) \cup AfterClose(slots)
    PROVE \A s \in Slots : new[s].quarantined = slots[s].quarantined
<1>1. CASE new = slots
    BY <1>1
<1>2. CASE new \in ReplanAndDispatch(slots)
    BY <1>2 DEF ReplanAndDispatch, SlotRecord
<1> QED
    BY <1>1, <1>2 DEF AfterClose

\* One slot changes, and its new record keeps the quarantine.
LEMMA OneSlotKeeps ==
    ASSUME DbTypeOK, NEW s \in Slots, NEW record, slot' = [slot EXCEPT ![s] = record],
           slot[s].quarantined => record.quarantined
    PROVE QuarantinesKept
    BY DEF QuarantinesKept, DbTypeOK

\* Request goroutines keep the quarantines.
LEMMA RequestsKeep ==
    ASSUME IndInv, NEW t \in Tasks, ClientStep(t) \/ RequestStep(t)
    PROVE QuarantinesKept
<1>1. DbTypeOK /\ Bookkeeping
    BY DEF IndInv, TypeOK
<1>2. CASE ReserveAttempt(t)
    <2>1. CASE UNCHANGED slot
        BY <2>1 DEF QuarantinesKept
    <2>2. CASE ~UNCHANGED slot
        <3>1. /\ req[t].pc = "reserve"
              /\ slot' = [slot EXCEPT ![req[t].slot] =
                            [slot[req[t].slot] EXCEPT !.state = "serving", !.active = t,
                                                      !.accepts = FALSE]]
            BY <1>2, <2>2 DEF ReserveAttempt
        <3>2. req[t].slot \in Slots
            BY <1>1, <3>1 DEF Bookkeeping, RequestsNamed
        <3>3. slot[req[t].slot] \in SlotRecord
            BY <1>1, <3>2 DEF DbTypeOK
        <3> QED
            BY <1>1, <3>1, <3>2, <3>3, OneSlotKeeps DEF SlotRecord
    <2> QED
        BY <2>1, <2>2
<1>3. CASE DispatchAttempt(t)
    <2> DEFINE s == attempt[Current(t)].slot
               record == [slot[s] EXCEPT !.state = "ready", !.active = NoTask]
    <2>1. CASE UNCHANGED slot
        BY <2>1 DEF QuarantinesKept
    <2>2. CASE ~UNCHANGED slot
        <3>1. /\ req[t].pc = "dispatch"
              /\ slot' = [slot EXCEPT ![s] = RecordSlotFailure(s, record, "worker_disconnected", 1)]
            BY <1>3, <2>2 DEF DispatchAttempt, MarkAttemptFailed
        <3>2. s \in Slots
            BY <1>1, <3>1 DEF Bookkeeping, RequestsNamed
        <3>3. record \in SlotRecord /\ record.quarantined = slot[s].quarantined
            BY <1>1, <3>2 DEF DbTypeOK, SlotRecord, SlotState
        <3> HIDE DEF record, s
        <3> QED
            BY <1>1, <3>1, <3>2, <3>3, OneSlotKeeps, RecordKeeps
    <2> QED
        BY <2>1, <2>2
<1>4. CASE ClientStep(t) \/ SelectSlot(t) \/ NoCapacity(t) \/ StartCancelled(t)
           \/ TakeEvent(t) \/ ContextDone(t)
    <2>1. UNCHANGED slot
        BY <1>4 DEF ClientStep, Submit, ClientGone, CancelJob, SelectSlot, NoCapacity,
                    StartCancelled, TakeEvent, ContextDone, db
    <2> QED
        BY <2>1 DEF QuarantinesKept
<1> QED
    BY <1>2, <1>3, <1>4 DEF RequestStep

\* Message handlers keep the quarantines.
LEMMA HandlersKeep ==
    ASSUME IndInv, NEW n \in Nodes, NEW e \in Sessions, HandlerStep(n, e)
    PROVE QuarantinesKept
<1> DEFINE m == Message(n, e)
<1>1. DbTypeOK /\ Bookkeeping
    BY DEF IndInv, TypeOK
<1>2. CASE UpsertWorkerState(n, e)
    <2>1. \A s \in Slots : slot'[s].quarantined = slot[s].quarantined
        BY <1>2 DEF UpsertWorkerState
    <2> QED
        BY <2>1 DEF QuarantinesKept
<1>3. CASE Replan(n, e)
    <2>1. slot' \in ReplanAndDispatch(slot) /\ slot \in [Slots -> SlotRecord]
        BY <1>1, <1>3 DEF Replan, DbTypeOK
    <2> QED
        BY <2>1, ReplanKeeps DEF QuarantinesKept
<1>4. CASE HandleSlotState(n, e)
    <2> DEFINE record == [slot[m.slot] EXCEPT !.state = m.value.state, !.active = m.value.active,
                            !.profile = m.value.profile,
                            !.accepts = m.value.state = "ready" /\ ~slot[m.slot].quarantined]
    <2>1. up[n][e] # <<>> /\ m.kind = "slot_state" /\ slot' = [slot EXCEPT ![m.slot] = record]
        BY <1>4 DEF HandleSlotState, Receives
    <2>2. m.slot \in Slots
        BY <1>1, <2>1, HeadMessage DEF Bookkeeping, SlotMessage
    <2>3. record.quarantined = slot[m.slot].quarantined
        BY <1>1, <2>2 DEF DbTypeOK, SlotRecord
    <2> HIDE DEF record, m
    <2> QED
        BY <1>1, <2>1, <2>2, <2>3, OneSlotKeeps
<1>5. CASE HandleAttemptFailed(n, e)
    <2> DEFINE s == attempt[m.att].slot
               released == Released(s, TaskOf(m.att), FALSE)
    <2>1. /\ up[n][e] # <<>> /\ m.kind \in Failures
          /\ slot' = [slot EXCEPT ![s] = RecordSlotFailure(s, released, m.reason, 1)]
        BY <1>5 DEF HandleAttemptFailed, Receives
    <2>2. s \in Slots
        BY <2>1, AttemptMessageNamed DEF StreamEvents
    <2>3. released \in SlotRecord /\ (slot[s].quarantined => released.quarantined)
        BY <1>1, <2>2, ReleasedType, ReleasedKeeps
    <2> HIDE DEF released, s, m
    <2> QED
        BY <1>1, <2>1, <2>2, <2>3, OneSlotKeeps, RecordKeeps
<1>6. CASE HandleComputeReport(n, e)
    <2> DEFINE s == attempt[m.att].slot
               released == Released(s, TaskOf(m.att), TRUE)
    <2>1. CASE UNCHANGED slot
        BY <2>1 DEF QuarantinesKept
    <2>2. CASE ~UNCHANGED slot
        <3>1. /\ up[n][e] # <<>> /\ m.kind \in Reports
              /\ \/ slot' = [slot EXCEPT ![s] = RecordSlotFailure(s, released, m.reason, 1)]
                 \/ slot' = [slot EXCEPT ![s] = released]
            BY <1>6, <2>2 DEF HandleComputeReport, Receives, db
        <3>2. s \in Slots
            BY <3>1, AttemptMessageNamed DEF StreamEvents
        <3>3. released \in SlotRecord /\ (slot[s].quarantined => released.quarantined)
            BY <1>1, <3>2, ReleasedType, ReleasedKeeps
        <3> HIDE DEF released, s, m
        <3> QED
            BY <1>1, <3>1, <3>2, <3>3, OneSlotKeeps, RecordKeeps
    <2> QED
        BY <2>1, <2>2
<1>7. CASE RefuseUnregistered(n, e) \/ SwapSession(n, e) \/ JoinClose(n, e)
           \/ HandleAttemptStarted(n, e) \/ HandleToken(n, e) \/ PushEvent(n, e)
    <2>1. UNCHANGED slot
        BY <1>7 DEF RefuseUnregistered, SwapSession, JoinClose, HandleAttemptStarted,
                    HandleToken, PushEvent, db
    <2> QED
        BY <2>1 DEF QuarantinesKept
<1> QED
    BY <1>2, <1>3, <1>4, <1>5, <1>6, <1>7 DEF HandlerStep

\* Session closers keep the quarantines.
LEMMA ClosersKeep ==
    ASSUME IndInv, NEW n \in Nodes, NEW e \in Sessions, CloserStep(n, e)
    PROVE QuarantinesKept
<1>1. DbTypeOK /\ slot \in [Slots -> SlotRecord]
    BY DEF IndInv, TypeOK, DbTypeOK
<1>2. CASE FailRunningAttempts(n, e)
    <2> DEFINE failed == {a \in Attempts : attempt[a].status = "running" /\ NodeOfAttempt(a) = n}
               failedOn(s) == {a \in failed : attempt[a].slot = s}
               owner == node[n].connected \in {e, 0}
               lost(s) == [slot[s] EXCEPT !.state = "unavailable", !.active = NoTask,
                                          !.accepts = FALSE]
               slots == [s \in Slots |->
                  IF failedOn(s) # {}
                  THEN RecordSlotFailure(s, lost(s), "worker_disconnected",
                                         Cardinality(failedOn(s)))
                  ELSE IF owner /\ NodeOf[s] = n THEN Disconnected(s) ELSE slot[s]]
    <2>1. slot' \in IF failed = {} THEN AfterClose(slots) ELSE {slots}
        BY <1>2 DEF FailRunningAttempts
    <2>2. ASSUME NEW s \in Slots
          PROVE lost(s) \in SlotRecord /\ lost(s).quarantined = slot[s].quarantined
        BY <1>1 DEF SlotRecord, SlotState
    <2> HIDE DEF lost, owner, failed
    <2>3. slots \in [Slots -> SlotRecord]
        BY <1>1, <2>2, RecordSlotFailureType, DisconnectedType
    <2>4. \A s \in Slots : slot[s].quarantined => slots[s].quarantined
        BY <1>1, <2>2, RecordKeeps, DisconnectedKeeps
    <2> HIDE DEF slots
    <2> QED
        BY <2>1, <2>3, <2>4, ReplanKeeps DEF QuarantinesKept
<1>3. CASE PublishFailure(n, e)
    <2>1. slot' \in AfterClose(slot) \cup {slot}
        BY <1>3 DEF PublishFailure
    <2> QED
        BY <1>1, <2>1, ReplanKeeps DEF QuarantinesKept
<1> QED
    BY <1>2, <1>3 DEF CloserStep

\* markOfflineWorkers keeps the quarantines.
LEMMA OfflineKeeps ==
    ASSUME IndInv, NEW n \in Nodes, MarkOffline(n)
    PROVE QuarantinesKept
<1> DEFINE slots == [s \in Slots |-> IF NodeOf[s] = n THEN Disconnected(s) ELSE slot[s]]
<1>1. DbTypeOK /\ slot \in [Slots -> SlotRecord]
    BY DEF IndInv, TypeOK, DbTypeOK
<1>2. slot' \in ReplanAndDispatch(slots)
    BY DEF MarkOffline
<1>3. slots \in [Slots -> SlotRecord]
    BY <1>1, DisconnectedType
<1>4. \A s \in Slots : slot[s].quarantined => slots[s].quarantined
    BY <1>1, DisconnectedKeeps
<1> HIDE DEF slots
<1> QED
    BY <1>2, <1>3, <1>4, ReplanKeeps DEF QuarantinesKept

\* Every step keeps the quarantines or touches no message and no reader.
LEMMA StepKeeps ==
    ASSUME IndInv, [Next]_vars
    PROVE QuarantinesKept \/ UNCHANGED <<up, reader>>
<1>1. ASSUME NEW n \in Nodes, NEW e \in Sessions,
             CloseSession(n, e) \/ ReaderStop(n, e) \/ HandleHeartbeat(n, e)
      PROVE UNCHANGED slot
    BY <1>1 DEF CloseSession, ReaderStop, HandleHeartbeat, db
<1>2. ASSUME NEW n \in Nodes, Disconnect(n) \/ Connect(n) \/ Greet(n) \/ Receive(n)
      PROVE UNCHANGED slot
    BY <1>2 DEF Disconnect, Connect, Greet, Receive, db
<1>3. ASSUME NEW a \in Attempts, ExecStep(a)
      PROVE UNCHANGED slot
    BY <1>3 DEF ExecStep, Register, Admit, Reject, Serve, SendToken, Complete, RuntimeError,
                ReportError, Recover, Restarted, db
<1>4. ASSUME NEW s \in Slots, Assign(s) \/ Assigned(s)
      PROVE UNCHANGED slot
    BY <1>4 DEF Assign, Assigned, db
<1>5. ASSUME NEW s \in Slots, ClearQuarantine(s)
      PROVE UNCHANGED <<up, reader>>
    BY <1>5 DEF ClearQuarantine, netVars, sessVars
<1>6. UNCHANGED slot => QuarantinesKept
    BY DEF QuarantinesKept
<1>7. UNCHANGED vars => UNCHANGED slot
    BY DEF vars, db
<1> QED
    BY <1>1, <1>2, <1>3, <1>4, <1>5, <1>6, <1>7, RequestsKeep, HandlersKeep, ClosersKeep,
       OfflineKeeps DEF Next

\* A Worker cannot talk its way out of a quarantine: neither a slot report, a
\* reconnect with its full state, a failed or a finished attempt nor a replan
\* clears it, for copySlotFailureState and recordSlotFailure keep what is there.
THEOREM QuarantineKept == Spec => QuarantineHolds
<1>1. IndInv /\ [Next]_vars => QuarantinesKept \/ UNCHANGED <<up, reader>>
    BY StepKeeps
<1>2. IndInv /\ [Next]_vars =>
        [(\E s \in Slots : slot[s].quarantined /\ ~slot'[s].quarantined)
            => UNCHANGED <<up, reader>>]_vars
    BY <1>1 DEF QuarantinesKept
<1> QED
    BY <1>2, Invariance, PTL DEF Spec, QuarantineHolds
============================================================================
