------------------------- MODULE RequestLifeProofs --------------------------
(***************************************************************************)
(* TaskDispatch implements RequestLife, and what that rests on: a request  *)
(* never returns to a slot that failed it, and an answer with a completion *)
(* has been charged.                                                       *)
(*                                                                         *)
(* Both say that an event in a request's channel tells the truth about the *)
(* database, and neither is inductive: the event comes from a message that *)
(* a Worker sent, perhaps on another session, and whose handler runs in    *)
(* several steps.  The invariant follows it from its source: an attempt is *)
(* dispatched once, so it is executed once, so it sends one report; what a *)
(* report or a failure says of its output is what its execution did; and a *)
(* handler stores it before it pushes it.                                  *)
(*                                                                         *)
(* The last sections are about connections that stay up.  Then an attempt  *)
(* says its last word once, in order, and is over when it does: a request  *)
(* that waits is served, one attempt of a task runs at a time, a stream is *)
(* not begun again, and what failed is not charged.                        *)
(***************************************************************************)
EXTENDS TaskDispatchProofs

-----------------------------------------------------------------------------
(* Messages on their way *)

\* The queue q holds a message of kind k about attempt a, at some place.
SaidIn(q, a, k) == \E i \in DOMAIN q : q[i].kind = k /\ q[i].att = a

\* A message of that kind is on its way to the Manager.
Said(a, k) == \E n \in Nodes, e \in Sessions : SaidIn(up[n][e], a, k)

\* Place i of queue q is the dispatch of attempt a.
ExecutesAt(q, i, a) == i \in DOMAIN q /\ q[i].kind = "execute_task" /\ a \in q[i].atts

-----------------------------------------------------------------------------
(* The invariant *)

\* An attempt is dispatched once and executed once.
DispatchedOnce ==
    /\ \A n \in Nodes, e \in Sessions, a \in Attempts : \A i \in DOMAIN down[n][e] :
          ExecutesAt(down[n][e], i, a) =>
              /\ exec[a].pc = "none"
              /\ \A n2 \in Nodes, e2 \in Sessions : \A j \in DOMAIN down[n2][e2] :
                    ExecutesAt(down[n2][e2], j, a) => n2 = n /\ e2 = e /\ j = i
    /\ \A t \in Tasks : req[t].pc = "dispatch" =>
          /\ exec[Current(t)].pc = "none"
          /\ \A n \in Nodes, e \in Sessions : \A i \in DOMAIN down[n][e] :
                ~ExecutesAt(down[n][e], i, Current(t))

\* It reports once, at its end, and completions that were stored were charged.
ReportedOnce ==
    /\ \A a \in Attempts : \A k \in Reports : Said(a, k) => exec[a].pc = "done"
    /\ \A a \in reports : exec[a].pc = "done"
    /\ \A a \in Attempts : \A k, l \in Reports : Said(a, k) /\ Said(a, l) => k = l
    /\ \A a \in reports : Said(a, "report_completed") => a \in charged
    /\ charged \subseteq reports

\* What is said of an attempt's output is so.
OutputKnown ==
    \A a \in Attempts :
        /\ attempt[a].first => exec[a].first
        /\ Said(a, "token") \/ Said(a, "failed_final") => exec[a].first
        /\ Said(a, "failed_retry") \/ Said(a, "report_retry") => exec[a].pc = "done" /\ ~exec[a].first
        /\ exec[a].pc \in {"none", "spawned", "active", "admitted"} => ~exec[a].first

\* The task knows that the slot of attempt a failed it.
Noted(a) == Exists(a) /\ attempt[a].slot \in failedSlots[TaskOf(a)]

\* A stored report that offers a retry has noted the slot.
RetriesNoted == \A a \in reports : Said(a, "report_retry") => Noted(a)

\* An event that is pushed tells the truth: before a retry the slot is noted,
\* before a completion the attempt is charged.
TrueEvent(a, k) ==
    /\ k \in {"failed_retry", "report_retry"} => Noted(a)
    /\ k = "report_completed" => a \in charged

ChannelsTrue == \A a \in Attempts : \A i \in DOMAIN events[a] : TrueEvent(a, events[a][i])

\* A closer has noted what it has yet to publish.
ClosersTrue == \A n \in Nodes, e \in Sessions : \A f \in pending[n][e] : Noted(f.att)

\* A reader has stored what it is about to push.
ReadersTrue ==
    \A n \in Nodes, e \in Sessions : reader[n][e].pc = "push" =>
        /\ Message(n, e).kind = "failed_retry" => Noted(Message(n, e).att)
        /\ Message(n, e).kind \in Reports => Message(n, e).att \in reports

EventsTrue == RetriesNoted /\ ChannelsTrue /\ ClosersTrue /\ ReadersTrue

\* The attempts that a request has given up.
GivenUp(t) ==
    {a \in Attempts : TaskOf(a) = t /\ Exists(a) /\ (req[t].pc \in {"dispatch", "wait"} => a # Current(t))}

\* A request in its loop has left nothing but noted slots behind, and is about
\* to use another one.
LoopOK(t) ==
    /\ req[t].pc = "none" => req[t].n = 0
    /\ req[t].pc # "done" => \A a \in GivenUp(t) : Noted(a)
    /\ req[t].pc = "reserve" => \A a \in GivenUp(t) : attempt[a].slot # req[t].slot
    /\ resp[t] # "none" <=> req[t].pc = "done"
    /\ resp[t] = "ok" => Current(t) \in charged

LoopKeepsOff == \A t \in Tasks : LoopOK(t)

History ==
    DispatchedOnce /\ ReportedOnce /\ OutputKnown /\ EventsTrue /\ LoopKeepsOff /\ ExcludeFailedSlots

-----------------------------------------------------------------------------
(* Queues *)

Kinds == {"started"} \cup StreamEvents

\* What a queue says when it is shorter or longer.
LEMMA SaidInEmpty == ASSUME NEW a, NEW k PROVE ~SaidIn(<<>>, a, k)
    BY DEF SaidIn

LEMMA SaidInTail ==
    ASSUME NEW S, NEW q \in Seq(S), q # <<>>, NEW a, NEW k, SaidIn(Tail(q), a, k)
    PROVE SaidIn(q, a, k)
<1>1. PICK i \in DOMAIN Tail(q) : Tail(q)[i].kind = k /\ Tail(q)[i].att = a
    BY DEF SaidIn
<1>2. i + 1 \in DOMAIN q /\ q[i + 1] = Tail(q)[i]
    BY <1>1
<1> QED
    BY <1>1, <1>2 DEF SaidIn

LEMMA SaidInConcat ==
    ASSUME NEW S, NEW q \in Seq(S), NEW r \in Seq(S), NEW a, NEW k, SaidIn(q \o r, a, k)
    PROVE SaidIn(q, a, k) \/ SaidIn(r, a, k)
<1>1. PICK i \in DOMAIN (q \o r) : (q \o r)[i].kind = k /\ (q \o r)[i].att = a
    BY DEF SaidIn
<1>2. CASE i <= Len(q)
    <2>1. i \in DOMAIN q /\ (q \o r)[i] = q[i]
        BY <1>1, <1>2
    <2> QED
        BY <1>1, <2>1 DEF SaidIn
<1>3. CASE i > Len(q)
    <2>1. i - Len(q) \in DOMAIN r /\ (q \o r)[i] = r[i - Len(q)]
        BY <1>1, <1>3
    <2> QED
        BY <1>1, <2>1 DEF SaidIn
<1>4. i <= Len(q) \/ i > Len(q)
    BY <1>1
<1> QED
    BY <1>2, <1>3, <1>4

LEMMA SaidInKept ==
    ASSUME NEW S, NEW ms \in Seq(S), Len(ms) \in 1..2, NEW kept \in Kept(ms), NEW a, NEW k,
           SaidIn(kept, a, k)
    PROVE SaidIn(ms, a, k)
<1>1. kept = ms \/ kept = <<>> \/ kept = <<Head(ms)>> \/ kept = Tail(ms)
    BY DEF Kept
<1>2. CASE kept = <<Head(ms)>>
    <2>1. PICK i \in DOMAIN kept : kept[i].kind = k /\ kept[i].att = a
        BY DEF SaidIn
    <2>2. kept[i] = ms[1] /\ 1 \in DOMAIN ms
        BY <1>2, <2>1
    <2> QED
        BY <2>1, <2>2 DEF SaidIn
<1>3. CASE kept = Tail(ms)
    <2>1. ms # <<>>
        OBVIOUS
    <2> QED
        BY <1>3, <2>1, SaidInTail
<1> QED
    BY <1>1, <1>2, <1>3, SaidInEmpty

\* A Worker that sends says what it said, and its new messages.
LEMMA SendSaid ==
    ASSUME IndInv, NEW n \in Nodes, NEW ms \in Seq(UpMessageOn(n)), Len(ms) \in 1..2, Send(n, ms),
           NEW a, NEW k, Said(a, k)'
    PROVE Said(a, k) \/ SaidIn(ms, a, k)
<1>1. PICK m \in Nodes, f \in Sessions : SaidIn(up'[m][f], a, k)
    BY DEF Said, SaidIn
<1>2. CASE UNCHANGED up
    BY <1>1, <1>2 DEF Said
<1>3. CASE /\ wsess[n] # 0
           /\ \E kept \in Kept(ms) : up' = [up EXCEPT ![n][wsess[n]] = @ \o kept]
    <2>1. PICK kept \in Kept(ms) : up' = [up EXCEPT ![n][wsess[n]] = @ \o kept]
        BY <1>3
    <2>2. kept \in Seq(UpMessageOn(n))
        BY <2>1, KeptSeq
    <2> DEFINE e == wsess[n]
    <2>3. e \in Sessions
        BY <1>3 DEF IndInv, TypeOK, WorkerTypeOK
    <2>4. up[n][e] \in Seq(UpMessageOn(n))
        BY <2>3 DEF IndInv, Bookkeeping, MessagesNamed
    <2>5. CASE m = n /\ f = e
        <3>1. up'[m][f] = up[n][e] \o kept
            BY <2>1, <2>3, <2>5 DEF IndInv, TypeOK, NetTypeOK
        <3>2. SaidIn(up[n][e], a, k) \/ SaidIn(kept, a, k)
            BY <1>1, <2>2, <2>4, <3>1, SaidInConcat
        <3>3. SaidIn(kept, a, k) => SaidIn(ms, a, k)
            BY <2>1, SaidInKept
        <3> QED
            BY <2>3, <3>2, <3>3 DEF Said
    <2>6. CASE ~(m = n /\ f = e)
        <3>1. up'[m][f] = up[m][f]
            BY <1>1, <2>1, <2>3, <2>6 DEF IndInv, TypeOK, NetTypeOK
        <3> QED
            BY <1>1, <3>1 DEF Said
    <2> QED
        BY <2>5, <2>6
<1> QED
    BY <1>2, <1>3 DEF Send

\* Nothing is said that was not said before.
SaidLess == \A a \in Attempts : \A k \in StreamEvents : Said(a, k)' => Said(a, k)

LEMMA SaidFrame == UNCHANGED up => SaidLess
    BY DEF SaidLess, Said, SaidIn

\* A queue at the Manager loses its head, or all it holds.
QueuesShorter ==
    \A n \in Nodes, e \in Sessions :
        \/ up'[n][e] = up[n][e]
        \/ up'[n][e] = <<>>
        \/ up[n][e] # <<>> /\ up'[n][e] = Tail(up[n][e])

\* Then nothing new is said.
LEMMA SaidShorter == ASSUME IndInv, QueuesShorter PROVE SaidLess
<1> SUFFICES ASSUME NEW a \in Attempts, NEW k \in StreamEvents, Said(a, k)' PROVE Said(a, k)
    BY DEF SaidLess
<1>1. PICK n \in Nodes, e \in Sessions : SaidIn(up'[n][e], a, k)
    BY DEF Said, SaidIn
<1>2. up[n][e] \in Seq(UpMessageOn(n))
    BY DEF IndInv, Bookkeeping, MessagesNamed
<1>3. \/ up'[n][e] = up[n][e]
      \/ up'[n][e] = <<>>
      \/ up[n][e] # <<>> /\ up'[n][e] = Tail(up[n][e])
    BY DEF QueuesShorter
<1>4. SaidIn(up[n][e], a, k)
    BY <1>1, <1>2, <1>3, SaidInEmpty, SaidInTail
<1> QED
    BY <1>4 DEF Said

\* The reader drops the message it handled, or all messages when it stops.
LEMMA NextShorter ==
    ASSUME IndInv, NEW n \in Nodes, NEW e \in Sessions, up[n][e] # <<>>,
           up' = [up EXCEPT ![n][e] = Tail(@)]
    PROVE QueuesShorter
    BY DEF QueuesShorter, IndInv, TypeOK, NetTypeOK

LEMMA StopShorter ==
    ASSUME IndInv, NEW n \in Nodes, NEW e \in Sessions, up' = [up EXCEPT ![n][e] = <<>>]
    PROVE QueuesShorter
    BY DEF QueuesShorter, IndInv, TypeOK, NetTypeOK

\* No dispatch is under way that was not before, and none has moved.
DispatchesLess ==
    \A n \in Nodes, e \in Sessions, a \in Attempts : \A i \in DOMAIN down'[n][e] :
        ExecutesAt(down'[n][e], i, a) => ExecutesAt(down[n][e], i, a)

LEMMA DispatchesFrame == UNCHANGED down => DispatchesLess
    BY DEF DispatchesLess

\* A cancel is no dispatch.
LEMMA CancelsAreNone ==
    ASSUME IndInv, NEW atts \in SUBSET Attempts, SendCancels(atts)
    PROVE DispatchesLess
<1>1. PICK delivered \in SUBSET Nodes :
        down' = [n \in Nodes |-> [e \in Sessions |->
            LET here == {a \in atts : NodeOfAttempt(a) = n}
            IN  IF /\ here # {} /\ n \in delivered
                   /\ session[n] = e /\ conn[n][e] = "open"
                THEN Append(down[n][e], [kind |-> "cancel_task", atts |-> here])
                ELSE down[n][e]]]
    BY DEF SendCancels
<1> SUFFICES ASSUME NEW n \in Nodes, NEW e \in Sessions, NEW a \in Attempts,
                    NEW i \in DOMAIN down'[n][e], ExecutesAt(down'[n][e], i, a)
             PROVE  ExecutesAt(down[n][e], i, a)
    BY DEF DispatchesLess
<1> DEFINE here == {b \in atts : NodeOfAttempt(b) = n}
           m == [kind |-> "cancel_task", atts |-> here]
<1>2. down'[n][e] = down[n][e] \/ down'[n][e] = Append(down[n][e], m)
    BY <1>1 DEF here, m
<1>3. down[n][e] \in Seq(DownMessage) /\ m.kind = "cancel_task"
    BY DEF IndInv, TypeOK, NetTypeOK, m
<1> HIDE DEF m
<1>4. CASE down'[n][e] = Append(down[n][e], m)
    <2>1. i = Len(down[n][e]) + 1 => down'[n][e][i] = m
        BY <1>3, <1>4
    <2>2. i # Len(down[n][e]) + 1
        BY <1>3, <2>1 DEF ExecutesAt
    <2>3. i \in DOMAIN down[n][e] /\ down'[n][e][i] = down[n][e][i]
        BY <1>3, <1>4, <2>2
    <2> QED
        BY <2>3 DEF ExecutesAt
<1> QED
    BY <1>2, <1>4

-----------------------------------------------------------------------------
(* What a step leaves alone *)

\* No execution starts; those that are over stay so; none has its first output.
NoneStarts == \A a \in Attempts : exec[a].pc = "none" => exec'[a].pc = "none"

EndsKept == \A a \in Attempts : exec[a].pc = "done" => exec'[a].pc = "done"

FirstsKept ==
    \A a \in Attempts :
        /\ exec'[a].first = exec[a].first
        /\ exec'[a].pc \in {"none", "spawned", "active", "admitted"} =>
              exec[a].pc \in {"none", "spawned", "active", "admitted"}

ExecsKept == NoneStarts /\ EndsKept /\ FirstsKept

\* No request starts to dispatch.
DispatchersKept ==
    \A t \in Tasks : req'[t].pc = "dispatch" => req[t].pc = "dispatch" /\ req'[t].n = req[t].n

\* No attempt is made, and none moves to another slot.
SlotsKept ==
    \A a \in Attempts : (Exists(a)' <=> Exists(a)) /\ attempt'[a].slot = attempt[a].slot

\* Output is noted only where there was some; no failed slot is forgotten.
OutputsKept == \A a \in Attempts : attempt'[a].first => attempt[a].first \/ exec[a].first

NotesKept == \A a \in Attempts : Noted(a) => Noted(a)'

EventsLess ==
    \A a \in Attempts : \A i \in DOMAIN events'[a] :
        \E j \in DOMAIN events[a] : events'[a][i] = events[a][j]

PendingLess == \A n \in Nodes, e \in Sessions : pending'[n][e] \subseteq pending[n][e]

PushersKept ==
    \A n \in Nodes, e \in Sessions : reader'[n][e].pc = "push" =>
        reader[n][e].pc = "push" /\ Message(n, e)' = Message(n, e)

\* The parts of the invariant in steps that do not touch what they are about.
LEMMA DispatchedFrame ==
    ASSUME DispatchedOnce, DispatchesLess, NoneStarts, DispatchersKept, IndInv
    PROVE DispatchedOnce'
<1>1. ASSUME NEW n \in Nodes, NEW e \in Sessions, NEW a \in Attempts, NEW i \in DOMAIN down'[n][e],
             ExecutesAt(down'[n][e], i, a)
      PROVE  /\ exec'[a].pc = "none"
             /\ \A n2 \in Nodes, e2 \in Sessions : \A j \in DOMAIN down'[n2][e2] :
                    ExecutesAt(down'[n2][e2], j, a) => n2 = n /\ e2 = e /\ j = i
    <2>1. ExecutesAt(down[n][e], i, a)
        BY <1>1 DEF DispatchesLess
    <2>2. i \in DOMAIN down[n][e]
        BY <2>1 DEF ExecutesAt
    <2>3. exec[a].pc = "none"
        BY <2>1, <2>2 DEF DispatchedOnce
    <2>4. ASSUME NEW n2 \in Nodes, NEW e2 \in Sessions, NEW j \in DOMAIN down'[n2][e2],
                 ExecutesAt(down'[n2][e2], j, a)
          PROVE n2 = n /\ e2 = e /\ j = i
        <3>1. ExecutesAt(down[n2][e2], j, a)
            BY <2>4 DEF DispatchesLess
        <3>2. j \in DOMAIN down[n2][e2]
            BY <3>1 DEF ExecutesAt
        <3> QED
            BY <2>1, <2>2, <3>1, <3>2 DEF DispatchedOnce
    <2> QED
        BY <2>3, <2>4 DEF NoneStarts
<1>2. ASSUME NEW t \in Tasks, req'[t].pc = "dispatch"
      PROVE  /\ exec'[Current(t)'].pc = "none"
             /\ \A n \in Nodes, e \in Sessions : \A i \in DOMAIN down'[n][e] :
                   ~ExecutesAt(down'[n][e], i, Current(t)')
    <2>1. req[t].pc = "dispatch" /\ Current(t)' = Current(t)
        BY <1>2 DEF DispatchersKept, Current
    <2>2. Current(t) \in Attempts
        BY <2>1, CurrentAttempt
    <2>3. exec[Current(t)].pc = "none"
        BY <2>1 DEF DispatchedOnce
    <2>4. ASSUME NEW n \in Nodes, NEW e \in Sessions, NEW i \in DOMAIN down'[n][e],
                 ExecutesAt(down'[n][e], i, Current(t))
          PROVE FALSE
        <3>1. ExecutesAt(down[n][e], i, Current(t))
            BY <2>2, <2>4 DEF DispatchesLess
        <3>2. i \in DOMAIN down[n][e]
            BY <3>1 DEF ExecutesAt
        <3> QED
            BY <2>1, <3>1, <3>2 DEF DispatchedOnce
    <2> QED
        BY <2>1, <2>2, <2>3, <2>4 DEF NoneStarts
<1> QED
    BY <1>1, <1>2 DEF DispatchedOnce, ExecutesAt

LEMMA ReportedFrame ==
    ASSUME ReportedOnce, SaidLess, EndsKept, UNCHANGED <<reports, charged>>, IndInv
    PROVE ReportedOnce'
<1>1. Reports \subseteq StreamEvents /\ "report_completed" \in StreamEvents /\ reports \subseteq Attempts
    BY DEF StreamEvents, Reports, IndInv, TypeOK, DbTypeOK
<1>2. \A a \in Attempts : \A k \in Reports : Said(a, k)' => Said(a, k)
    BY <1>1 DEF SaidLess
<1>3. "report_completed" \in Reports
    BY DEF Reports
<1> QED
    BY <1>1, <1>2, <1>3 DEF ReportedOnce, EndsKept

LEMMA OutputFrame ==
    ASSUME OutputKnown, SaidLess, EndsKept, FirstsKept, OutputsKept
    PROVE OutputKnown'
<1>1. {"token", "failed_final", "failed_retry", "report_retry"} \subseteq StreamEvents
    BY DEF StreamEvents, Failures, Reports
<1>2. \A a \in Attempts : /\ Said(a, "token")' => Said(a, "token")
                          /\ Said(a, "failed_final")' => Said(a, "failed_final")
                          /\ Said(a, "failed_retry")' => Said(a, "failed_retry")
                          /\ Said(a, "report_retry")' => Said(a, "report_retry")
    BY <1>1 DEF SaidLess
<1> QED
    BY <1>2 DEF OutputKnown, EndsKept, FirstsKept, OutputsKept

\* Attempts that stay, and failed slots that are not forgotten, keep the notes.
LEMMA NotesFrame ==
    ASSUME SlotsKept, \A t \in Tasks : failedSlots[t] \subseteq failedSlots'[t]
    PROVE NotesKept
    BY DEF SlotsKept, NotesKept, Noted, Attempts, TaskOf

LEMMA RetriesFrame ==
    ASSUME RetriesNoted, SaidLess, NotesKept, UNCHANGED reports, IndInv
    PROVE RetriesNoted'
<1>1. "report_retry" \in StreamEvents /\ reports \subseteq Attempts
    BY DEF StreamEvents, Reports, IndInv, TypeOK, DbTypeOK
<1> QED
    BY <1>1 DEF RetriesNoted, SaidLess, NotesKept

\* What is true of an event stays true.
LEMMA TrueEventKept ==
    ASSUME NotesKept, charged \subseteq charged', NEW a \in Attempts, NEW k, TrueEvent(a, k)
    PROVE TrueEvent(a, k)'
    BY DEF TrueEvent, NotesKept

LEMMA ChannelsFrame ==
    ASSUME ChannelsTrue, EventsLess, NotesKept, charged \subseteq charged'
    PROVE ChannelsTrue'
<1> SUFFICES ASSUME NEW a \in Attempts, NEW i \in DOMAIN events'[a]
             PROVE TrueEvent(a, events[a][i])'
    BY DEF ChannelsTrue
<1>1. PICK j \in DOMAIN events[a] : events'[a][i] = events[a][j]
    BY DEF EventsLess
<1>2. TrueEvent(a, events[a][j])
    BY DEF ChannelsTrue
<1> QED
    BY <1>1, <1>2 DEF TrueEvent, NotesKept

LEMMA ClosersFrame ==
    ASSUME ClosersTrue, PendingLess, NotesKept, IndInv
    PROVE ClosersTrue'
<1>1. \A n \in Nodes, e \in Sessions : \A f \in pending[n][e] : f.att \in Attempts
    BY DEF IndInv, TypeOK, SessionTypeOK, FailureRecord
<1> QED
    BY <1>1 DEF ClosersTrue, PendingLess, NotesKept

LEMMA ReadersTrueFrame ==
    ASSUME ReadersTrue, PushersKept, NotesKept, reports \subseteq reports', IndInv
    PROVE ReadersTrue'
<1> SUFFICES ASSUME NEW n \in Nodes, NEW e \in Sessions, reader'[n][e].pc = "push"
             PROVE  (/\ Message(n, e).kind = "failed_retry" => Noted(Message(n, e).att)
                     /\ Message(n, e).kind \in Reports => Message(n, e).att \in reports)'
    BY DEF ReadersTrue
<1>1. reader[n][e].pc = "push" /\ Message(n, e)' = Message(n, e)
    BY DEF PushersKept
<1>2. up[n][e] # <<>> /\ Message(n, e).kind \in {"started"} \cup StreamEvents
    BY <1>1 DEF IndInv, Bookkeeping, ReadersHold
<1>3. PICK a \in Attempts : a = Message(n, e).att
    BY <1>2, AttemptMessageNamed
<1>4. (Message(n, e).kind = "failed_retry" => Noted(a)) /\ (Message(n, e).kind \in Reports => a \in reports)
    BY <1>1, <1>3 DEF ReadersTrue
<1>5. (Message(n, e).kind = "failed_retry" => Noted(a)') /\ (Message(n, e).kind \in Reports => a \in reports')
    BY <1>4 DEF NotesKept
<1>6. Message(n, e)'.kind = Message(n, e).kind /\ Message(n, e)'.att = a
    BY <1>1, <1>3
<1> HIDE DEF Message
<1> QED
    BY <1>5, <1>6 DEF Noted

\* A request that stays where it is keeps its part of the invariant.
LEMMA LoopFrame ==
    ASSUME NEW t \in Tasks, LoopOK(t), req'[t] = req[t], resp'[t] = resp[t],
           \A a \in Attempts : TaskOf(a) = t =>
               (Exists(a)' <=> Exists(a)) /\ attempt'[a].slot = attempt[a].slot,
           NotesKept, charged \subseteq charged'
    PROVE LoopOK(t)'
<1>1. Current(t)' = Current(t)
    BY DEF Current
<1>2. GivenUp(t)' = GivenUp(t)
    BY <1>1 DEF GivenUp
<1>3. \A a \in GivenUp(t) : a \in Attempts /\ attempt'[a].slot = attempt[a].slot
    BY DEF GivenUp
<1> QED
    BY <1>1, <1>2, <1>3 DEF LoopOK, NotesKept

LEMMA LoopsFrame ==
    ASSUME LoopKeepsOff, SlotsKept, NotesKept, charged \subseteq charged', UNCHANGED <<req, resp>>
    PROVE LoopKeepsOff'
    BY LoopFrame DEF LoopKeepsOff, SlotsKept

LEMMA ExcludeFrame ==
    ASSUME ExcludeFailedSlots, SlotsKept
    PROVE ExcludeFailedSlots'
    BY DEF ExcludeFailedSlots, SlotsKept, TaskOf

-----------------------------------------------------------------------------
(* Steps that say nothing new *)

\* Nothing that the invariant speaks of is begun.
LEMMA QuietHist ==
    ASSUME IndInv, History, SaidLess, DispatchesLess, ExecsKept, DispatchersKept, OutputsKept, SlotsKept,
           NotesKept, EventsLess, PendingLess, PushersKept, UNCHANGED <<reports, charged, req, resp>>
    PROVE History'
<1>1. DispatchedOnce' /\ ReportedOnce' /\ OutputKnown'
    BY DispatchedFrame, ReportedFrame, OutputFrame DEF History, ExecsKept
<1>2. charged \subseteq charged' /\ reports \subseteq reports'
    OBVIOUS
<1>3. RetriesNoted' /\ ChannelsTrue' /\ ClosersTrue' /\ ReadersTrue'
    BY <1>2, RetriesFrame, ChannelsFrame, ClosersFrame, ReadersTrueFrame DEF History, EventsTrue
<1>4. LoopKeepsOff' /\ ExcludeFailedSlots'
    BY <1>2, LoopsFrame, ExcludeFrame DEF History
<1> QED
    BY <1>1, <1>3, <1>4 DEF History, EventsTrue

\* What is the same is kept.
LEMMA ExecsFrame == UNCHANGED exec => ExecsKept
    BY DEF ExecsKept, NoneStarts, EndsKept, FirstsKept

LEMMA AttemptsFrame == UNCHANGED <<attempt, failedSlots>> => OutputsKept /\ SlotsKept /\ NotesKept
    BY DEF OutputsKept, SlotsKept, NotesKept, Noted, Exists

LEMMA EventsFrame == UNCHANGED events => EventsLess
    BY DEF EventsLess

LEMMA PendingFrame == UNCHANGED pending => PendingLess
    BY DEF PendingLess

LEMMA DispatchersFrame == UNCHANGED req => DispatchersKept
    BY DEF DispatchersKept

\* Readers that push keep their message while heads stay.
LEMMA PushersFrame ==
    ASSUME IndInv, HeadsKept, UNCHANGED reader
    PROVE PushersKept
<1> SUFFICES ASSUME NEW n \in Nodes, NEW e \in Sessions, reader'[n][e].pc = "push"
             PROVE  reader[n][e].pc = "push" /\ Message(n, e)' = Message(n, e)
    BY DEF PushersKept
<1>1. up[n][e] # <<>>
    BY DEF IndInv, Bookkeeping, ReadersHold
<1> QED
    BY <1>1 DEF HeadsKept, Message

\* A step of a session, of the operator or of a client that leaves requests,
\* attempts, executions and messages alone.
LEMMA AsideHist ==
    ASSUME IndInv, History, DispatchesLess, PendingLess, PushersKept,
           UNCHANGED <<attempt, failedSlots, reports, charged, events, req, resp, exec, up>>
    PROVE History'
    BY QuietHist, SaidFrame, ExecsFrame, AttemptsFrame, EventsFrame, DispatchersFrame

\* The operator and the clients.
LEMMA ClientGoneHist ==
    ASSUME IndInv, History, NEW t \in Tasks, ClientGone(t) PROVE History'
<1>1. UNCHANGED <<attempt, failedSlots, reports, charged, events, req, resp, exec, up, down, pending, reader>>
    BY DEF ClientGone, db, sessVars, netVars, workerVars
<1> QED
    BY <1>1, AsideHist, DispatchesFrame, PendingFrame, PushersFrame, HeadsFrame

LEMMA CancelJobHist ==
    ASSUME IndInv, History, NEW t \in Tasks, CancelJob(t) PROVE History'
<1>1. /\ UNCHANGED <<attempt, failedSlots, reports, charged, events, req, resp, exec, up, pending, reader>>
      /\ SendCancels(Running(t) \cup {})
    BY DEF CancelJob, CancelTask, sessVars, workerVars
<1>2. Running(t) \cup {} \in SUBSET Attempts
    BY DEF Running
<1> QED
    BY <1>1, <1>2, AsideHist, CancelsAreNone, PendingFrame, PushersFrame, HeadsFrame

LEMMA OperatorHist ==
    ASSUME IndInv, History, NEW s \in Slots, ClearQuarantine(s) PROVE History'
<1>1. UNCHANGED <<attempt, failedSlots, reports, charged, events, req, resp, exec, up, down, pending, reader>>
    BY DEF ClearQuarantine, sessVars, reqVars, netVars, workerVars
<1> QED
    BY <1>1, AsideHist, DispatchesFrame, PendingFrame, PushersFrame, HeadsFrame

\* Sessions that close, and the heartbeats.
LEMMA SessionHist ==
    ASSUME IndInv, History, NEW n \in Nodes, NEW e \in Sessions,
           CloseSession(n, e) \/ HandleHeartbeat(n, e) \/ MarkOffline(n)
    PROVE History'
<1>1. UNCHANGED <<attempt, failedSlots, reports, charged, events, req, resp, exec, up, down, pending, reader>>
    BY DEF CloseSession, HandleHeartbeat, MarkOffline, db, sessVars, reqVars, netVars, workerVars
<1> QED
    BY <1>1, AsideHist, DispatchesFrame, PendingFrame, PushersFrame, HeadsFrame

-----------------------------------------------------------------------------
(* Readers that do not push *)

\* The other readers and their queues stay.
OthersRead(n, e) ==
    \A m \in Nodes, f \in Sessions : (m # n \/ f # e) => reader'[m][f] = reader[m][f] /\ up'[m][f] = up[m][f]

LEMMA PushersOthers ==
    ASSUME NEW n \in Nodes, NEW e \in Sessions, OthersRead(n, e), reader'[n][e].pc # "push"
    PROVE PushersKept
    BY DEF OthersRead, PushersKept, Message

\* The reader of one session moves; its queue stays, or loses its head.
LEMMA ReaderHolds ==
    ASSUME IndInv, NEW n \in Nodes, NEW e \in Sessions, NEW r, reader' = [reader EXCEPT ![n][e] = r],
           UNCHANGED up
    PROVE OthersRead(n, e) /\ reader'[n][e] = r
    BY DEF OthersRead, IndInv, TypeOK, SessionTypeOK

LEMMA ReaderDrops ==
    ASSUME IndInv, NEW n \in Nodes, NEW e \in Sessions, NextMessage(n, e)
    PROVE OthersRead(n, e) /\ reader'[n][e].pc = "idle"
<1>1. /\ reader' = [reader EXCEPT ![n][e].pc = "idle"]
      /\ up' = [up EXCEPT ![n][e] = Tail(@)]
    BY DEF NextMessage, ReaderAt
<1>2. reader \in [Nodes -> [Sessions -> ReaderRecord]] /\ up \in [Nodes -> [Sessions -> Seq(UpMessage)]]
    BY DEF IndInv, TypeOK, SessionTypeOK, NetTypeOK
<1>3. reader'[n][e].pc = "idle"
    BY <1>1, <1>2 DEF ReaderRecord
<1> QED
    BY <1>1, <1>2, <1>3 DEF OthersRead

\* What follows the greeting, and the slot states.
LEMMA GreetedHist ==
    ASSUME IndInv, History, NEW n \in Nodes, NEW e \in Sessions,
           UpsertWorkerState(n, e) \/ SwapSession(n, e) \/ JoinClose(n, e) \/ HandleSlotState(n, e)
    PROVE History'
<1>1. UNCHANGED <<attempt, failedSlots, reports, charged, events, req, resp, exec, up, down, pending>>
    BY DEF UpsertWorkerState, SwapSession, JoinClose, HandleSlotState, db, reqVars, netVars, workerVars
<1>2. PICK r : reader' = [reader EXCEPT ![n][e] = r] /\ r.pc # "push"
    <2>1. CASE UpsertWorkerState(n, e)
        <3> DEFINE r == [reader[n][e] EXCEPT !.pc = "swap"]
        <3>1. reader' = [reader EXCEPT ![n][e] = r]
            BY <2>1 DEF UpsertWorkerState, ReaderAt
        <3>2. r.pc = "swap"
            BY DEF IndInv, TypeOK, SessionTypeOK, ReaderRecord
        <3> QED
            BY <3>1, <3>2
    <2>2. CASE SwapSession(n, e)
        <3> DEFINE r == [pc |-> IF session[n] \in {0, e} THEN "replan" ELSE "join",
                         old |-> IF session[n] = e THEN 0 ELSE session[n]]
        <3>1. reader' = [reader EXCEPT ![n][e] = r]
            BY <2>2 DEF SwapSession
        <3>2. r.pc # "push"
            OBVIOUS
        <3> QED
            BY <3>1, <3>2
    <2>3. CASE JoinClose(n, e)
        <3> DEFINE r == [pc |-> "replan", old |-> 0]
        <3>1. reader' = [reader EXCEPT ![n][e] = r]
            BY <2>3 DEF JoinClose
        <3>2. r.pc # "push"
            OBVIOUS
        <3> HIDE DEF r
        <3> QED
            BY <3>1, <3>2
    <2>4. CASE HandleSlotState(n, e)
        <3> DEFINE r == [reader[n][e] EXCEPT !.pc = "replan"]
        <3>1. reader' = [reader EXCEPT ![n][e] = r]
            BY <2>4 DEF HandleSlotState, ReaderAt
        <3>2. r.pc = "replan"
            BY DEF IndInv, TypeOK, SessionTypeOK, ReaderRecord
        <3> QED
            BY <3>1, <3>2
    <2> QED
        BY <2>1, <2>2, <2>3, <2>4
<1>3. PushersKept
    BY <1>1, <1>2, ReaderHolds, PushersOthers
<1> QED
    BY <1>1, <1>3, AsideHist, DispatchesFrame, PendingFrame

\* A Worker that dials.
LEMMA ConnectHist ==
    ASSUME IndInv, History, NEW n \in Nodes, Connect(n) PROVE History'
<1>1. UNCHANGED <<attempt, failedSlots, reports, charged, events, req, resp, exec, up, down, pending>>
    BY DEF Connect, db, reqVars, netVars
<1>2. PICK e \in Sessions : reader' = [reader EXCEPT ![n][e] = [pc |-> "idle", old |-> 0]]
    BY DEF Connect
<1>3. PushersKept
    <2> DEFINE r == [pc |-> "idle", old |-> 0]
    <2>1. reader' = [reader EXCEPT ![n][e] = r] /\ r.pc # "push"
        BY <1>2
    <2> HIDE DEF r
    <2> QED
        BY <1>1, <2>1, ReaderHolds, PushersOthers
<1> QED
    BY <1>1, <1>3, AsideHist, DispatchesFrame, PendingFrame

\* A Worker that hangs up loses what was sent to it.
LEMMA DisconnectHist ==
    ASSUME IndInv, History, NEW n \in Nodes, Disconnect(n) PROVE History'
<1>1. /\ UNCHANGED <<attempt, failedSlots, reports, charged, events, req, resp, exec, up, pending, reader>>
      /\ wsess[n] # 0 /\ down' = [down EXCEPT ![n][wsess[n]] = <<>>]
    BY DEF Disconnect, db, sessVars, reqVars
<1>2. wsess[n] \in Sessions /\ down \in [Nodes -> [Sessions -> Seq(DownMessage)]]
    BY <1>1 DEF IndInv, TypeOK, WorkerTypeOK, NetTypeOK
<1>3. \A m \in Nodes, f \in Sessions : down'[m][f] = down[m][f] \/ down'[m][f] = <<>>
    BY <1>1, <1>2
<1>4. DispatchesLess
    BY <1>3 DEF DispatchesLess, ExecutesAt
<1> QED
    BY <1>1, <1>4, AsideHist, PendingFrame, PushersFrame, HeadsFrame

\* A reader that drops messages: the first one, or all when it stops.
LEMMA DropHist ==
    ASSUME IndInv, History, QueuesShorter, PushersKept,
           UNCHANGED <<attempt, failedSlots, reports, charged, events, req, resp, exec, down, pending>>
    PROVE History'
    BY QuietHist, SaidShorter, ExecsFrame, AttemptsFrame, EventsFrame, DispatchersFrame,
       DispatchesFrame, PendingFrame

LEMMA RefuseUnregisteredHist ==
    ASSUME IndInv, History, NEW n \in Nodes, NEW e \in Sessions, RefuseUnregistered(n, e) PROVE History'
<1>1. /\ UNCHANGED <<attempt, failedSlots, reports, charged, events, req, resp, exec, down, pending, reader>>
      /\ reader[n][e].pc = "idle" /\ up[n][e] # <<>> /\ up' = [up EXCEPT ![n][e] = Tail(@)]
    BY DEF RefuseUnregistered, db, sessVars, reqVars, workerVars
<1>2. OthersRead(n, e)
    BY <1>1 DEF OthersRead, IndInv, TypeOK, NetTypeOK
<1> QED
    BY <1>1, <1>2, PushersOthers, NextShorter, DropHist

LEMMA ReplanHist ==
    ASSUME IndInv, History, NEW n \in Nodes, NEW e \in Sessions, Replan(n, e) PROVE History'
<1>1. /\ UNCHANGED <<attempt, failedSlots, reports, charged, events, req, resp, exec, down, pending>>
      /\ reader[n][e].pc = "replan" /\ NextMessage(n, e)
    BY DEF Replan, reqVars, workerVars
<1>2. up[n][e] # <<>> /\ up' = [up EXCEPT ![n][e] = Tail(@)]
    BY <1>1 DEF NextMessage, IndInv, Bookkeeping, ReadersHold
<1> QED
    BY <1>1, <1>2, ReaderDrops, PushersOthers, NextShorter, DropHist

LEMMA ReaderStopHist ==
    ASSUME IndInv, History, NEW n \in Nodes, NEW e \in Sessions, ReaderStop(n, e) PROVE History'
<1>1. /\ UNCHANGED <<attempt, failedSlots, reports, charged, events, req, resp, exec, down, pending>>
      /\ reader' = [reader EXCEPT ![n][e].pc = "off"] /\ up' = [up EXCEPT ![n][e] = <<>>]
    BY DEF ReaderStop, db, reqVars, workerVars
<1>2. reader \in [Nodes -> [Sessions -> ReaderRecord]] /\ up \in [Nodes -> [Sessions -> Seq(UpMessage)]]
    BY DEF IndInv, TypeOK, SessionTypeOK, NetTypeOK
<1>3. reader'[n][e].pc = "off"
    BY <1>1, <1>2 DEF ReaderRecord
<1>4. OthersRead(n, e)
    BY <1>1, <1>2 DEF OthersRead
<1> QED
    BY <1>1, <1>3, <1>4, PushersOthers, StopShorter, DropHist

\* handleWorkerAttemptStarted: the attempt exists and stays on its slot.
LEMMA HandleAttemptStartedHist ==
    ASSUME IndInv, History, NEW n \in Nodes, NEW e \in Sessions, HandleAttemptStarted(n, e) PROVE History'
<1>1. /\ UNCHANGED <<failedSlots, reports, charged, events, req, resp, exec, down, pending>>
      /\ up[n][e] # <<>> /\ Message(n, e).kind = "started" /\ NextMessage(n, e)
      /\ attempt' = [attempt EXCEPT ![Message(n, e).att].status = "running"]
    BY DEF HandleAttemptStarted, Receives, reqVars, workerVars
<1>2. PICK a \in Attempts : a = Message(n, e).att /\ Exists(a)
    BY <1>1, AttemptMessageNamed
<1>3. attempt \in [Attempts -> AttemptRecord] /\ attempt' = [attempt EXCEPT ![a].status = "running"]
    BY <1>1, <1>2 DEF IndInv, TypeOK, DbTypeOK
<1>4. \A b \in Attempts : /\ attempt'[b].slot = attempt[b].slot /\ attempt'[b].first = attempt[b].first
                          /\ b # a => attempt'[b] = attempt[b]
                          /\ attempt'[a].status = "running"
    BY <1>3 DEF AttemptRecord
<1>5. SlotsKept /\ OutputsKept
    BY <1>2, <1>4 DEF SlotsKept, OutputsKept, Exists
<1>6. NotesKept
    BY <1>1, <1>5, NotesFrame
<1>7. up' = [up EXCEPT ![n][e] = Tail(@)]
    BY <1>1 DEF NextMessage
<1>8. PushersKept /\ SaidLess
    BY <1>1, <1>7, ReaderDrops, PushersOthers, NextShorter, SaidShorter
<1> QED
    BY <1>1, <1>5, <1>6, <1>8, QuietHist, ExecsFrame, EventsFrame, DispatchersFrame, DispatchesFrame,
       PendingFrame

-----------------------------------------------------------------------------
(* Workers *)

\* A Worker step that ends no execution and has nothing to say of one.
LEMMA WorkHist ==
    ASSUME IndInv, History, SaidLess, HeadsKept, ExecsKept, UNCHANGED <<db, sessVars, reqVars, down>>
    PROVE History'
<1>1. UNCHANGED <<attempt, failedSlots, reports, charged, events, req, resp, pending, reader>>
    BY DEF db, sessVars, reqVars
<1> QED
    BY <1>1, QuietHist, AttemptsFrame, EventsFrame, DispatchersFrame, DispatchesFrame, PendingFrame,
       PushersFrame

\* What a Worker sends leaves the heads of the queues, and says something of an
\* attempt only with a stream event.
LEMMA SendHeads ==
    ASSUME IndInv, NEW n \in Nodes, NEW ms \in Seq(UpMessageOn(n)), Len(ms) \in 1..2, Send(n, ms),
           UNCHANGED <<db, down>>
    PROVE HeadsKept
    BY SendInv DEF IndInv, TypeOK, Bookkeeping, db

LEMMA SilentSend ==
    ASSUME IndInv, NEW n \in Nodes, NEW ms \in Seq(UpMessageOn(n)), Len(ms) \in 1..2, Send(n, ms),
           \A i \in DOMAIN ms : ms[i].kind \notin StreamEvents
    PROVE SaidLess
<1> SUFFICES ASSUME NEW a \in Attempts, NEW k \in StreamEvents, Said(a, k)' PROVE Said(a, k)
    BY DEF SaidLess
<1>1. ~SaidIn(ms, a, k)
    BY DEF SaidIn
<1> QED
    BY <1>1, SendSaid

\* One execution changes its record.
LEMMA ExecRecordKept ==
    ASSUME IndInv, NEW a \in Attempts, NEW r, exec' = [exec EXCEPT ![a] = r], r.first = exec[a].first,
           exec[a].pc = "none" => r.pc = "none", exec[a].pc = "done" => r.pc = "done",
           r.pc \in {"none", "spawned", "active", "admitted"} =>
              exec[a].pc \in {"none", "spawned", "active", "admitted"}
    PROVE ExecsKept
    BY DEF ExecsKept, NoneStarts, EndsKept, FirstsKept, IndInv, TypeOK, WorkerTypeOK

\* registerActiveAttempt, an admission that passes and a runtime error.
LEMMA QuietExecHist ==
    ASSUME IndInv, History, NEW a \in Attempts, Register(a) \/ Admit(a) \/ RuntimeError(a) PROVE History'
<1>1. UNCHANGED <<db, sessVars, reqVars, down, up>>
    BY DEF Register, Admit, RuntimeError, netVars
<1>2. exec[a] \in ExecRecord
    BY DEF IndInv, TypeOK, WorkerTypeOK
<1>3. PICK r : /\ exec' = [exec EXCEPT ![a] = r] /\ r.first = exec[a].first
               /\ exec[a].pc \in {"spawned", "active", "serving"}
               /\ r.pc \in {"active", "admitted", "failing"}
               /\ r.pc \in {"active", "admitted"} => exec[a].pc \in {"spawned", "active"}
    <2>1. CASE Register(a)
        <3> DEFINE r == [exec[a] EXCEPT !.pc = "active"]
        <3>1. exec' = [exec EXCEPT ![a] = r] /\ exec[a].pc = "spawned"
            BY <2>1 DEF Register, ExecAt
        <3>2. r.pc = "active" /\ r.first = exec[a].first
            BY <1>2 DEF ExecRecord
        <3> HIDE DEF r
        <3> QED
            BY <3>1, <3>2
    <2>2. CASE Admit(a)
        <3> DEFINE r == [exec[a] EXCEPT !.pc = "admitted"]
        <3>1. exec' = [exec EXCEPT ![a] = r] /\ exec[a].pc = "active"
            BY <2>2 DEF Admit, ExecAt
        <3>2. r.pc = "admitted" /\ r.first = exec[a].first
            BY <1>2 DEF ExecRecord
        <3> HIDE DEF r
        <3> QED
            BY <3>1, <3>2
    <2>3. CASE RuntimeError(a)
        <3> DEFINE r == [exec[a] EXCEPT !.pc = "failing", !.recovery = "pending"]
        <3>1. exec' = [exec EXCEPT ![a] = r] /\ exec[a].pc = "serving"
            BY <2>3 DEF RuntimeError
        <3>2. r.pc = "failing" /\ r.first = exec[a].first
            BY <1>2 DEF ExecRecord
        <3> HIDE DEF r
        <3> QED
            BY <3>1, <3>2
    <2> QED
        BY <2>1, <2>2, <2>3
<1>4. ExecsKept
    BY <1>3, ExecRecordKept
<1> QED
    BY <1>1, <1>4, WorkHist, SaidFrame, HeadsFrame

\* setSlotServing and attempt_started: no stream event.
LEMMA ServeHist ==
    ASSUME IndInv, History, NEW a \in Attempts, Serve(a) PROVE History'
<1> DEFINE s == attempt[a].slot
           n == NodeOf[s]
           w == [state |-> "serving", active |-> TaskOf(a), profile |-> ProfileOf[TaskOf(a)]]
           ms == <<SlotMsg(s, w), AttemptMsg("started", a, "none")>>
           r == [exec[a] EXCEPT !.pc = "serving"]
<1>1. /\ exec[a].pc = "admitted" /\ exec' = [exec EXCEPT ![a] = r] /\ Send(n, ms)
      /\ UNCHANGED <<db, sessVars, reqVars, down>>
    BY DEF Serve, ExecAt
<1>2. /\ s \in Slots /\ n \in Nodes /\ a \in AttemptsOn(n)
      /\ TaskOf(a) \in Tasks /\ ProfileOf[TaskOf(a)] \in Profiles
    BY <1>1, ExecutedAttempt
<1>3. w \in WorkerSlot
    BY <1>2 DEF WorkerSlot, SlotState
<1> HIDE DEF w
<1>4. SlotMsg(s, w) \in UpMessageOn(n) /\ AttemptMsg("started", a, "none") \in UpMessageOn(n)
    BY <1>2, <1>3, SlotMsgType, AttemptMsgType
<1>5. ms \in Seq(UpMessageOn(n)) /\ Len(ms) \in 1..2
    BY <1>4, TwoMessages
<1>6. \A i \in DOMAIN ms : ms[i].kind \notin StreamEvents
    BY DEF SlotMsg, AttemptMsg, StreamEvents, Failures, Reports
<1>7. r.pc = "serving" /\ r.first = exec[a].first
    BY DEF IndInv, TypeOK, WorkerTypeOK, ExecRecord
<1> HIDE DEF r, ms, n
<1>8. ExecsKept
    BY <1>1, <1>7, ExecRecordKept
<1>9. SaidLess /\ HeadsKept
    BY <1>1, <1>2, <1>5, <1>6, SilentSend, SendHeads
<1> QED
    BY <1>1, <1>8, <1>9, WorkHist

\* A slot that changes its state: recovery, restart and assignment.
LEMMA SlotBecomesHist ==
    ASSUME IndInv, History, ExecsKept, NEW s \in Slots, NEW state \in SlotState, NEW p \in Profiles,
           SlotBecomes(s, state, p), UNCHANGED <<db, sessVars, reqVars, down>>
    PROVE History'
<1> DEFINE n == NodeOf[s]
           w == [state |-> state, active |-> NoTask, profile |-> p]
           ms == <<SlotMsg(s, w)>>
<1>1. Send(n, ms)
    BY DEF SlotBecomes
<1>2. w \in WorkerSlot
    BY DEF WorkerSlot
<1> HIDE DEF w
<1>3. n \in Nodes /\ ms \in Seq(UpMessageOn(n)) /\ Len(ms) \in 1..2
    BY <1>2, SlotMsgType, OneMessage, ConstantsAssumption
<1>4. \A i \in DOMAIN ms : ms[i].kind \notin StreamEvents
    BY DEF SlotMsg, StreamEvents, Failures, Reports
<1> HIDE DEF ms, n
<1> QED
    BY <1>1, <1>3, <1>4, SilentSend, SendHeads, WorkHist

LEMMA RecoverHist ==
    ASSUME IndInv, History, NEW a \in Attempts, Recover(a) \/ Restarted(a) PROVE History'
<1>1. /\ exec[a].recovery # "off" /\ UNCHANGED <<db, sessVars, reqVars, down>>
      /\ \E state \in {"ready", "error", "warming"} : SlotBecomes(attempt[a].slot, state, ProfileOf[TaskOf(a)])
    BY DEF Recover, Restarted
<1>2. attempt[a].slot \in Slots /\ ProfileOf[TaskOf(a)] \in Profiles
    BY <1>1, ExecutedAttempt
<1>3. \E x : exec' = [exec EXCEPT ![a].recovery = x]
    BY DEF Recover, Restarted
<1>4. ExecsKept
    BY <1>3 DEF ExecsKept, NoneStarts, EndsKept, FirstsKept, IndInv, TypeOK, WorkerTypeOK, ExecRecord
<1>5. {"ready", "error", "warming"} \subseteq SlotState
    BY DEF SlotState
<1> QED
    BY <1>1, <1>2, <1>4, <1>5, SlotBecomesHist

LEMMA AssignHist ==
    ASSUME IndInv, History, NEW s \in Slots, Assign(s) \/ Assigned(s) PROVE History'
<1>1. UNCHANGED <<db, sessVars, reqVars, down, exec>>
    BY DEF Assign, Assigned
<1>2. loading[s] \in LoadRecord
    BY DEF IndInv, TypeOK, WorkerTypeOK
<1>3. \E p \in Profiles, state \in {"ready", "error", "warming"} : SlotBecomes(s, state, p)
    BY <1>2 DEF Assign, Assigned, LoadRecord
<1>4. {"ready", "error", "warming"} \subseteq SlotState
    BY DEF SlotState
<1> QED
    BY <1>1, <1>3, <1>4, ExecsFrame, SlotBecomesHist

\* hello and full_state.
LEMMA GreetHist ==
    ASSUME IndInv, History, NEW n \in Nodes, Greet(n) PROVE History'
<1> DEFINE m == [kind |-> "full_state",
                 slots |-> [s \in Slots |-> IF NodeOf[s] = n THEN wslot[s] ELSE HomeSlot(s)]]
           ms == <<m>>
<1>1. Send(n, ms) /\ UNCHANGED <<db, sessVars, reqVars, down, exec>>
    BY DEF Greet
<1>2. m \in UpMessageOn(n)
    <2>1. \A s \in Slots : HomeSlot(s) \in WorkerSlot
        BY ConstantsAssumption DEF HomeSlot, WorkerSlot, SlotState
    <2>2. m \in StateMessage
        BY <2>1 DEF IndInv, TypeOK, WorkerTypeOK, StateMessage
    <2> QED
        BY <2>2 DEF UpMessageOn
<1>3. m.kind \notin StreamEvents
    BY DEF StreamEvents, Failures, Reports
<1> HIDE DEF m
<1>4. ms \in Seq(UpMessageOn(n)) /\ Len(ms) \in 1..2 /\ \A i \in DOMAIN ms : ms[i].kind \notin StreamEvents
    BY <1>2, <1>3, OneMessage
<1> HIDE DEF ms
<1> QED
    BY <1>1, <1>4, SilentSend, SendHeads, WorkHist, ExecsFrame

\* The parts of the invariant that a Worker's word does not reach.
LEMMA WordHist ==
    ASSUME IndInv, History, HeadsKept, UNCHANGED <<db, sessVars, reqVars>>
    PROVE ChannelsTrue' /\ ClosersTrue' /\ ReadersTrue' /\ LoopKeepsOff' /\ ExcludeFailedSlots'
<1>1. UNCHANGED <<attempt, failedSlots, reports, charged, events, req, resp, pending, reader>>
    BY DEF db, sessVars, reqVars
<1>2. charged \subseteq charged' /\ reports \subseteq reports'
    BY <1>1
<1> QED
    BY <1>1, <1>2, AttemptsFrame, EventsFrame, PendingFrame, PushersFrame, ChannelsFrame, ClosersFrame,
       ReadersTrueFrame, LoopsFrame, ExcludeFrame DEF History, EventsTrue

\* Nothing is said but what was, and messages of the kinds K about attempt a.
SaysOf(a, K) ==
    \A b \in Attempts : \A k \in StreamEvents : Said(b, k)' => Said(b, k) \/ (b = a /\ k \in K)

\* An execution ends with one report, which knows whether there was output.
LEMMA EndHist ==
    ASSUME IndInv, History, HeadsKept, UNCHANGED <<db, sessVars, reqVars, down>>,
           NEW a \in Attempts, exec[a].pc \notin {"none", "done"}, ExecAt(a, "done"),
           NEW K, SaysOf(a, K), NEW rep \in Reports, K \cap Reports \subseteq {rep}, "token" \notin K,
           "failed_final" \in K => exec[a].first,
           "failed_retry" \in K \/ "report_retry" \in K => ~exec[a].first
    PROVE History'
<1>1. UNCHANGED <<attempt, failedSlots, reports, charged, events, req, resp>>
    BY DEF db, sessVars, reqVars
<1>2. /\ exec'[a].pc = "done" /\ exec'[a].first = exec[a].first
      /\ \A b \in Attempts : b # a => exec'[b] = exec[b]
    BY DEF ExecAt, IndInv, TypeOK, WorkerTypeOK, ExecRecord
<1>3. /\ Reports \subseteq StreamEvents /\ reports \subseteq Attempts
      /\ {"token", "failed_final", "failed_retry"} \subseteq StreamEvents
      /\ {"report_retry", "report_completed"} \subseteq Reports
    BY DEF StreamEvents, Failures, Reports, IndInv, TypeOK, DbTypeOK
<1>4. DispatchedOnce'
    <2>1. NoneStarts
        BY <1>2 DEF NoneStarts
    <2> QED
        BY <1>1, <2>1, DispatchedFrame, DispatchesFrame, DispatchersFrame DEF History
<1>5. a \notin reports /\ \A k \in Reports : ~Said(a, k)
    BY DEF History, ReportedOnce
<1>6. \A b \in Attempts : \A k \in Reports : Said(b, k)' => Said(b, k) \/ (b = a /\ k = rep)
    BY <1>3 DEF SaysOf
<1>7. ReportedOnce'
    <2>1. \A b \in Attempts : \A k \in Reports : Said(b, k)' => exec'[b].pc = "done"
        BY <1>2, <1>6 DEF History, ReportedOnce
    <2>2. \A b \in reports' : exec'[b].pc = "done"
        BY <1>1, <1>2, <1>3 DEF History, ReportedOnce
    <2>3. \A b \in Attempts : \A k, l \in Reports : Said(b, k)' /\ Said(b, l)' => k = l
        BY <1>5, <1>6 DEF History, ReportedOnce
    <2>4. \A b \in reports' : Said(b, "report_completed")' => b \in charged'
        BY <1>1, <1>3, <1>5, <1>6 DEF History, ReportedOnce
    <2>5. charged' \subseteq reports'
        BY <1>1 DEF History, ReportedOnce
    <2> QED
        BY <2>1, <2>2, <2>3, <2>4, <2>5 DEF ReportedOnce
<1>8. OutputKnown'
    <2> SUFFICES ASSUME NEW b \in Attempts
                 PROVE  /\ attempt'[b].first => exec'[b].first
                        /\ Said(b, "token")' \/ Said(b, "failed_final")' => exec'[b].first
                        /\ Said(b, "failed_retry")' \/ Said(b, "report_retry")' =>
                              exec'[b].pc = "done" /\ ~exec'[b].first
                        /\ exec'[b].pc \in {"none", "spawned", "active", "admitted"} => ~exec'[b].first
        BY DEF OutputKnown
    <2>1. /\ attempt[b].first => exec[b].first
          /\ Said(b, "token") \/ Said(b, "failed_final") => exec[b].first
          /\ Said(b, "failed_retry") \/ Said(b, "report_retry") => exec[b].pc = "done" /\ ~exec[b].first
          /\ exec[b].pc \in {"none", "spawned", "active", "admitted"} => ~exec[b].first
        BY DEF History, OutputKnown
    <2>2. /\ Said(b, "token")' => Said(b, "token")
          /\ Said(b, "failed_final")' => Said(b, "failed_final") \/ (b = a /\ exec[a].first)
          /\ Said(b, "failed_retry")' => Said(b, "failed_retry") \/ (b = a /\ ~exec[a].first)
          /\ Said(b, "report_retry")' => Said(b, "report_retry") \/ (b = a /\ ~exec[a].first)
        BY <1>3 DEF SaysOf
    <2> QED
        BY <1>1, <1>2, <2>1, <2>2
<1>9. RetriesNoted'
    <2>1. \A b \in reports : Said(b, "report_retry")' => Said(b, "report_retry")
        BY <1>3, <1>5, <1>6
    <2> QED
        BY <1>1, <1>3, <2>1, AttemptsFrame DEF History, EventsTrue, RetriesNoted, NotesKept
<1> QED
    BY <1>4, <1>7, <1>8, <1>9, WordHist DEF History, EventsTrue

\* The messages of an execution are about its attempt.
LEMMA SendSays ==
    ASSUME IndInv, NEW n \in Nodes, NEW ms \in Seq(UpMessageOn(n)), Len(ms) \in 1..2, Send(n, ms),
           NEW a, NEW K, \A i \in DOMAIN ms : ms[i].kind \in StreamEvents => ms[i].att = a /\ ms[i].kind \in K
    PROVE SaysOf(a, K)
<1> SUFFICES ASSUME NEW b \in Attempts, NEW k \in StreamEvents, Said(b, k)', SaidIn(ms, b, k)
             PROVE b = a /\ k \in K
    BY SendSaid DEF SaysOf
<1> QED
    BY DEF SaidIn

\* failExecution before anything was said.
LEMMA RejectHist ==
    ASSUME IndInv, History, NEW a \in Attempts, Reject(a) PROVE History'
<1> DEFINE n == NodeOfAttempt(a)
<1>1. PICK reason \in {"admission_check_failed", "artifact_digest_mismatch"} :
        Send(n, <<AttemptMsg("failed_retry", a, reason), AttemptMsg("report_retry", a, reason)>>)
    BY DEF Reject
<1>2. exec[a].pc = "active" /\ ExecAt(a, "done") /\ UNCHANGED <<db, sessVars, reqVars, down>>
    BY DEF Reject
<1>3. n \in Nodes /\ a \in AttemptsOn(n)
    BY <1>2, ExecutedAttempt
<1> DEFINE ms == <<AttemptMsg("failed_retry", a, reason), AttemptMsg("report_retry", a, reason)>>
           K == {"failed_retry", "report_retry"}
<1>4. ms \in Seq(UpMessageOn(n)) /\ Len(ms) \in 1..2
    <2>1. reason \in Reasons \cup {"none"} /\ K \subseteq {"started"} \cup StreamEvents
        BY DEF Reasons, StreamEvents, Failures, Reports
    <2>2. /\ AttemptMsg("failed_retry", a, reason) \in UpMessageOn(n)
          /\ AttemptMsg("report_retry", a, reason) \in UpMessageOn(n)
        BY <1>3, <2>1, AttemptMsgType
    <2> QED
        BY <2>2, TwoMessages
<1>5. \A i \in DOMAIN ms : ms[i].att = a /\ ms[i].kind \in K
    BY DEF AttemptMsg
<1>6. ~exec[a].first
    BY <1>2 DEF History, OutputKnown
<1>7. Send(n, ms)
    BY <1>1
<1> HIDE DEF ms, n
<1>8. SaysOf(a, K) /\ HeadsKept
    BY <1>2, <1>3, <1>4, <1>5, <1>7, SendSays, SendHeads
<1>9. "report_retry" \in Reports /\ K \cap Reports \subseteq {"report_retry"} /\ "token" \notin K
    BY DEF Reports
<1> HIDE DEF K
<1>10. "failed_final" \notin K
    BY DEF K
<1> QED
    BY <1>2, <1>6, <1>8, <1>9, <1>10, EndHist

\* The runtime finishes.
LEMMA CompleteHist ==
    ASSUME IndInv, History, NEW a \in Attempts, Complete(a) PROVE History'
<1> DEFINE s == attempt[a].slot
           n == NodeOf[s]
           w == [state |-> "ready", active |-> NoTask, profile |-> ProfileOf[TaskOf(a)]]
           ms == <<SlotMsg(s, w), AttemptMsg("report_completed", a, "none")>>
           K == {"report_completed"}
<1>1. /\ exec[a].pc = "serving" /\ ExecAt(a, "done") /\ Send(n, ms)
      /\ UNCHANGED <<db, sessVars, reqVars, down>>
    BY DEF Complete
<1>2. s \in Slots /\ n \in Nodes /\ a \in AttemptsOn(n) /\ ProfileOf[TaskOf(a)] \in Profiles
    BY <1>1, ExecutedAttempt
<1>3. w \in WorkerSlot
    BY <1>2 DEF WorkerSlot, SlotState
<1> HIDE DEF w
<1>4. SlotMsg(s, w) \in UpMessageOn(n) /\ AttemptMsg("report_completed", a, "none") \in UpMessageOn(n)
    BY <1>2, <1>3, SlotMsgType, AttemptMsgType DEF StreamEvents, Reports
<1>5. ms \in Seq(UpMessageOn(n)) /\ Len(ms) \in 1..2
    BY <1>4, TwoMessages
<1>6. \A i \in DOMAIN ms : ms[i].kind \in StreamEvents => ms[i].att = a /\ ms[i].kind \in K
    BY DEF AttemptMsg, SlotMsg, StreamEvents, Failures, Reports
<1> HIDE DEF ms, n
<1>7. SaysOf(a, K) /\ HeadsKept
    BY <1>1, <1>2, <1>5, <1>6, SendSays, SendHeads
<1>8. "report_completed" \in Reports /\ K \cap Reports \subseteq {"report_completed"}
    BY DEF Reports
<1>9. K \cap {"token", "failed_final", "failed_retry", "report_retry"} = {}
    OBVIOUS
<1> HIDE DEF K
<1> QED
    BY <1>1, <1>7, <1>8, <1>9, EndHist

\* A runtime that failed or was cancelled.
LEMMA ReportErrorHist ==
    ASSUME IndInv, History, NEW a \in Attempts, ReportError(a) PROVE History'
<1> DEFINE n == NodeOfAttempt(a)
<1>1. exec[a].pc = "failing" /\ ExecAt(a, "done") /\ UNCHANGED <<db, sessVars, reqVars, down>>
    BY DEF ReportError
<1>2. n \in Nodes /\ a \in AttemptsOn(n)
    BY <1>1, ExecutedAttempt
<1>3. ASSUME NEW k \in Failures \cup Reports, NEW reason \in {"runtime_error", "none"}
      PROVE AttemptMsg(k, a, reason) \in UpMessageOn(n)
    <2>1. k \in {"started"} \cup StreamEvents /\ reason \in Reasons \cup {"none"}
        BY DEF StreamEvents, Reasons
    <2> QED
        BY <1>2, <2>1, AttemptMsgType
<1>4. CASE Send(n, <<AttemptMsg("report_cancelled", a, "none")>>)
    <2> DEFINE ms == <<AttemptMsg("report_cancelled", a, "none")>>
               K == {"report_cancelled"}
    <2>1. AttemptMsg("report_cancelled", a, "none") \in UpMessageOn(n)
        BY <1>3 DEF Reports
    <2>2. ms \in Seq(UpMessageOn(n)) /\ Len(ms) \in 1..2
        BY <2>1, OneMessage
    <2>3. \A i \in DOMAIN ms : ms[i].att = a /\ ms[i].kind \in K
        BY DEF AttemptMsg
    <2>4. Send(n, ms)
        BY <1>4
    <2> HIDE DEF ms, n
    <2>5. SaysOf(a, K) /\ HeadsKept
        BY <1>1, <1>2, <2>2, <2>3, <2>4, SendSays, SendHeads
    <2>6. "report_cancelled" \in Reports /\ K \cap Reports \subseteq {"report_cancelled"}
        BY DEF Reports
    <2>7. K \cap {"token", "failed_final", "failed_retry", "report_retry"} = {}
        OBVIOUS
    <2> HIDE DEF K
    <2> QED
        BY <1>1, <2>5, <2>6, <2>7, EndHist
<1>5. ASSUME NEW k \in Failures, NEW rep \in {"report_retry", "report_final"},
             Send(n, <<AttemptMsg(k, a, "runtime_error"), AttemptMsg(rep, a, "runtime_error")>>),
             k = "failed_final" => exec[a].first,
             k = "failed_retry" \/ rep = "report_retry" => ~exec[a].first
      PROVE History'
    <2> DEFINE ms == <<AttemptMsg(k, a, "runtime_error"), AttemptMsg(rep, a, "runtime_error")>>
               K == {k, rep}
    <2>1. rep \in Reports /\ k \in {"failed_retry", "failed_final"} /\ k \notin Reports
        BY DEF Reports, Failures
    <2>2. /\ AttemptMsg(k, a, "runtime_error") \in UpMessageOn(n)
          /\ AttemptMsg(rep, a, "runtime_error") \in UpMessageOn(n)
        BY <1>3, <2>1
    <2>3. ms \in Seq(UpMessageOn(n)) /\ Len(ms) \in 1..2
        BY <2>2, TwoMessages
    <2>4. \A i \in DOMAIN ms : ms[i].att = a /\ ms[i].kind \in K
        BY DEF AttemptMsg
    <2>5. Send(n, ms)
        BY <1>5
    <2> HIDE DEF ms, n
    <2>6. SaysOf(a, K) /\ HeadsKept
        BY <1>1, <1>2, <2>3, <2>4, <2>5, SendSays, SendHeads
    <2>7. K \cap Reports \subseteq {rep} /\ "token" \notin K
        BY <2>1
    <2>8. /\ "failed_final" \in K => exec[a].first
          /\ "failed_retry" \in K \/ "report_retry" \in K => ~exec[a].first
        BY <1>5, <2>1
    <2> HIDE DEF K
    <2> QED
        BY <1>1, <2>1, <2>6, <2>7, <2>8, EndHist
<1>6. \/ Send(n, <<AttemptMsg("report_cancelled", a, "none")>>)
      \/ exec[a].first /\ Send(n, <<AttemptMsg("failed_final", a, "runtime_error"),
                                    AttemptMsg("report_final", a, "runtime_error")>>)
      \/ ~exec[a].first /\ Send(n, <<AttemptMsg("failed_retry", a, "runtime_error"),
                                     AttemptMsg("report_retry", a, "runtime_error")>>)
    BY DEF ReportError
<1> QED
    BY <1>4, <1>5, <1>6 DEF Failures

\* The first token.
LEMMA SendTokenHist ==
    ASSUME IndInv, History, NEW a \in Attempts, SendToken(a) PROVE History'
<1> DEFINE n == NodeOfAttempt(a)
           ms == <<AttemptMsg("token", a, "none")>>
           K == {"token"}
<1>1. /\ exec[a].pc = "serving" /\ exec' = [exec EXCEPT ![a].first = TRUE] /\ Send(n, ms)
      /\ UNCHANGED <<db, sessVars, reqVars, down>>
    BY DEF SendToken
<1>2. n \in Nodes /\ a \in AttemptsOn(n)
    BY <1>1, ExecutedAttempt
<1>3. ms \in Seq(UpMessageOn(n)) /\ Len(ms) \in 1..2
    <2>1. AttemptMsg("token", a, "none") \in UpMessageOn(n)
        BY <1>2, AttemptMsgType DEF StreamEvents
    <2> QED
        BY <2>1, OneMessage
<1>4. \A i \in DOMAIN ms : ms[i].att = a /\ ms[i].kind \in K
    BY DEF AttemptMsg
<1> HIDE DEF ms, n
<1>5. SaysOf(a, K) /\ HeadsKept
    BY <1>1, <1>2, <1>3, <1>4, SendSays, SendHeads
<1>6. /\ exec'[a].pc = exec[a].pc /\ exec'[a].first
      /\ \A b \in Attempts : b # a => exec'[b] = exec[b]
    BY <1>1 DEF IndInv, TypeOK, WorkerTypeOK, ExecRecord
<1>7. UNCHANGED <<attempt, failedSlots, reports, charged, events, req, resp>>
    BY <1>1 DEF db, sessVars, reqVars
<1>8. NoneStarts /\ EndsKept
    BY <1>6 DEF NoneStarts, EndsKept
<1>9. DispatchedOnce'
    BY <1>1, <1>7, <1>8, DispatchedFrame, DispatchesFrame, DispatchersFrame DEF History
<1>10. \A b \in Attempts : \A k \in StreamEvents \ {"token"} : Said(b, k)' => Said(b, k)
    BY <1>5 DEF SaysOf
<1>11. /\ Reports \subseteq StreamEvents \ {"token"} /\ reports \subseteq Attempts
       /\ {"failed_final", "failed_retry", "report_retry", "report_completed"} \subseteq StreamEvents \ {"token"}
       /\ {"report_retry", "report_completed"} \subseteq Reports /\ "token" \in StreamEvents
    BY DEF StreamEvents, Failures, Reports, IndInv, TypeOK, DbTypeOK
<1>12. ReportedOnce'
    <2>1. \A b \in Attempts : \A k \in Reports : Said(b, k)' => Said(b, k)
        BY <1>10, <1>11
    <2> QED
        BY <1>7, <1>8, <1>11, <2>1 DEF History, ReportedOnce, EndsKept
<1>13. OutputKnown'
    <2> SUFFICES ASSUME NEW b \in Attempts
                 PROVE  /\ attempt'[b].first => exec'[b].first
                        /\ Said(b, "token")' \/ Said(b, "failed_final")' => exec'[b].first
                        /\ Said(b, "failed_retry")' \/ Said(b, "report_retry")' =>
                              exec'[b].pc = "done" /\ ~exec'[b].first
                        /\ exec'[b].pc \in {"none", "spawned", "active", "admitted"} => ~exec'[b].first
        BY DEF OutputKnown
    <2>1. /\ attempt[b].first => exec[b].first
          /\ Said(b, "token") \/ Said(b, "failed_final") => exec[b].first
          /\ Said(b, "failed_retry") \/ Said(b, "report_retry") => exec[b].pc = "done" /\ ~exec[b].first
          /\ exec[b].pc \in {"none", "spawned", "active", "admitted"} => ~exec[b].first
        BY DEF History, OutputKnown
    <2>2. /\ Said(b, "token")' => Said(b, "token") \/ b = a
          /\ Said(b, "failed_final")' => Said(b, "failed_final")
          /\ Said(b, "failed_retry")' => Said(b, "failed_retry")
          /\ Said(b, "report_retry")' => Said(b, "report_retry")
        BY <1>5, <1>10, <1>11 DEF SaysOf
    <2> QED
        BY <1>1, <1>6, <1>7, <2>1, <2>2
<1>14. RetriesNoted'
    BY <1>7, <1>10, <1>11, AttemptsFrame DEF History, EventsTrue, RetriesNoted, NotesKept
<1> QED
    BY <1>1, <1>5, <1>9, <1>12, <1>13, <1>14, WordHist DEF History, EventsTrue

\* Where place i of a queue was before the head of the queue of n and e was taken.
Place(n, e, m, f, i) == IF m = n /\ f = e THEN i + 1 ELSE i

\* A Worker takes the message at the head: what remains was behind it.
LEMMA DispatchBehind ==
    ASSUME IndInv, NEW n \in Nodes, NEW e \in Sessions, down[n][e] # <<>>,
           down' = [down EXCEPT ![n][e] = Tail(@)],
           NEW m \in Nodes, NEW f \in Sessions, NEW a \in Attempts, NEW i \in DOMAIN down'[m][f],
           ExecutesAt(down'[m][f], i, a)
    PROVE  /\ i \in Nat \ {0} /\ Place(n, e, m, f, i) \in DOMAIN down[m][f]
           /\ ExecutesAt(down[m][f], Place(n, e, m, f, i), a)
<1>1. down \in [Nodes -> [Sessions -> Seq(DownMessage)]]
    BY DEF IndInv, TypeOK, NetTypeOK
<1>2. CASE m = n /\ f = e
    <2>1. down'[m][f] = Tail(down[n][e]) /\ down[n][e] \in Seq(DownMessage)
        BY <1>1, <1>2
    <2> DEFINE q == down[n][e]
    <2>2. q \in Seq(DownMessage) /\ q # <<>> /\ i \in DOMAIN Tail(q)
        BY <2>1
    <2> HIDE DEF q
    <2>3. i \in Nat \ {0} /\ i + 1 \in DOMAIN q /\ Tail(q)[i] = q[i + 1]
        BY <2>2
    <2> QED
        BY <1>2, <2>1, <2>3 DEF ExecutesAt, Place, q
<1>3. CASE ~(m = n /\ f = e)
    <2>1. down'[m][f] = down[m][f] /\ down[m][f] \in Seq(DownMessage)
        BY <1>1, <1>3
    <2>2. i \in Nat \ {0}
        BY <2>1
    <2> QED
        BY <1>3, <2>1, <2>2 DEF ExecutesAt, Place
<1> QED
    BY <1>2, <1>3

\* workerExecuteTask starts an attempt that was never started.
LEMMA ReceiveHist ==
    ASSUME IndInv, History, NEW n \in Nodes, Receive(n) PROVE History'
<1> DEFINE e == wsess[n]
           m == Head(down[n][e])
<1>1. /\ e # 0 /\ down[n][e] # <<>> /\ down' = [down EXCEPT ![n][e] = Tail(@)]
      /\ exec' = [a \in Attempts |->
            IF a \notin m.atts THEN exec[a]
            ELSE IF m.kind = "execute_task" THEN [exec[a] EXCEPT !.pc = "spawned"]
            ELSE IF exec[a].pc \in {"none", "spawned", "done"} THEN exec[a]
            ELSE [exec[a] EXCEPT !.cancelled = TRUE]]
      /\ UNCHANGED <<db, sessVars, reqVars, up>>
    BY DEF Receive
<1>2. e \in Sessions /\ exec \in [Attempts -> ExecRecord]
    BY <1>1 DEF IndInv, TypeOK, WorkerTypeOK
<1>3. down[n][e] \in Seq(DownMessage)
    BY <1>2 DEF IndInv, TypeOK, NetTypeOK
<1>4. 1 \in DOMAIN down[n][e] /\ down[n][e][1] = m
    BY <1>1, <1>3
<1> HIDE DEF m, e
\* The attempts that are started.
<1> DEFINE S == {a \in Attempts : a \in m.atts /\ m.kind = "execute_task"}
<1>5. \A a \in S : ExecutesAt(down[n][e], 1, a)
    BY <1>4 DEF ExecutesAt
<1>6. \A a \in S : exec[a].pc = "none"
    BY <1>2, <1>4, <1>5 DEF History, DispatchedOnce
<1>7. \A a \in Attempts : /\ exec'[a].first = exec[a].first
                          /\ a \in S => exec'[a].pc = "spawned"
                          /\ a \notin S => exec'[a].pc = exec[a].pc
    <2> SUFFICES ASSUME NEW a \in Attempts
                 PROVE  /\ exec'[a].first = exec[a].first
                        /\ a \in S => exec'[a].pc = "spawned"
                        /\ a \notin S => exec'[a].pc = exec[a].pc
        OBVIOUS
    <2>1. exec[a] \in ExecRecord
        BY <1>2
    <2>2. CASE a \notin m.atts
        BY <1>1, <2>2
    <2>3. CASE a \in m.atts /\ m.kind = "execute_task"
        <3>1. exec'[a] = [exec[a] EXCEPT !.pc = "spawned"]
            BY <1>1, <2>3
        <3> QED
            BY <2>1, <2>3, <3>1 DEF ExecRecord
    <2>4. CASE a \in m.atts /\ m.kind # "execute_task"
        <3>1. exec'[a] = exec[a] \/ exec'[a] = [exec[a] EXCEPT !.cancelled = TRUE]
            BY <1>1, <2>4
        <3> QED
            BY <2>1, <2>4, <3>1 DEF ExecRecord
    <2> QED
        BY <2>2, <2>3, <2>4
<1> HIDE DEF S
<1>8. EndsKept /\ FirstsKept
    BY <1>6, <1>7 DEF EndsKept, FirstsKept
<1>9. UNCHANGED <<attempt, failedSlots, reports, charged, events, req, resp>> /\ SaidLess /\ HeadsKept
    BY <1>1, SaidFrame, HeadsFrame DEF db, sessVars, reqVars
<1>10. ReportedOnce' /\ OutputKnown' /\ RetriesNoted'
    BY <1>8, <1>9, ReportedFrame, OutputFrame, AttemptsFrame, RetriesFrame DEF History, EventsTrue
<1>11. DispatchedOnce'
    <2>1. ASSUME NEW o \in Nodes, NEW f \in Sessions, NEW a \in Attempts, NEW i \in DOMAIN down'[o][f],
                 ExecutesAt(down'[o][f], i, a)
          PROVE  /\ exec'[a].pc = "none"
                 /\ \A o2 \in Nodes, f2 \in Sessions : \A i2 \in DOMAIN down'[o2][f2] :
                        ExecutesAt(down'[o2][f2], i2, a) => o2 = o /\ f2 = f /\ i2 = i
        <3> DEFINE j == Place(n, e, o, f, i)
        <3>1. i \in Nat \ {0} /\ j \in DOMAIN down[o][f] /\ ExecutesAt(down[o][f], j, a)
            BY <1>1, <1>2, <2>1, DispatchBehind
        <3>2. exec[a].pc = "none"
            BY <3>1 DEF History, DispatchedOnce
        <3>3. a \notin S
            <4>1. SUFFICES ASSUME a \in S PROVE FALSE
                OBVIOUS
            <4>2. ExecutesAt(down[n][e], 1, a)
                BY <1>5, <4>1
            <4>3. n = o /\ e = f /\ 1 = j
                BY <1>2, <1>4, <3>1, <4>2 DEF History, DispatchedOnce
            <4> QED
                BY <3>1, <4>3 DEF Place
        <3>4. ASSUME NEW o2 \in Nodes, NEW f2 \in Sessions, NEW i2 \in DOMAIN down'[o2][f2],
                     ExecutesAt(down'[o2][f2], i2, a)
              PROVE o2 = o /\ f2 = f /\ i2 = i
            <4> DEFINE j2 == Place(n, e, o2, f2, i2)
            <4>1. i2 \in Nat \ {0} /\ j2 \in DOMAIN down[o2][f2] /\ ExecutesAt(down[o2][f2], j2, a)
                BY <1>1, <1>2, <3>4, DispatchBehind
            <4> HIDE DEF j, j2
            <4>2. o2 = o /\ f2 = f /\ j2 = j
                BY <3>1, <4>1 DEF History, DispatchedOnce
            <4> QED
                BY <3>1, <4>1, <4>2 DEF j, j2, Place
        <3> QED
            BY <1>7, <3>2, <3>3, <3>4
    <2>2. ASSUME NEW t \in Tasks, req'[t].pc = "dispatch"
          PROVE  /\ exec'[Current(t)'].pc = "none"
                 /\ \A o \in Nodes, f \in Sessions : \A i \in DOMAIN down'[o][f] :
                       ~ExecutesAt(down'[o][f], i, Current(t)')
        <3>1. req[t].pc = "dispatch" /\ Current(t)' = Current(t)
            BY <1>9, <2>2 DEF Current
        <3>2. Current(t) \in Attempts
            BY <3>1, CurrentAttempt
        <3>3. /\ exec[Current(t)].pc = "none"
              /\ \A o \in Nodes, f \in Sessions : \A i \in DOMAIN down[o][f] :
                       ~ExecutesAt(down[o][f], i, Current(t))
            BY <3>1 DEF History, DispatchedOnce
        <3>4. Current(t) \notin S
            BY <1>2, <1>4, <1>5, <3>3
        <3>5. ASSUME NEW o \in Nodes, NEW f \in Sessions, NEW i \in DOMAIN down'[o][f],
                     ExecutesAt(down'[o][f], i, Current(t))
              PROVE FALSE
            <4> DEFINE j == Place(n, e, o, f, i)
            <4>1. j \in DOMAIN down[o][f] /\ ExecutesAt(down[o][f], j, Current(t))
                BY <1>1, <1>2, <3>2, <3>5, DispatchBehind
            <4> QED
                BY <3>3, <4>1
        <3> QED
            BY <1>7, <3>1, <3>2, <3>3, <3>4, <3>5
    <2> QED
        BY <2>1, <2>2 DEF DispatchedOnce, ExecutesAt
<1> QED
    BY <1>1, <1>9, <1>10, <1>11, WordHist DEF History, EventsTrue

-----------------------------------------------------------------------------
(* Readers that push *)

\* The message that a reader holds is said.
LEMMA HeadSaid ==
    ASSUME IndInv, NEW n \in Nodes, NEW e \in Sessions, up[n][e] # <<>>
    PROVE Said(Message(n, e).att, Message(n, e).kind)
<1>1. up[n][e] \in Seq(UpMessage)
    BY DEF IndInv, TypeOK, NetTypeOK
<1>2. 1 \in DOMAIN up[n][e] /\ up[n][e][1] = Message(n, e)
    BY <1>1 DEF Message
<1> QED
    BY <1>2 DEF Said, SaidIn

\* A handler that keeps its message to push it afterwards.
LEMMA HoldsHist ==
    ASSUME IndInv, History, NEW n \in Nodes, NEW e \in Sessions, ReaderAt(n, e, "push"),
           UNCHANGED <<up, events, req, resp, exec, down, pending>>,
           OutputsKept, SlotsKept, NotesKept, charged \subseteq charged', reports \subseteq reports',
           NEW a \in Attempts, a = Message(n, e).att,
           Message(n, e).kind = "failed_retry" => Noted(a)', Message(n, e).kind \in Reports => a \in reports',
           ReportedOnce', RetriesNoted'
    PROVE History'
<1>1. SaidLess /\ DispatchesLess /\ ExecsKept /\ DispatchersKept /\ EventsLess /\ PendingLess
    BY SaidFrame, DispatchesFrame, ExecsFrame, DispatchersFrame, EventsFrame, PendingFrame
<1>2. DispatchedOnce' /\ OutputKnown'
    BY <1>1, DispatchedFrame, OutputFrame DEF History, ExecsKept
<1>3. ChannelsTrue' /\ ClosersTrue' /\ LoopKeepsOff' /\ ExcludeFailedSlots'
    BY <1>1, ChannelsFrame, ClosersFrame, LoopsFrame, ExcludeFrame DEF History, EventsTrue
<1>4. ReadersTrue'
    <2> SUFFICES ASSUME NEW m \in Nodes, NEW f \in Sessions, reader'[m][f].pc = "push"
                 PROVE  (/\ Message(m, f).kind = "failed_retry" => Noted(Message(m, f).att)
                         /\ Message(m, f).kind \in Reports => Message(m, f).att \in reports)'
        BY DEF ReadersTrue
    <2>1. Message(m, f)' = Message(m, f)
        BY DEF Message
    <2>2. CASE m = n /\ f = e
        BY <2>1, <2>2 DEF Noted
    <2>3. CASE ~(m = n /\ f = e)
        <3>1. reader[m][f].pc = "push"
            BY <2>3 DEF ReaderAt, IndInv, TypeOK, SessionTypeOK
        <3>2. up[m][f] # <<>> /\ Message(m, f).kind \in {"started"} \cup StreamEvents
            BY <3>1 DEF IndInv, Bookkeeping, ReadersHold
        <3>3. PICK b \in Attempts : b = Message(m, f).att
            BY <3>2, AttemptMessageNamed
        <3>4. /\ Message(m, f).kind = "failed_retry" => Noted(b)'
              /\ Message(m, f).kind \in Reports => b \in reports'
            BY <3>1, <3>3 DEF History, EventsTrue, ReadersTrue, NotesKept
        <3> HIDE DEF Message
        <3> QED
            BY <2>1, <3>3, <3>4 DEF Noted
    <2> QED
        BY <2>2, <2>3
<1> QED
    BY <1>2, <1>3, <1>4 DEF History, EventsTrue

\* A handler that changes one attempt of the database.
LEMMA OneAttemptKept ==
    ASSUME IndInv, NEW a \in Attempts, Exists(a), NEW r, r.status # "none", r.slot = attempt[a].slot,
           r.first => attempt[a].first \/ exec[a].first, attempt' = [attempt EXCEPT ![a] = r]
    PROVE SlotsKept /\ OutputsKept
    BY DEF SlotsKept, OutputsKept, Exists, IndInv, TypeOK, DbTypeOK

\* handleToken: there was output.
LEMMA HandleTokenHist ==
    ASSUME IndInv, History, NEW n \in Nodes, NEW e \in Sessions, HandleToken(n, e) PROVE History'
<1>1. /\ UNCHANGED <<failedSlots, reports, charged, events, req, resp, exec, down, pending>>
      /\ up[n][e] # <<>> /\ Message(n, e).kind = "token"
    BY DEF HandleToken, Receives, reqVars, workerVars
<1>2. Message(n, e).kind \in {"started"} \cup StreamEvents
    BY <1>1 DEF StreamEvents
<1>3. PICK a \in Attempts : a = Message(n, e).att /\ Exists(a) /\ attempt[a] \in AttemptRecord
    BY <1>1, <1>2, AttemptMessageNamed
<1>4. CASE a \in streams
    <2> DEFINE r == [attempt[a] EXCEPT !.first = TRUE]
    <2>1. attempt' = [attempt EXCEPT ![a] = r] /\ ReaderAt(n, e, "push") /\ UNCHANGED up
        BY <1>3, <1>4 DEF HandleToken
    <2>2. exec[a].first
        BY <1>1, <1>3, HeadSaid DEF History, OutputKnown
    <2>3. r.status = attempt[a].status /\ r.slot = attempt[a].slot /\ r.status # "none"
        BY <1>3 DEF AttemptRecord, Exists
    <2> HIDE DEF r
    <2>4. SlotsKept /\ OutputsKept
        BY <1>3, <2>1, <2>2, <2>3, OneAttemptKept
    <2>5. NotesKept
        BY <1>1, <2>4, NotesFrame
    <2>6. ReportedOnce' /\ RetriesNoted'
        BY <1>1, <2>1, <2>5, SaidFrame, ExecsFrame, ReportedFrame, RetriesFrame DEF History, EventsTrue, ExecsKept
    <2>7. Message(n, e).kind # "failed_retry" /\ Message(n, e).kind \notin Reports
        BY <1>1 DEF Reports
    <2>8. charged \subseteq charged' /\ reports \subseteq reports'
        BY <1>1
    <2> QED
        BY <1>1, <1>3, <2>1, <2>4, <2>5, <2>6, <2>7, <2>8, HoldsHist
<1>5. CASE a \notin streams
    <2>1. NextMessage(n, e) /\ UNCHANGED attempt
        BY <1>3, <1>5 DEF HandleToken
    <2>2. up' = [up EXCEPT ![n][e] = Tail(@)]
        BY <2>1 DEF NextMessage
    <2> QED
        BY <1>1, <2>1, <2>2, ReaderDrops, PushersOthers, NextShorter, DropHist
<1> QED
    BY <1>4, <1>5

\* handleAttemptFailed notes the slot.
LEMMA HandleAttemptFailedHist ==
    ASSUME IndInv, History, NEW n \in Nodes, NEW e \in Sessions, HandleAttemptFailed(n, e) PROVE History'
<1>1. /\ UNCHANGED <<up, reports, charged, events, req, resp, exec, down, pending>>
      /\ up[n][e] # <<>> /\ Message(n, e).kind \in Failures /\ ReaderAt(n, e, "push")
    BY DEF HandleAttemptFailed, Receives, reqVars, netVars, workerVars
<1>2. Message(n, e).kind \in {"started"} \cup StreamEvents
    BY <1>1 DEF StreamEvents
<1>3. PICK a \in Attempts : /\ a = Message(n, e).att /\ Exists(a) /\ attempt[a] \in AttemptRecord
                            /\ TaskOf(a) \in Tasks
    BY <1>1, <1>2, AttemptMessageNamed
<1> DEFINE r == [attempt[a] EXCEPT !.status = "failed", !.first = (Message(n, e).kind = "failed_final")]
           t == TaskOf(a)
           s == attempt[a].slot
<1>4. attempt' = [attempt EXCEPT ![a] = r] /\ failedSlots' = [failedSlots EXCEPT ![t] = @ \cup {s}]
    BY <1>3 DEF HandleAttemptFailed
<1>5. /\ r.status = "failed" /\ r.slot = attempt[a].slot
      /\ r.first => Message(n, e).kind = "failed_final"
    BY <1>3 DEF AttemptRecord
<1>6. r.first => exec[a].first
    BY <1>1, <1>3, <1>5, HeadSaid DEF History, OutputKnown
<1> HIDE DEF r
<1>7. SlotsKept /\ OutputsKept
    BY <1>3, <1>4, <1>5, <1>6, OneAttemptKept
<1>8. s \in failedSlots'[t] /\ \A u \in Tasks : failedSlots[u] \subseteq failedSlots'[u]
    BY <1>3, <1>4 DEF IndInv, TypeOK, DbTypeOK
<1>9. NotesKept
    BY <1>7, <1>8, NotesFrame
<1>10. Noted(a)'
    BY <1>3, <1>7, <1>8 DEF Noted, SlotsKept, TaskOf
<1>11. ReportedOnce' /\ RetriesNoted'
    BY <1>1, <1>9, SaidFrame, ExecsFrame, ReportedFrame, RetriesFrame DEF History, EventsTrue, ExecsKept
<1>12. Message(n, e).kind \notin Reports
    BY <1>1 DEF Reports, Failures
<1>13. charged \subseteq charged' /\ reports \subseteq reports'
    BY <1>1
<1> QED
    BY <1>1, <1>3, <1>7, <1>9, <1>10, <1>11, <1>12, <1>13, HoldsHist

\* handleComputeReport stores what it is about to push: a completion with its
\* charge, a retry with its slot.
LEMMA HandleComputeReportHist ==
    ASSUME IndInv, History, NEW n \in Nodes, NEW e \in Sessions, HandleComputeReport(n, e) PROVE History'
<1> DEFINE k == Message(n, e).kind
<1>1. /\ UNCHANGED <<up, events, req, resp, exec, down, pending>>
      /\ up[n][e] # <<>> /\ k \in Reports /\ ReaderAt(n, e, "push")
    BY DEF HandleComputeReport, Receives, reqVars, netVars, workerVars
<1>2. k \in {"started"} \cup StreamEvents /\ k # "failed_retry"
    BY <1>1 DEF StreamEvents, Reports
<1>3. PICK a \in Attempts : /\ a = Message(n, e).att /\ Exists(a) /\ attempt[a] \in AttemptRecord
                            /\ TaskOf(a) \in Tasks
    BY <1>1, <1>2, AttemptMessageNamed
<1>4. Said(a, k)
    BY <1>1, <1>3, HeadSaid
<1>5. exec[a].pc = "done" /\ \A l \in Reports : Said(a, l) => l = k
    BY <1>1, <1>4 DEF History, ReportedOnce
<1>6. /\ \A b \in Attempts : \A l \in StreamEvents : Said(b, l)' <=> Said(b, l)
      /\ Reports \subseteq StreamEvents /\ reports \subseteq Attempts
      /\ {"report_retry", "report_completed"} \subseteq Reports
    BY <1>1 DEF Said, StreamEvents, Reports, IndInv, TypeOK, DbTypeOK
<1>7. CASE a \in reports
    <2>1. UNCHANGED <<attempt, failedSlots, reports, charged>>
        BY <1>3, <1>7 DEF HandleComputeReport, db
    <2>2. ReportedOnce' /\ RetriesNoted' /\ SlotsKept /\ OutputsKept /\ NotesKept
        BY <1>1, <2>1, SaidFrame, ExecsFrame, AttemptsFrame, ReportedFrame, RetriesFrame
           DEF History, EventsTrue, ExecsKept
    <2>3. charged \subseteq charged' /\ reports \subseteq reports' /\ a \in reports'
        BY <1>7, <2>1
    <2> QED
        BY <1>1, <1>2, <1>3, <2>2, <2>3, HoldsHist
<1>8. CASE a \notin reports
    <2> DEFINE s == attempt[a].slot
               t == TaskOf(a)
               status == StatusOfReport(k)
               r == [attempt[a] EXCEPT !.status = status]
               requeue == k = "report_retry" /\ ~attempt[a].first
    <2>1. /\ charged' = IF status = "completed" THEN charged \cup {a} ELSE charged
          /\ reports' = reports \cup {a}
          /\ attempt' = [attempt EXCEPT ![a] = r]
          /\ failedSlots' = [failedSlots EXCEPT ![t] = IF requeue THEN @ \cup {s} ELSE @]
        BY <1>3, <1>8 DEF HandleComputeReport
    <2>2. /\ r.status = status /\ r.slot = attempt[a].slot /\ r.first = attempt[a].first
          /\ status # "none" /\ (k = "report_completed" => status = "completed")
        BY <1>3 DEF AttemptRecord, StatusOfReport
    <2> HIDE DEF r
    <2>3. SlotsKept /\ OutputsKept
        BY <1>3, <2>1, <2>2, OneAttemptKept
    <2>4. \A u \in Tasks : failedSlots[u] \subseteq failedSlots'[u]
        BY <2>1 DEF IndInv, TypeOK, DbTypeOK
    <2>5. requeue => s \in failedSlots'[t]
        BY <1>3, <2>1 DEF IndInv, TypeOK, DbTypeOK
    <2>6. NotesKept
        BY <2>3, <2>4, NotesFrame
    <2>7. requeue => Noted(a)'
        BY <1>3, <2>3, <2>5 DEF Noted, SlotsKept, TaskOf
    <2>8. /\ charged \subseteq charged' /\ charged' \subseteq charged \cup {a}
          /\ k = "report_completed" => a \in charged'
        BY <2>1, <2>2
    <2>9. ReportedOnce'
        <3>1. \A b \in Attempts : \A l \in Reports : Said(b, l)' => Said(b, l)
            BY <1>6
        <3>2. \A b \in Attempts : \A l \in Reports : Said(b, l)' => exec'[b].pc = "done"
            BY <1>1, <3>1 DEF History, ReportedOnce
        <3>3. \A b \in reports' : exec'[b].pc = "done"
            BY <1>1, <1>5, <2>1 DEF History, ReportedOnce
        <3>4. \A b \in Attempts : \A l, l2 \in Reports : Said(b, l)' /\ Said(b, l2)' => l = l2
            BY <3>1 DEF History, ReportedOnce
        <3>5. \A b \in reports' : Said(b, "report_completed")' => b \in charged'
            <4>1. \A b \in reports : Said(b, "report_completed")' => b \in charged'
                BY <1>6, <2>8, <3>1 DEF History, ReportedOnce
            <4>2. Said(a, "report_completed")' => a \in charged'
                BY <1>5, <1>6, <2>8, <3>1
            <4> QED
                BY <2>1, <4>1, <4>2
        <3>6. charged' \subseteq reports'
            BY <2>1, <2>8 DEF History, ReportedOnce
        <3> QED
            BY <3>2, <3>3, <3>4, <3>5, <3>6 DEF ReportedOnce
    <2>10. RetriesNoted'
        <3>1. \A b \in reports : Said(b, "report_retry")' => Noted(b)'
            BY <1>6, <2>6 DEF History, EventsTrue, RetriesNoted, NotesKept
        <3>2. Said(a, "report_retry")' => Noted(a)'
            <4>1. SUFFICES ASSUME Said(a, "report_retry")' PROVE Noted(a)'
                OBVIOUS
            <4>2. Said(a, "report_retry") /\ k = "report_retry"
                BY <1>5, <1>6, <4>1
            <4>3. ~attempt[a].first
                BY <4>2 DEF History, OutputKnown
            <4> QED
                BY <2>7, <4>2, <4>3
        <3> QED
            BY <2>1, <3>1, <3>2 DEF RetriesNoted
    <2>11. a \in reports' /\ reports \subseteq reports'
        BY <2>1
    <2> HIDE DEF k, status, s, t, requeue
    <2> QED
        BY <1>1, <1>2, <1>3, <2>3, <2>6, <2>8, <2>9, <2>10, <2>11, HoldsHist DEF k
<1> QED
    BY <1>7, <1>8

-----------------------------------------------------------------------------
(* Events *)

\* A true event keeps the channels true.
LEMMA PushTrue ==
    ASSUME IndInv, ChannelsTrue, NotesKept, charged \subseteq charged', NEW a \in Attempts,
           NEW k \in StreamEvents, Push(a, k), TrueEvent(a, k)
    PROVE ChannelsTrue'
<1>1. \A b \in Attempts : events[b] \in Seq(StreamEvents)
    BY DEF IndInv, TypeOK, RequestTypeOK
<1> SUFFICES ASSUME NEW b \in Attempts, NEW i \in DOMAIN events'[b]
             PROVE TrueEvent(b, events[b][i])'
    BY DEF ChannelsTrue
<1>2. \/ \E j \in DOMAIN events[b] : events'[b][i] = events[b][j]
      \/ b = a /\ events'[b][i] = k
    <2>1. CASE events'[b] = events[b]
        BY <2>1
    <2>2. CASE b = a /\ events'[b] = Append(events[b], k)
        BY <1>1, <2>2
    <2>3. events'[b] = events[b] \/ (b = a /\ events'[b] = Append(events[b], k))
        BY DEF Push, IndInv, TypeOK, RequestTypeOK
    <2> QED
        BY <2>1, <2>2, <2>3
<1>3. \A j \in DOMAIN events[b] : TrueEvent(b, events[b][j])
    BY DEF ChannelsTrue
<1> QED
    BY <1>2, <1>3 DEF TrueEvent, NotesKept

\* The invariant when an event has been pushed.
LEMMA PushedHist ==
    ASSUME IndInv, History, SaidLess, PendingLess, PushersKept, ChannelsTrue',
           UNCHANGED <<attempt, failedSlots, reports, charged, req, resp, exec, down>>
    PROVE History'
<1>1. DispatchesLess /\ ExecsKept /\ DispatchersKept /\ OutputsKept /\ SlotsKept /\ NotesKept
    BY DispatchesFrame, ExecsFrame, DispatchersFrame, AttemptsFrame
<1>2. charged \subseteq charged' /\ reports \subseteq reports'
    OBVIOUS
<1>3. DispatchedOnce' /\ ReportedOnce' /\ OutputKnown'
    BY <1>1, DispatchedFrame, ReportedFrame, OutputFrame DEF History, ExecsKept
<1>4. RetriesNoted' /\ ClosersTrue' /\ ReadersTrue' /\ LoopKeepsOff' /\ ExcludeFailedSlots'
    BY <1>1, <1>2, RetriesFrame, ClosersFrame, ReadersTrueFrame, LoopsFrame, ExcludeFrame
       DEF History, EventsTrue
<1> QED
    BY <1>3, <1>4 DEF History, EventsTrue

\* The handler's event tells what the handler stored.
LEMMA PushEventHist ==
    ASSUME IndInv, History, NEW n \in Nodes, NEW e \in Sessions, PushEvent(n, e) PROVE History'
<1> DEFINE k == Message(n, e).kind
<1>1. /\ reader[n][e].pc = "push"
      /\ UNCHANGED <<attempt, failedSlots, reports, charged, req, resp, exec, down, pending>>
      /\ \/ ReaderAt(n, e, "replan") /\ UNCHANGED up
         \/ NextMessage(n, e)
    BY DEF PushEvent, db, workerVars
<1>2. up[n][e] # <<>> /\ k \in StreamEvents
    BY <1>1 DEF IndInv, Bookkeeping, ReadersHold
<1>3. PICK a \in Attempts : a = Message(n, e).att
    BY <1>2, AttemptMessageNamed
<1>4. Push(a, k)
    BY <1>3 DEF PushEvent
<1>5. Said(a, k)
    BY <1>2, <1>3, HeadSaid
<1>6. (k = "failed_retry" => Noted(a)) /\ (k \in Reports => a \in reports)
    BY <1>1, <1>3 DEF History, EventsTrue, ReadersTrue
<1> HIDE DEF k
<1>7. TrueEvent(a, k)
    BY <1>5, <1>6 DEF TrueEvent, Reports, History, EventsTrue, RetriesNoted, ReportedOnce
<1>8. ChannelsTrue'
    BY <1>1, <1>2, <1>4, <1>7, AttemptsFrame, PushTrue DEF History, EventsTrue
<1>9. SaidLess /\ PushersKept
    <2>1. CASE ReaderAt(n, e, "replan") /\ UNCHANGED up
        <3>1. OthersRead(n, e) /\ reader'[n][e].pc = "replan"
            BY <2>1 DEF OthersRead, ReaderAt, IndInv, TypeOK, SessionTypeOK, ReaderRecord
        <3> QED
            BY <2>1, <3>1, PushersOthers, SaidFrame
    <2>2. CASE NextMessage(n, e)
        <3>1. up' = [up EXCEPT ![n][e] = Tail(@)]
            BY <2>2 DEF NextMessage
        <3> QED
            BY <1>2, <2>2, <3>1, ReaderDrops, PushersOthers, NextShorter, SaidShorter
    <2> QED
        BY <1>1, <2>1, <2>2
<1> QED
    BY <1>1, <1>8, <1>9, PushedHist, PendingFrame

-----------------------------------------------------------------------------
(* Closers *)

\* publishWorkerDisconnectFailures: the failure was noted.
LEMMA PublishFailureHist ==
    ASSUME IndInv, History, NEW n \in Nodes, NEW e \in Sessions, PublishFailure(n, e) PROVE History'
<1>1. UNCHANGED <<attempt, failedSlots, reports, charged, req, resp, exec, down, up, reader>>
    BY DEF PublishFailure, netVars, workerVars
<1>2. PICK f \in pending[n][e] :
        Push(f.att, f.kind) /\ pending' = [pending EXCEPT ![n][e] = pending[n][e] \ {f}]
    BY DEF PublishFailure
<1>3. f.att \in Attempts /\ f.kind \in Failures
    BY <1>2 DEF IndInv, TypeOK, SessionTypeOK, FailureRecord
<1>4. Noted(f.att)
    BY <1>2 DEF History, EventsTrue, ClosersTrue
<1>5. TrueEvent(f.att, f.kind) /\ f.kind \in StreamEvents
    BY <1>3, <1>4 DEF TrueEvent, Failures, StreamEvents
<1>6. ChannelsTrue'
    BY <1>1, <1>2, <1>3, <1>5, AttemptsFrame, PushTrue DEF History, EventsTrue
<1>7. PendingLess
    BY <1>2 DEF PendingLess, IndInv, TypeOK, SessionTypeOK
<1> QED
    BY <1>1, <1>6, <1>7, PushedHist, SaidFrame, PushersFrame, HeadsFrame

\* failRunningAttempts notes every slot whose failure it will publish.
LEMMA FailRunningAttemptsHist ==
    ASSUME IndInv, History, NEW n \in Nodes, NEW e \in Sessions, FailRunningAttempts(n, e) PROVE History'
<1> DEFINE failed == {a \in Attempts : attempt[a].status = "running" /\ NodeOfAttempt(a) = n}
           published == {[att |-> a, kind |-> IF attempt[a].first THEN "failed_final"
                                              ELSE "failed_retry"] : a \in failed}
<1>1. /\ UNCHANGED <<reports, charged, req, resp, events, exec, down, up, reader>>
      /\ attempt' = [a \in Attempts |->
            IF a \in failed THEN [attempt[a] EXCEPT !.status = "failed"] ELSE attempt[a]]
      /\ failedSlots' = [t \in Tasks |->
            failedSlots[t] \cup {attempt[a].slot : a \in {b \in failed : TaskOf(b) = t}}]
      /\ pending' = [pending EXCEPT ![n][e] = published]
    BY DEF FailRunningAttempts, reqVars, netVars, workerVars
<1>2. failed \subseteq Attempts /\ \A a \in failed : Exists(a) /\ TaskOf(a) \in Tasks
    BY DEF Exists, TaskOf, Attempts
<1>3. \A x \in published : x.att \in failed
    OBVIOUS
<1> HIDE DEF failed, published
<1>4. SlotsKept /\ OutputsKept
    <2> SUFFICES ASSUME NEW a \in Attempts
                 PROVE  /\ Exists(a)' <=> Exists(a)
                        /\ attempt'[a].slot = attempt[a].slot /\ attempt'[a].first = attempt[a].first
        BY DEF SlotsKept, OutputsKept
    <2>1. attempt[a] \in AttemptRecord
        BY DEF IndInv, TypeOK, DbTypeOK
    <2>2. CASE a \in failed
        <3>1. attempt'[a] = [attempt[a] EXCEPT !.status = "failed"]
            BY <1>1, <2>2
        <3> QED
            BY <1>2, <2>1, <2>2, <3>1 DEF AttemptRecord, Exists
    <2>3. CASE a \notin failed
        BY <1>1, <2>3 DEF Exists
    <2> QED
        BY <2>2, <2>3
<1>5. \A t \in Tasks : failedSlots[t] \subseteq failedSlots'[t]
    BY <1>1
<1>6. NotesKept
    BY <1>4, <1>5, NotesFrame
<1>7. \A a \in failed : Noted(a)'
    <2> SUFFICES ASSUME NEW a \in failed PROVE Noted(a)'
        OBVIOUS
    <2>1. attempt[a].slot \in failedSlots'[TaskOf(a)]
        BY <1>1, <1>2
    <2> QED
        BY <1>2, <1>4, <2>1 DEF Noted, SlotsKept, TaskOf
<1>8. ClosersTrue'
    <2> SUFFICES ASSUME NEW m \in Nodes, NEW f \in Sessions, NEW x \in pending'[m][f] PROVE Noted(x.att)'
        BY DEF ClosersTrue
    <2>1. x \in pending[m][f] \/ x \in published
        BY <1>1 DEF IndInv, TypeOK, SessionTypeOK
    <2>2. CASE x \in published
        BY <1>3, <1>7, <2>2
    <2>3. CASE x \in pending[m][f]
        <3>1. x.att \in Attempts
            BY <2>3 DEF IndInv, TypeOK, SessionTypeOK, FailureRecord
        <3> QED
            BY <1>6, <2>3, <3>1 DEF History, EventsTrue, ClosersTrue, NotesKept
    <2> QED
        BY <2>1, <2>2, <2>3
<1>9. SaidLess /\ DispatchesLess /\ ExecsKept /\ DispatchersKept /\ EventsLess /\ PushersKept
    BY <1>1, SaidFrame, DispatchesFrame, ExecsFrame, DispatchersFrame, EventsFrame, PushersFrame, HeadsFrame
<1>10. charged \subseteq charged' /\ reports \subseteq reports'
    BY <1>1
<1>11. DispatchedOnce' /\ ReportedOnce' /\ OutputKnown'
    BY <1>1, <1>4, <1>9, DispatchedFrame, ReportedFrame, OutputFrame DEF History, ExecsKept
<1>12. RetriesNoted' /\ ChannelsTrue' /\ ReadersTrue'
    BY <1>1, <1>6, <1>9, <1>10, RetriesFrame, ChannelsFrame, ReadersTrueFrame DEF History, EventsTrue
<1>13. LoopKeepsOff' /\ ExcludeFailedSlots'
    BY <1>1, <1>4, <1>6, <1>10, LoopsFrame, ExcludeFrame DEF History
<1> QED
    BY <1>8, <1>11, <1>12, <1>13 DEF History, EventsTrue

-----------------------------------------------------------------------------
(* The request goroutine *)

\* A request that moves: its own part of the invariant can be disturbed, and
\* what is known of dispatches.
LEMMA MovedHist ==
    ASSUME IndInv, History, UNCHANGED <<reports, charged, exec, up, pending, reader>>,
           OutputsKept, SlotsKept, NotesKept, EventsLess, DispatchedOnce',
           NEW t \in Tasks, \A u \in Tasks \ {t} : req'[u] = req[u] /\ resp'[u] = resp[u], LoopOK(t)'
    PROVE History'
<1>1. SaidLess /\ ExecsKept /\ PendingLess /\ PushersKept
    BY SaidFrame, ExecsFrame, PendingFrame, PushersFrame, HeadsFrame
<1>2. charged \subseteq charged' /\ reports \subseteq reports'
    OBVIOUS
<1>3. ReportedOnce' /\ OutputKnown'
    BY <1>1, ReportedFrame, OutputFrame DEF History, ExecsKept
<1>4. RetriesNoted' /\ ChannelsTrue' /\ ClosersTrue' /\ ReadersTrue' /\ ExcludeFailedSlots'
    BY <1>1, <1>2, RetriesFrame, ChannelsFrame, ClosersFrame, ReadersTrueFrame, ExcludeFrame
       DEF History, EventsTrue
<1>5. \A u \in Tasks \ {t} : LoopOK(u)'
    BY <1>1, <1>2, LoopFrame DEF History, LoopKeepsOff, SlotsKept
<1>6. LoopKeepsOff'
    BY <1>5 DEF LoopKeepsOff
<1> QED
    BY <1>3, <1>4, <1>6 DEF History, EventsTrue

\* A request that moves without an attempt being made, changed or dispatched.
LEMMA MoveHist ==
    ASSUME IndInv, History, UNCHANGED <<attempt, failedSlots, reports, charged, exec, up, pending, reader>>,
           NEW t \in Tasks, DispatchesLess, EventsLess, req'[t].pc # "dispatch",
           \A u \in Tasks \ {t} : req'[u] = req[u] /\ resp'[u] = resp[u], LoopOK(t)'
    PROVE History'
<1>1. NoneStarts /\ DispatchersKept
    BY DEF NoneStarts, DispatchersKept
<1>2. DispatchedOnce'
    BY <1>1, DispatchedFrame DEF History
<1> QED
    BY <1>2, AttemptsFrame, MovedHist

\* The answer ends the loop; a completion has been charged.
LEMMA FinishLoop ==
    ASSUME IndInv, NEW t \in Tasks, NEW answer, answer # "none", Finish(t, answer),
           answer = "ok" => Current(t) \in charged, charged \subseteq charged'
    PROVE /\ LoopOK(t)' /\ req'[t].pc = "done" /\ req'[t].n = req[t].n
          /\ \A u \in Tasks \ {t} : req'[u] = req[u] /\ resp'[u] = resp[u]
<1>1. req[t] \in RequestRecord /\ req \in [Tasks -> RequestRecord] /\ resp \in [Tasks -> Answers]
    BY DEF IndInv, TypeOK, RequestTypeOK
<1>2. req'[t] = [req[t] EXCEPT !.pc = "done", !.slot = NoSlot, !.sess = 0]
    BY <1>1 DEF Finish
<1>3. req'[t].pc = "done" /\ req'[t].n = req[t].n
    BY <1>1, <1>2 DEF RequestRecord
<1>4. /\ resp'[t] = answer
      /\ \A u \in Tasks \ {t} : req'[u] = req[u] /\ resp'[u] = resp[u]
    BY <1>1 DEF Finish
<1>5. Current(t)' = Current(t)
    BY <1>3 DEF Current
<1> QED
    BY <1>3, <1>4, <1>5 DEF LoopOK

\* Requests that end without an event: no capacity, a cancel, a client that left.
LEMMA EndedHist ==
    ASSUME IndInv, History, NEW t \in Tasks, NoCapacity(t) \/ StartCancelled(t) \/ ContextDone(t)
    PROVE History'
<1>1. UNCHANGED <<attempt, failedSlots, reports, charged, exec, up, pending, reader>>
    BY DEF NoCapacity, StartCancelled, ContextDone, sessVars, netVars, workerVars
<1>2. PICK answer \in {"error", "cancelled"} : Finish(t, answer)
    BY DEF NoCapacity, StartCancelled, ContextDone
<1>3. DispatchesLess
    <2>1. CASE NoCapacity(t)
        BY <2>1, DispatchesFrame DEF NoCapacity, netVars
    <2>2. CASE StartCancelled(t)
        <3>1. Running(t) \cup {} \in SUBSET Attempts
            BY DEF Running
        <3> QED
            BY <2>2, <3>1, CancelsAreNone DEF StartCancelled, CancelTask
    <2>3. CASE ContextDone(t)
        <3>1. Current(t) \in Attempts
            BY <2>3, CurrentAttempt DEF ContextDone
        <3>2. Running(t) \cup {Current(t)} \in SUBSET Attempts
            BY <3>1 DEF Running
        <3> QED
            BY <2>3, <3>2, CancelsAreNone DEF ContextDone, CancelTask
    <2> QED
        BY <2>1, <2>2, <2>3
<1>4. EventsLess
    <2>1. \A a \in Attempts : events'[a] = events[a] \/ events'[a] = <<>>
        BY DEF NoCapacity, StartCancelled, ContextDone, Cleanup, IndInv, TypeOK, RequestTypeOK
    <2> QED
        BY <2>1 DEF EventsLess
<1>5. /\ LoopOK(t)' /\ req'[t].pc = "done"
      /\ \A u \in Tasks \ {t} : req'[u] = req[u] /\ resp'[u] = resp[u]
    BY <1>1, <1>2, FinishLoop
<1> QED
    BY <1>1, <1>3, <1>4, <1>5, MoveHist

\* A request goes to another place of its loop and keeps its number of attempts.
LEMMA RequestRecordMoves ==
    ASSUME IndInv, NEW t \in Tasks, NEW r, r.n = req[t].n, req' = [req EXCEPT ![t] = r]
    PROVE /\ req'[t] = r /\ Current(t)' = Current(t)
          /\ \A u \in Tasks \ {t} : req'[u] = req[u]
    BY DEF IndInv, TypeOK, RequestTypeOK, Current

\* acquireQueue and createChatTask: there is no attempt yet.
LEMMA SubmitHist ==
    ASSUME IndInv, History, NEW t \in Tasks, Submit(t) PROVE History'
<1>1. /\ UNCHANGED <<attempt, failedSlots, reports, charged, exec, up, pending, reader, down, events>>
      /\ req[t].pc = "none"
    BY DEF Submit, sessVars, netVars, workerVars
<1>2. LoopOK(t) /\ req[t] \in RequestRecord
    BY DEF History, LoopKeepsOff, IndInv, TypeOK, RequestTypeOK
<1>3. CASE Finish(t, "busy")
    <2>1. /\ LoopOK(t)' /\ req'[t].pc = "done"
          /\ \A u \in Tasks \ {t} : req'[u] = req[u] /\ resp'[u] = resp[u]
        BY <1>1, <1>3, FinishLoop
    <2> QED
        BY <1>1, <2>1, MoveHist, DispatchesFrame, EventsFrame
<1>4. CASE req' = [req EXCEPT ![t].pc = "start"] /\ UNCHANGED resp
    <2> DEFINE r == [req[t] EXCEPT !.pc = "start"]
    <2>1. req' = [req EXCEPT ![t] = r]
        BY <1>4
    <2>2. r.pc = "start" /\ r.n = req[t].n
        BY <1>2 DEF RequestRecord
    <2> HIDE DEF r
    <2>3. req'[t] = r /\ Current(t)' = Current(t) /\ \A u \in Tasks \ {t} : req'[u] = req[u]
        BY <2>1, <2>2, RequestRecordMoves
    <2>4. GivenUp(t)' = GivenUp(t)
        BY <1>1, <2>2, <2>3 DEF GivenUp, Exists
    <2>5. \A a \in GivenUp(t) : a \in Attempts
        BY DEF GivenUp
    <2>6. LoopOK(t)'
        BY <1>1, <1>2, <1>4, <2>2, <2>3, <2>4, <2>5 DEF LoopOK, Noted, Exists
    <2> QED
        BY <1>1, <1>4, <2>2, <2>3, <2>6, MoveHist, DispatchesFrame, EventsFrame
<1> QED
    BY <1>3, <1>4 DEF Submit

\* selectReadySlot keeps off the slots that failed the task.
LEMMA SelectSlotHist ==
    ASSUME IndInv, History, NEW t \in Tasks, SelectSlot(t) PROVE History'
<1>1. /\ UNCHANGED <<attempt, failedSlots, reports, charged, exec, up, pending, reader, down, events, resp>>
      /\ req[t].pc = "start"
    BY DEF SelectSlot, db, sessVars, netVars, workerVars
<1>2. LoopOK(t) /\ req[t] \in RequestRecord
    BY DEF History, LoopKeepsOff, IndInv, TypeOK, RequestTypeOK
<1>3. PICK s \in Reachable(t) :
        req' = [req EXCEPT ![t] = [req[t] EXCEPT !.pc = "reserve", !.slot = s, !.sess = session[NodeOf[s]]]]
    BY DEF SelectSlot
<1>4. s \notin failedSlots[t]
    BY DEF Reachable, SlotReadyForProfile, FailedSlotsForTask
<1> DEFINE r == [req[t] EXCEPT !.pc = "reserve", !.slot = s, !.sess = session[NodeOf[s]]]
<1>5. r.pc = "reserve" /\ r.n = req[t].n /\ r.slot = s /\ req' = [req EXCEPT ![t] = r]
    BY <1>2, <1>3 DEF RequestRecord
<1> HIDE DEF r
<1>6. req'[t] = r /\ Current(t)' = Current(t) /\ \A u \in Tasks \ {t} : req'[u] = req[u]
    BY <1>5, RequestRecordMoves
<1>7. GivenUp(t)' = GivenUp(t)
    BY <1>1, <1>5, <1>6 DEF GivenUp, Exists
<1>8. \A a \in GivenUp(t) : a \in Attempts /\ Noted(a) /\ TaskOf(a) = t
    BY <1>1, <1>2 DEF GivenUp, LoopOK
<1>9. \A a \in GivenUp(t) : attempt[a].slot # s
    BY <1>4, <1>8 DEF Noted
<1>10. LoopOK(t)'
    BY <1>1, <1>2, <1>5, <1>6, <1>7, <1>8, <1>9 DEF LoopOK, Noted, Exists
<1> QED
    BY <1>1, <1>5, <1>6, <1>10, MoveHist, DispatchesFrame, EventsFrame

\* The events of a request are about its current attempt and true.
LEMMA TakeEventHist ==
    ASSUME IndInv, History, NEW t \in Tasks, TakeEvent(t) PROVE History'
<1> DEFINE a == Current(t)
           event == Head(events[a])
<1>1. /\ req[t].pc = "wait" /\ events[a] # <<>>
      /\ UNCHANGED <<attempt, failedSlots, reports, charged, exec, up, pending, reader>>
    BY DEF TakeEvent, db, sessVars, workerVars
<1>2. a \in Attempts /\ TaskOf(a) = t /\ Exists(a)
    BY <1>1, CurrentAttempt
<1>3. events \in [Attempts -> Seq(StreamEvents)]
    BY DEF IndInv, TypeOK, RequestTypeOK
<1>4. 1 \in DOMAIN events[a] /\ events[a][1] = event
    BY <1>1, <1>2, <1>3
<1>5. TrueEvent(a, event)
    BY <1>2, <1>4 DEF History, EventsTrue, ChannelsTrue
<1>6. LoopOK(t) /\ req[t] \in RequestRecord
    BY DEF History, LoopKeepsOff, IndInv, TypeOK, RequestTypeOK
<1>7. {a} \in SUBSET Attempts
    BY <1>2
<1>8. CASE Cleanup(a)
    <2>1. \A b \in Attempts : events'[b] = events[b] \/ events'[b] = <<>>
        BY <1>2, <1>3, <1>8 DEF Cleanup
    <2>2. EventsLess
        BY <2>1 DEF EventsLess
    <2>3. CASE /\ Retries(t, event)
               /\ req' = [req EXCEPT ![t] = [req[t] EXCEPT !.pc = "start", !.slot = NoSlot, !.sess = 0]]
               /\ SendCancels({a}) \/ UNCHANGED down
               /\ UNCHANGED resp
        <3>1. Noted(a)
            BY <1>5, <2>3 DEF Retries, TrueEvent
        <3> DEFINE r == [req[t] EXCEPT !.pc = "start", !.slot = NoSlot, !.sess = 0]
        <3>2. r.pc = "start" /\ r.n = req[t].n /\ req' = [req EXCEPT ![t] = r]
            BY <1>6, <2>3 DEF RequestRecord
        <3> HIDE DEF r
        <3>3. req'[t] = r /\ Current(t)' = Current(t) /\ \A u \in Tasks \ {t} : req'[u] = req[u]
            BY <3>2, RequestRecordMoves
        <3>4. GivenUp(t)' \subseteq GivenUp(t) \cup {a}
            BY <1>1 DEF GivenUp, Exists
        <3>5. \A b \in GivenUp(t)' : b \in Attempts /\ Noted(b)
            BY <1>1, <1>2, <1>6, <3>1, <3>4 DEF LoopOK, GivenUp
        <3>6. LoopOK(t)'
            BY <1>1, <1>6, <2>3, <3>2, <3>3, <3>5 DEF LoopOK, Noted, Exists
        <3>7. DispatchesLess
            BY <1>7, <2>3, CancelsAreNone, DispatchesFrame
        <3>8. req'[t].pc # "dispatch" /\ \A u \in Tasks \ {t} : req'[u] = req[u] /\ resp'[u] = resp[u]
            BY <2>3, <3>2, <3>3
        <3> QED
            BY <1>1, <2>2, <3>6, <3>7, <3>8, MoveHist
    <2>4. CASE /\ Finish(t, IF event = "report_completed" THEN "ok" ELSE "error")
               /\ SendCancels({a}) \/ UNCHANGED down
        <3> DEFINE answer == IF event = "report_completed" THEN "ok" ELSE "error"
        <3>1. Finish(t, answer) /\ answer # "none"
            BY <2>4
        <3>2. answer = "ok" => Current(t) \in charged
            BY <1>5 DEF TrueEvent
        <3> HIDE DEF answer
        <3>3. /\ LoopOK(t)' /\ req'[t].pc = "done"
              /\ \A u \in Tasks \ {t} : req'[u] = req[u] /\ resp'[u] = resp[u]
            BY <1>1, <3>1, <3>2, FinishLoop
        <3>4. DispatchesLess
            BY <1>7, <2>4, CancelsAreNone, DispatchesFrame
        <3> QED
            BY <1>1, <2>2, <3>3, <3>4, MoveHist
    <2>5. CASE event = "token" /\ UNCHANGED <<req, resp, down>>
        BY <1>1, <2>2, <2>5, QuietHist, SaidFrame, ExecsFrame, AttemptsFrame, PendingFrame,
           PushersFrame, HeadsFrame, DispatchersFrame, DispatchesFrame
    <2> QED
        BY <1>8, <2>3, <2>4, <2>5 DEF TakeEvent
<1>9. CASE events' = [events EXCEPT ![a] = Tail(@)] /\ UNCHANGED <<req, resp, down>>
    <2>1. EventsLess
        <3> SUFFICES ASSUME NEW b \in Attempts, NEW i \in DOMAIN events'[b]
                     PROVE \E j \in DOMAIN events[b] : events'[b][i] = events[b][j]
            BY DEF EventsLess
        <3>1. CASE b = a
            <4> DEFINE q == events[b]
            <4>1. q \in Seq(StreamEvents) /\ q # <<>> /\ events'[b] = Tail(q)
                BY <1>1, <1>2, <1>3, <1>9, <3>1
            <4> HIDE DEF q
            <4>2. i + 1 \in DOMAIN q /\ Tail(q)[i] = q[i + 1]
                BY <4>1
            <4> QED
                BY <4>1, <4>2 DEF q
        <3>2. CASE b # a
            BY <1>3, <1>9, <3>2
        <3> QED
            BY <3>1, <3>2
    <2> QED
        BY <1>1, <1>9, <2>1, QuietHist, SaidFrame, ExecsFrame, AttemptsFrame, PendingFrame,
           PushersFrame, HeadsFrame, DispatchersFrame, DispatchesFrame
<1> QED
    BY <1>8, <1>9 DEF TakeEvent

\* reserveAttemptInDB makes an attempt that nobody has heard of, on a slot that
\* no other attempt of the task has used.
LEMMA ReservedHist ==
    ASSUME IndInv, History, NEW t \in Tasks, NEW s \in Slots, s = req[t].slot, req[t].pc = "reserve",
           NEW a, a = <<t, req[t].n + 1>>,
           attempt' = [attempt EXCEPT ![a] = [status |-> "running", slot |-> s, first |-> FALSE]],
           req' = [req EXCEPT ![t] = [req[t] EXCEPT !.pc = "dispatch", !.n = req[t].n + 1]],
           UNCHANGED <<failedSlots, reports, charged, exec, up, down, events, pending, reader, resp>>
    PROVE History'
<1>1. req[t] \in RequestRecord /\ req[t].n \in Nat /\ req[t].n < MaxAttempts /\ LoopOK(t)
    BY BoundsAssumption DEF IndInv, TypeOK, RequestTypeOK, RequestRecord, Bookkeeping, RequestsNamed,
                            History, LoopKeepsOff
<1>2. a \in Attempts /\ TaskOf(a) = t /\ a[2] = req[t].n + 1
    BY <1>1, BoundsAssumption DEF Attempts, TaskOf
<1>3. ~Exists(a)
    BY <1>1, <1>2 DEF IndInv, Bookkeeping, AttemptsNumbered
<1> DEFINE r == [req[t] EXCEPT !.pc = "dispatch", !.n = req[t].n + 1]
<1>4. r.pc = "dispatch" /\ r.n = req[t].n + 1 /\ req' = [req EXCEPT ![t] = r]
    BY <1>1 DEF RequestRecord
<1> HIDE DEF r
<1>5. req'[t] = r /\ Current(t)' = a /\ \A u \in Tasks \ {t} : req'[u] = req[u]
    BY <1>4 DEF IndInv, TypeOK, RequestTypeOK, Current
<1>6. /\ attempt'[a] = [status |-> "running", slot |-> s, first |-> FALSE]
      /\ \A b \in Attempts \ {a} : attempt'[b] = attempt[b]
    BY <1>2 DEF IndInv, TypeOK, DbTypeOK
<1>7. /\ Exists(a)' /\ attempt'[a].slot = s
      /\ \A b \in Attempts \ {a} : (Exists(b)' <=> Exists(b)) /\ attempt'[b].slot = attempt[b].slot
    BY <1>6 DEF Exists
<1>8. OutputsKept
    BY <1>6 DEF OutputsKept
<1>9. NotesKept
    BY <1>3, <1>7 DEF NotesKept, Noted
<1>10. \A n \in Nodes, e \in Sessions : \A i \in DOMAIN down[n][e] : ~ExecutesAt(down[n][e], i, a)
    <2> SUFFICES ASSUME NEW n \in Nodes, NEW e \in Sessions, NEW i \in DOMAIN down[n][e],
                        a \in down[n][e][i].atts
                 PROVE FALSE
        BY DEF ExecutesAt
    <2>1. down[n][e] \in Seq(DownMessageOn(n))
        BY DEF IndInv, Bookkeeping, MessagesNamed
    <2>2. down[n][e][i] \in DownMessageOn(n)
        BY <2>1
    <2> QED
        BY <1>3, <2>2 DEF DownMessageOn, AttemptsOn
<1>11. exec[a].pc = "none"
    BY <1>2, <1>3 DEF IndInv, Bookkeeping, ExecutionsNamed
<1>12. DispatchedOnce'
    <2>1. \A u \in Tasks : req'[u].pc = "dispatch" =>
             /\ exec[Current(u)'].pc = "none"
             /\ \A n \in Nodes, e \in Sessions : \A i \in DOMAIN down[n][e] :
                   ~ExecutesAt(down[n][e], i, Current(u)')
        <3> SUFFICES ASSUME NEW u \in Tasks, req'[u].pc = "dispatch"
                     PROVE  /\ exec[Current(u)'].pc = "none"
                            /\ \A n \in Nodes, e \in Sessions : \A i \in DOMAIN down[n][e] :
                                  ~ExecutesAt(down[n][e], i, Current(u)')
            OBVIOUS
        <3>1. CASE u = t
            BY <1>5, <1>10, <1>11, <3>1
        <3>2. CASE u # t
            <4>1. req[u].pc = "dispatch" /\ Current(u)' = Current(u)
                BY <1>5, <3>2 DEF Current
            <4> QED
                BY <4>1 DEF History, DispatchedOnce
        <3> QED
            BY <3>1, <3>2
    <2> QED
        BY <2>1 DEF History, DispatchedOnce
<1>13. \A b \in Attempts : TaskOf(b) = t /\ Exists(b) => Noted(b) /\ attempt[b].slot # s
    BY <1>1 DEF LoopOK, GivenUp
<1>14. LoopOK(t)'
    <2>1. GivenUp(t)' = {b \in Attempts : TaskOf(b) = t /\ Exists(b)}
        BY <1>3, <1>4, <1>5, <1>7 DEF GivenUp
    <2>2. \A b \in GivenUp(t)' : Noted(b)'
        BY <1>9, <1>13, <2>1 DEF NotesKept
    <2> QED
        BY <1>1, <1>4, <1>5, <2>2 DEF LoopOK
<1>15. ASSUME NEW u \in Tasks, u # t PROVE LoopOK(u)'
    <2>1. \A b \in Attempts : TaskOf(b) = u => (Exists(b)' <=> Exists(b)) /\ attempt'[b].slot = attempt[b].slot
        BY <1>2, <1>7, <1>15
    <2>2. req'[u] = req[u] /\ resp'[u] = resp[u] /\ charged \subseteq charged'
        BY <1>5, <1>15
    <2> QED
        BY <1>9, <2>1, <2>2, LoopFrame DEF History, LoopKeepsOff
<1>16. ExcludeFailedSlots'
    <2> SUFFICES ASSUME NEW b \in Attempts, NEW c \in Attempts, b # c, TaskOf(b) = TaskOf(c),
                        Exists(b)', Exists(c)'
                 PROVE attempt'[b].slot # attempt'[c].slot
        BY DEF ExcludeFailedSlots, TaskOf
    <2>1. CASE b = a
        BY <1>2, <1>7, <1>13, <2>1
    <2>2. CASE c = a
        BY <1>2, <1>7, <1>13, <2>2
    <2>3. CASE b # a /\ c # a
        BY <1>7, <2>3 DEF History, ExcludeFailedSlots
    <2> QED
        BY <2>1, <2>2, <2>3
<1>17. SaidLess /\ ExecsKept /\ EventsLess /\ PendingLess /\ PushersKept
    BY SaidFrame, ExecsFrame, EventsFrame, PendingFrame, PushersFrame, HeadsFrame
<1>18. ReportedOnce' /\ OutputKnown'
    BY <1>8, <1>17, ReportedFrame, OutputFrame DEF History, ExecsKept
<1>19. charged \subseteq charged' /\ reports \subseteq reports'
    OBVIOUS
<1>20. RetriesNoted' /\ ChannelsTrue' /\ ClosersTrue' /\ ReadersTrue'
    BY <1>9, <1>17, <1>19, RetriesFrame, ChannelsFrame, ClosersFrame, ReadersTrueFrame DEF History, EventsTrue
<1>21. LoopKeepsOff'
    BY <1>14, <1>15 DEF LoopKeepsOff
<1> QED
    BY <1>12, <1>16, <1>18, <1>20, <1>21 DEF History, EventsTrue

LEMMA ReserveAttemptHist ==
    ASSUME IndInv, History, NEW t \in Tasks, ReserveAttempt(t) PROVE History'
<1> DEFINE s == req[t].slot
           a == <<t, req[t].n + 1>>
<1>1. /\ req[t].pc = "reserve"
      /\ UNCHANGED <<failedSlots, reports, charged, exec, up, events, pending, reader>>
    BY DEF ReserveAttempt, sessVars, workerVars
<1>2. s \in Slots /\ req[t] \in RequestRecord /\ LoopOK(t)
    BY <1>1 DEF IndInv, Bookkeeping, RequestsNamed, TypeOK, RequestTypeOK, History, LoopKeepsOff
<1>3. CASE /\ attempt' = [attempt EXCEPT ![a] = [status |-> "running", slot |-> s, first |-> FALSE]]
           /\ req' = [req EXCEPT ![t] = [req[t] EXCEPT !.pc = "dispatch", !.n = req[t].n + 1]]
           /\ UNCHANGED <<resp, down>>
    BY <1>1, <1>2, <1>3, ReservedHist
<1>4. CASE /\ req' = [req EXCEPT ![t] = [req[t] EXCEPT !.pc = "start", !.slot = NoSlot, !.sess = 0]]
           /\ UNCHANGED <<attempt, resp, down>>
    <2> DEFINE r == [req[t] EXCEPT !.pc = "start", !.slot = NoSlot, !.sess = 0]
    <2>1. r.pc = "start" /\ r.n = req[t].n /\ req' = [req EXCEPT ![t] = r]
        BY <1>2, <1>4 DEF RequestRecord
    <2> HIDE DEF r
    <2>2. req'[t] = r /\ Current(t)' = Current(t) /\ \A u \in Tasks \ {t} : req'[u] = req[u]
        BY <2>1, RequestRecordMoves
    <2>3. GivenUp(t)' = GivenUp(t) /\ \A b \in GivenUp(t) : b \in Attempts
        BY <1>1, <1>4, <2>1, <2>2 DEF GivenUp, Exists
    <2>4. LoopOK(t)'
        BY <1>1, <1>2, <1>4, <2>1, <2>2, <2>3 DEF LoopOK, Noted, Exists
    <2>5. req'[t].pc # "dispatch" /\ \A u \in Tasks \ {t} : req'[u] = req[u] /\ resp'[u] = resp[u]
        BY <1>4, <2>1, <2>2
    <2> QED
        BY <1>1, <1>4, <2>4, <2>5, MoveHist, DispatchesFrame, EventsFrame
<1>5. CASE CancelTask(t, {}) /\ Finish(t, "cancelled") /\ UNCHANGED attempt
    <2>1. Running(t) \cup {} \in SUBSET Attempts
        BY DEF Running
    <2>2. DispatchesLess
        BY <1>5, <2>1, CancelsAreNone DEF CancelTask
    <2>3. /\ LoopOK(t)' /\ req'[t].pc = "done"
          /\ \A u \in Tasks \ {t} : req'[u] = req[u] /\ resp'[u] = resp[u]
        BY <1>1, <1>5, FinishLoop
    <2> QED
        BY <1>1, <1>5, <2>2, <2>3, MoveHist, EventsFrame
<1> QED
    BY <1>3, <1>4, <1>5 DEF ReserveAttempt

\* The message that dispatches attempt a is appended to one queue.
LEMMA DispatchAppended ==
    ASSUME IndInv, NEW n \in Nodes, NEW e \in Sessions, NEW a,
           down' = [down EXCEPT ![n][e] = Append(@, [kind |-> "execute_task", atts |-> {a}])],
           NEW m \in Nodes, NEW f \in Sessions, NEW b, NEW i \in DOMAIN down'[m][f],
           ExecutesAt(down'[m][f], i, b)
    PROVE \/ i \in DOMAIN down[m][f] /\ ExecutesAt(down[m][f], i, b)
          \/ b = a /\ m = n /\ f = e /\ i = Len(down[n][e]) + 1
<1> DEFINE x == [kind |-> "execute_task", atts |-> {a}]
<1>1. down \in [Nodes -> [Sessions -> Seq(DownMessage)]]
    BY DEF IndInv, TypeOK, NetTypeOK
<1>2. CASE m = n /\ f = e
    <2> DEFINE q == down[n][e]
    <2>1. q \in Seq(DownMessage) /\ down'[m][f] = Append(q, x)
        BY <1>1, <1>2
    <2> HIDE DEF q, x
    <2>2. CASE i = Len(q) + 1
        <3>1. down'[m][f][i] = x
            BY <2>1, <2>2
        <3>2. b \in x.atts
            BY <3>1 DEF ExecutesAt
        <3> QED
            BY <1>2, <2>2, <3>2 DEF q, x
    <2>3. CASE i # Len(q) + 1
        <3>1. i \in DOMAIN q /\ down'[m][f][i] = q[i]
            BY <2>1, <2>3
        <3> QED
            BY <1>2, <3>1 DEF ExecutesAt, q
    <2> QED
        BY <2>2, <2>3
<1>3. CASE ~(m = n /\ f = e)
    <2>1. down'[m][f] = down[m][f]
        BY <1>1, <1>3
    <2> QED
        BY <2>1
<1> QED
    BY <1>2, <1>3

\* dispatchAttempt sends the attempt for the first time, or marks it failed.
LEMMA DispatchAttemptHist ==
    ASSUME IndInv, History, NEW t \in Tasks, DispatchAttempt(t) PROVE History'
<1> DEFINE a == Current(t)
           n == NodeOf[req[t].slot]
           e == req[t].sess
<1>1. /\ req[t].pc = "dispatch"
      /\ UNCHANGED <<reports, charged, exec, up, events, pending, reader>>
    BY DEF DispatchAttempt, sessVars, workerVars
<1>2. /\ a \in Attempts /\ TaskOf(a) = t /\ Exists(a) /\ attempt[a] \in AttemptRecord
      /\ n \in Nodes /\ e \in Sessions
    BY <1>1, CurrentAttempt, ConstantsAssumption DEF IndInv, Bookkeeping, RequestsNamed, TypeOK, DbTypeOK
<1>3. req[t] \in RequestRecord /\ LoopOK(t)
    BY DEF IndInv, TypeOK, RequestTypeOK, History, LoopKeepsOff
<1>4. /\ exec[a].pc = "none"
      /\ \A m \in Nodes, f \in Sessions : \A i \in DOMAIN down[m][f] : ~ExecutesAt(down[m][f], i, a)
    BY <1>1 DEF History, DispatchedOnce
<1>5. CASE req' = [req EXCEPT ![t].pc = "wait"] /\ UNCHANGED <<failedSlots, attempt, resp>>
    <2> DEFINE r == [req[t] EXCEPT !.pc = "wait"]
    <2>1. r.pc = "wait" /\ r.n = req[t].n /\ req' = [req EXCEPT ![t] = r]
        BY <1>3, <1>5 DEF RequestRecord
    <2> HIDE DEF r
    <2>2. req'[t] = r /\ Current(t)' = Current(t) /\ \A u \in Tasks \ {t} : req'[u] = req[u]
        BY <2>1, RequestRecordMoves
    <2>3. GivenUp(t)' = GivenUp(t) /\ \A b \in GivenUp(t) : b \in Attempts
        BY <1>1, <1>5, <2>1, <2>2 DEF GivenUp, Exists
    <2>4. LoopOK(t)'
        BY <1>1, <1>3, <1>5, <2>1, <2>2, <2>3 DEF LoopOK, Noted, Exists
    <2>5. req'[t].pc # "dispatch" /\ \A u \in Tasks \ {t} : req'[u] = req[u] /\ resp'[u] = resp[u]
        BY <1>5, <2>1, <2>2
    <2>6. CASE UNCHANGED down
        BY <1>1, <1>5, <2>4, <2>5, <2>6, MoveHist, DispatchesFrame, EventsFrame
    <2>7. CASE down' = [down EXCEPT ![n][e] = Append(@, [kind |-> "execute_task", atts |-> {a}])]
        <3>1. ASSUME NEW m \in Nodes, NEW f \in Sessions, NEW b \in Attempts, NEW i \in DOMAIN down'[m][f],
                     ExecutesAt(down'[m][f], i, b)
              PROVE \/ b # a /\ i \in DOMAIN down[m][f] /\ ExecutesAt(down[m][f], i, b)
                    \/ b = a /\ m = n /\ f = e /\ i = Len(down[n][e]) + 1
            <4> HIDE DEF a, n, e
            <4>1. \/ i \in DOMAIN down[m][f] /\ ExecutesAt(down[m][f], i, b)
                  \/ b = a /\ m = n /\ f = e /\ i = Len(down[n][e]) + 1
                BY <1>2, <2>7, <3>1, DispatchAppended
            <4> QED
                BY <1>4, <4>1
        <3> HIDE DEF a, n, e
        <3>2. ASSUME NEW m \in Nodes, NEW f \in Sessions, NEW b \in Attempts, NEW i \in DOMAIN down'[m][f],
                     ExecutesAt(down'[m][f], i, b)
              PROVE  /\ exec'[b].pc = "none"
                     /\ \A m2 \in Nodes, f2 \in Sessions : \A j \in DOMAIN down'[m2][f2] :
                            ExecutesAt(down'[m2][f2], j, b) => m2 = m /\ f2 = f /\ j = i
            <4>1. exec[b].pc = "none"
                BY <1>4, <3>1, <3>2 DEF History, DispatchedOnce
            <4>2. ASSUME NEW m2 \in Nodes, NEW f2 \in Sessions, NEW j \in DOMAIN down'[m2][f2],
                         ExecutesAt(down'[m2][f2], j, b)
                  PROVE m2 = m /\ f2 = f /\ j = i
                <5>1. CASE b = a
                    BY <3>1, <3>2, <4>2, <5>1
                <5>2. CASE b # a
                    <6>1. i \in DOMAIN down[m][f] /\ ExecutesAt(down[m][f], i, b)
                        BY <3>1, <3>2, <5>2
                    <6>2. j \in DOMAIN down[m2][f2] /\ ExecutesAt(down[m2][f2], j, b)
                        BY <3>1, <4>2, <5>2
                    <6> QED
                        BY <6>1, <6>2 DEF History, DispatchedOnce
                <5> QED
                    BY <5>1, <5>2
            <4> QED
                BY <1>1, <4>1, <4>2
        <3>3. ASSUME NEW u \in Tasks, req'[u].pc = "dispatch"
              PROVE  /\ exec'[Current(u)'].pc = "none"
                     /\ \A m \in Nodes, f \in Sessions : \A i \in DOMAIN down'[m][f] :
                           ~ExecutesAt(down'[m][f], i, Current(u)')
            <4>1. u # t /\ req[u].pc = "dispatch" /\ Current(u)' = Current(u)
                BY <2>5, <3>3 DEF Current
            <4>2. Current(u) \in Attempts /\ TaskOf(Current(u)) = u
                BY <4>1, CurrentAttempt
            <4>3. Current(u) # a
                BY <1>2, <4>1, <4>2
            <4>4. /\ exec[Current(u)].pc = "none"
                  /\ \A m \in Nodes, f \in Sessions : \A i \in DOMAIN down[m][f] :
                        ~ExecutesAt(down[m][f], i, Current(u))
                BY <4>1 DEF History, DispatchedOnce
            <4> QED
                BY <1>1, <3>1, <4>1, <4>2, <4>3, <4>4
        <3>4. DispatchedOnce'
            BY <3>2, <3>3 DEF DispatchedOnce, ExecutesAt
        <3> QED
            BY <1>1, <1>5, <2>4, <2>5, <3>4, AttemptsFrame, EventsFrame, MovedHist
    <2> QED
        BY <1>5, <2>6, <2>7 DEF DispatchAttempt
<1>6. CASE MarkAttemptFailed(a) /\ Finish(t, "error") /\ UNCHANGED down
    <2> DEFINE r == [attempt[a] EXCEPT !.status = "failed", !.first = FALSE]
    <2>1. /\ attempt' = [attempt EXCEPT ![a] = r]
          /\ failedSlots' = [failedSlots EXCEPT ![t] = failedSlots[t] \cup {attempt[a].slot}]
        BY <1>2, <1>6 DEF MarkAttemptFailed
    <2>2. r.status = "failed" /\ r.slot = attempt[a].slot /\ ~r.first
        BY <1>2 DEF AttemptRecord
    <2> HIDE DEF r, a, n, e
    <2>3. SlotsKept /\ OutputsKept
        BY <1>2, <2>1, <2>2, OneAttemptKept
    <2>4. \A u \in Tasks : failedSlots[u] \subseteq failedSlots'[u]
        BY <2>1 DEF IndInv, TypeOK, DbTypeOK
    <2>5. NotesKept
        BY <2>3, <2>4, NotesFrame
    <2>6. /\ LoopOK(t)' /\ req'[t].pc = "done"
          /\ \A u \in Tasks \ {t} : req'[u] = req[u] /\ resp'[u] = resp[u]
        BY <1>1, <1>6, FinishLoop
    <2>7. NoneStarts /\ DispatchersKept
        BY <1>1, <2>6 DEF NoneStarts, DispatchersKept
    <2>8. DispatchedOnce'
        BY <1>6, <2>7, DispatchedFrame, DispatchesFrame DEF History
    <2> QED
        BY <1>1, <2>3, <2>5, <2>6, <2>8, EventsFrame, MovedHist
<1> QED
    BY <1>5, <1>6 DEF DispatchAttempt

-----------------------------------------------------------------------------
(* The invariant holds *)

\* Nothing has happened at the start.
LEMMA InitHist == Init => History
<1> SUFFICES ASSUME Init PROVE History
    OBVIOUS
<1>1. DispatchedOnce
    BY DEF Init, DispatchedOnce, ExecutesAt
<1>2. \A a, k : ~Said(a, k)
    BY DEF Init, Said, SaidIn
<1>3. ReportedOnce /\ OutputKnown
    BY <1>2 DEF Init, ReportedOnce, OutputKnown
<1>4. EventsTrue
    BY DEF Init, EventsTrue, RetriesNoted, ChannelsTrue, ClosersTrue, ReadersTrue
<1>5. \A a \in Attempts : ~Exists(a)
    BY DEF Init, Exists
<1>6. LoopKeepsOff
    BY <1>5 DEF Init, LoopKeepsOff, LoopOK, GivenUp
<1>7. ExcludeFailedSlots
    BY <1>5 DEF ExcludeFailedSlots
<1> QED
    BY <1>1, <1>3, <1>4, <1>6, <1>7 DEF History

\* One case per action.
LEMMA NextHist == IndInv /\ History /\ [Next]_vars => History'
<1> SUFFICES ASSUME IndInv, History, [Next]_vars PROVE History'
    OBVIOUS
<1>1. ASSUME NEW t \in Tasks, ClientStep(t) PROVE History'
    BY <1>1, SubmitHist, ClientGoneHist, CancelJobHist DEF ClientStep
<1>2. ASSUME NEW t \in Tasks, RequestStep(t) PROVE History'
    BY <1>2, SelectSlotHist, EndedHist, ReserveAttemptHist, DispatchAttemptHist, TakeEventHist
       DEF RequestStep
<1>3. ASSUME NEW n \in Nodes, NEW e \in Sessions, HandlerStep(n, e) PROVE History'
    BY <1>3, RefuseUnregisteredHist, GreetedHist, ReplanHist, HandleAttemptStartedHist, HandleTokenHist,
       HandleAttemptFailedHist, HandleComputeReportHist, PushEventHist DEF HandlerStep
<1>4. ASSUME NEW n \in Nodes, NEW e \in Sessions,
             \/ CloserStep(n, e) \/ CloseSession(n, e) \/ ReaderStop(n, e) \/ HandleHeartbeat(n, e)
      PROVE History'
    BY <1>4, FailRunningAttemptsHist, PublishFailureHist, SessionHist, ReaderStopHist DEF CloserStep
<1>5. ASSUME NEW n \in Nodes,
             \/ MarkOffline(n) \/ Disconnect(n) \/ Connect(n) \/ Greet(n) \/ Receive(n)
      PROVE History'
    <2>1. 1 \in Sessions
        BY BoundsAssumption DEF Sessions
    <2> QED
        BY <1>5, <2>1, SessionHist, DisconnectHist, ConnectHist, GreetHist, ReceiveHist
<1>6. ASSUME NEW a \in Attempts, ExecStep(a) PROVE History'
    BY <1>6, QuietExecHist, RejectHist, ServeHist, SendTokenHist, CompleteHist, ReportErrorHist, RecoverHist
       DEF ExecStep
<1>7. ASSUME NEW s \in Slots, ClearQuarantine(s) \/ Assign(s) \/ Assigned(s) PROVE History'
    BY <1>7, OperatorHist, AssignHist
<1>8. ASSUME UNCHANGED vars PROVE History'
    <2>1. UNCHANGED <<attempt, failedSlots, reports, charged, events, req, resp, exec, up, down, pending, reader>>
        BY <1>8 DEF vars, db, sessVars, reqVars, netVars, workerVars
    <2> QED
        BY <2>1, AsideHist, DispatchesFrame, PendingFrame, PushersFrame, HeadsFrame
<1> QED
    BY <1>1, <1>2, <1>3, <1>4, <1>5, <1>6, <1>7, <1>8 DEF Next

LEMMA HistoryHolds == Spec => []History
    BY InitHist, NextHist, Invariance, PTL DEF Spec

\* No two attempts of a task run on one slot, whatever is lost, late or retried:
\* startAttempt keeps off every slot that failed the task.
THEOREM FailedSlotsExcluded == Spec => []ExcludeFailedSlots
<1>1. History => ExcludeFailedSlots
    BY DEF History
<1> QED
    BY <1>1, HistoryHolds, PTL

\* A client that was told "ok" has been charged for the attempt it was told of:
\* the ledger transaction of handleComputeReport precedes the event.
THEOREM AnswersAreCharged == Spec => []AnsweredIsCharged
<1>1. History => AnsweredIsCharged
    BY DEF History, LoopKeepsOff, LoopOK, AnsweredIsCharged
<1> QED
    BY <1>1, HistoryHolds, PTL


-----------------------------------------------------------------------------
(* The refinement *)

\* Where the client sees request t.
Stage(t) == CASE req[t].pc = "none" -> "new" [] req[t].pc = "done" -> "closed" [] OTHER -> "open"

\* The numbers of its attempts that were charged.
Bills(t) == {a[2] : a \in {b \in charged : TaskOf(b) = t}}

Stages == [t \in Tasks |-> Stage(t)]
Tries == [t \in Tasks |-> req[t].n]
Billed == [t \in Tasks |-> Bills(t)]

LifeVars == <<resp, Stages, Tries, Billed>>

LEMMA LifeVarsAre == Life!vars = LifeVars /\ Life!vars' = LifeVars'
    BY DEF Life!vars, LifeVars, Stages, Tries, Billed, Stage, Bills

\* A step that shows the client nothing.
LEMMA LifeStutters ==
    ASSUME UNCHANGED <<resp, charged>>, \A t \in Tasks : req'[t].n = req[t].n /\ Stage(t)' = Stage(t)
    PROVE UNCHANGED Life!vars
<1>1. UNCHANGED Billed
    BY DEF Billed, Bills
<1>2. UNCHANGED Stages /\ UNCHANGED Tries
    BY DEF Stages, Tries
<1> QED
    BY <1>1, <1>2, LifeVarsAre DEF LifeVars

LEMMA LifeStuttersReq ==
    ASSUME UNCHANGED <<resp, charged, req>> PROVE UNCHANGED Life!vars
<1>1. \A t \in Tasks : req'[t].n = req[t].n /\ Stage(t)' = Stage(t)
    BY DEF Stage
<1> QED
    BY <1>1, LifeStutters

\* Request t moves from one stage to another; the others stay where they are.
LEMMA StageMoves ==
    ASSUME NEW t \in Tasks, \A u \in Tasks \ {t} : req'[u] = req[u]
    PROVE Stages' = [Stages EXCEPT ![t] = Stage(t)']
<1>1. \A u \in Tasks \ {t} : Stage(u)' = Stage(u)
    BY DEF Stage
<1> QED
    BY <1>1 DEF Stages

LEMMA TriesStay ==
    ASSUME NEW t \in Tasks, \A u \in Tasks \ {t} : req'[u] = req[u], req'[t].n = req[t].n
    PROVE UNCHANGED Tries
    BY DEF Tries

\* The answer closes the request.
LEMMA CloseMaps ==
    ASSUME IndInv, NEW t \in Tasks, NEW answer, Finish(t, answer), UNCHANGED charged
    PROVE Life!Close(t, answer)
<1>1. req[t] \in RequestRecord /\ req \in [Tasks -> RequestRecord]
    BY DEF IndInv, TypeOK, RequestTypeOK
<1>2. req'[t] = [req[t] EXCEPT !.pc = "done", !.slot = NoSlot, !.sess = 0]
    BY <1>1 DEF Finish
<1>3. req'[t].pc = "done" /\ req'[t].n = req[t].n
    BY <1>1, <1>2 DEF RequestRecord
<1>4. \A u \in Tasks \ {t} : req'[u] = req[u]
    BY <1>1 DEF Finish
<1>5. Stage(t)' = "closed"
    BY <1>3 DEF Stage
<1>6. Stages' = [Stages EXCEPT ![t] = "closed"] /\ UNCHANGED Tries
    BY <1>3, <1>4, <1>5, StageMoves, TriesStay
<1>7. UNCHANGED Billed
    BY DEF Billed, Bills
<1>8. resp' = [resp EXCEPT ![t] = answer]
    BY DEF Finish
<1> QED
    BY <1>6, <1>7, <1>8 DEF Life!Close, Stages, Stage, Tries, Billed, Bills

\* Giving up is an answer to an open request.
LEMMA GiveUpMaps ==
    ASSUME IndInv, NEW t \in Tasks, NEW answer \in {"error", "cancelled"}, Finish(t, answer), UNCHANGED charged,
           req[t].pc \notin {"none", "done"}
    PROVE Life!Next
<1>1. Life!Close(t, answer)
    BY CloseMaps
<1>2. Stage(t) = "open" /\ Stages[t] = "open"
    BY DEF Stage, Stages
<1>3. Life!GiveUp(t)
    BY <1>1, <1>2 DEF Life!GiveUp, Stages, Stage
<1> QED
    BY <1>3 DEF Life!Next


\* acquireQueue and createChatTask accept the request or refuse it.
LEMMA SubmitMaps ==
    ASSUME IndInv, NEW t \in Tasks, Submit(t) PROVE Life!Next
<1>1. req[t].pc = "none" /\ UNCHANGED charged
    BY DEF Submit
<1>2. Stages[t] = "new"
    BY <1>1 DEF Stage, Stages
<1>3. CASE Finish(t, "busy")
    <2>1. Life!Close(t, "busy")
        BY <1>1, <1>3, CloseMaps
    <2>2. Life!Refuse(t)
        BY <1>2, <2>1 DEF Life!Refuse, Stages, Stage
    <2> QED
        BY <2>2 DEF Life!Next
<1>4. CASE req' = [req EXCEPT ![t].pc = "start"] /\ UNCHANGED resp
    <2>1. req[t] \in RequestRecord /\ req \in [Tasks -> RequestRecord]
        BY DEF IndInv, TypeOK, RequestTypeOK
    <2>2. req'[t].pc = "start" /\ req'[t].n = req[t].n /\ \A u \in Tasks \ {t} : req'[u] = req[u]
        BY <1>4, <2>1 DEF RequestRecord
    <2>3. Stage(t)' = "open"
        BY <2>2 DEF Stage
    <2>4. Stages' = [Stages EXCEPT ![t] = "open"] /\ UNCHANGED Tries
        BY <2>2, <2>3, StageMoves, TriesStay
    <2>5. UNCHANGED Billed
        BY <1>1 DEF Billed, Bills
    <2>6. Life!Accept(t)
        BY <1>2, <1>4, <2>4, <2>5 DEF Life!Accept, Stages, Stage, Tries, Billed, Bills
    <2> QED
        BY <2>6 DEF Life!Next
<1> QED
    BY <1>3, <1>4 DEF Submit

\* A request that moves within its loop shows the client nothing.
LEMMA MoveMaps ==
    ASSUME IndInv, NEW t \in Tasks, NEW r, r.n = req[t].n, r.pc \notin {"none", "done"},
           req' = [req EXCEPT ![t] = r], req[t].pc \notin {"none", "done"}, UNCHANGED <<resp, charged>>
    PROVE UNCHANGED Life!vars
<1>1. req'[t] = r /\ \A u \in Tasks \ {t} : req'[u] = req[u]
    BY RequestRecordMoves
<1>2. Stage(t)' = "open" /\ Stage(t) = "open" /\ \A u \in Tasks \ {t} : Stage(u)' = Stage(u)
    BY <1>1 DEF Stage
<1>3. \A u \in Tasks : req'[u].n = req[u].n /\ Stage(u)' = Stage(u)
    BY <1>1, <1>2
<1> QED
    BY <1>3, LifeStutters

\* Reserving an attempt is one more try.
LEMMA TryMaps ==
    ASSUME IndInv, NEW t \in Tasks, req[t].pc = "reserve",
           req' = [req EXCEPT ![t] = [req[t] EXCEPT !.pc = "dispatch", !.n = req[t].n + 1]],
           UNCHANGED <<resp, charged>>
    PROVE Life!Next
<1>1. req[t] \in RequestRecord /\ req \in [Tasks -> RequestRecord]
    BY DEF IndInv, TypeOK, RequestTypeOK
<1>2. req'[t] = [req[t] EXCEPT !.pc = "dispatch", !.n = req[t].n + 1]
    BY <1>1
<1>3. req'[t].pc = "dispatch" /\ req'[t].n = req[t].n + 1
    BY <1>1, <1>2 DEF RequestRecord
<1>4. \A u \in Tasks \ {t} : req'[u] = req[u]
    BY <1>1
<1>5. Stage(t)' = "open" /\ Stage(t) = "open" /\ \A u \in Tasks \ {t} : Stage(u)' = Stage(u)
    BY <1>3, <1>4 DEF Stage
<1>6. UNCHANGED Stages /\ Stages[t] = "open"
    BY <1>5 DEF Stages
<1>7. Tries' = [Tries EXCEPT ![t] = Tries[t] + 1]
    <2>1. Tries[t] = req[t].n /\ DOMAIN Tries = Tasks /\ Tries' = [u \in Tasks |-> req'[u].n]
        BY DEF Tries
    <2>2. \A u \in Tasks : req'[u].n = IF u = t THEN Tries[t] + 1 ELSE Tries[u]
        BY <1>3, <1>4, <2>1 DEF Tries
    <2> DEFINE f == [u \in Tasks |-> IF u = t THEN Tries[t] + 1 ELSE Tries[u]]
    <2>3. Tries' = f
        BY <2>1, <2>2
    <2>4. [Tries EXCEPT ![t] = Tries[t] + 1] = f
        BY <2>1, Zenon
    <2> QED
        BY <2>3, <2>4
<1>8. UNCHANGED Billed
    BY DEF Billed, Bills
<1>9. Life!Try(t)
    BY <1>6, <1>7, <1>8 DEF Life!Try, Stages, Stage, Tries, Billed, Bills
<1> QED
    BY <1>9 DEF Life!Next

\* A completion taken from the channel was charged before it got there.
LEMMA TakeEventMaps ==
    ASSUME IndInv, History, NEW t \in Tasks, TakeEvent(t) PROVE [Life!Next]_(Life!vars)
<1> DEFINE a == Current(t)
           event == Head(events[a])
<1>1. req[t].pc = "wait" /\ events[a] # <<>> /\ UNCHANGED charged
    BY DEF TakeEvent, db
<1>2. a \in Attempts /\ TaskOf(a) = t
    BY <1>1, CurrentAttempt
<1>3. events \in [Attempts -> Seq(StreamEvents)]
    BY DEF IndInv, TypeOK, RequestTypeOK
<1>4. 1 \in DOMAIN events[a] /\ events[a][1] = event
    BY <1>1, <1>2, <1>3
<1>5. TrueEvent(a, event)
    BY <1>2, <1>4 DEF History, EventsTrue, ChannelsTrue
<1>6. CASE UNCHANGED <<req, resp>>
    BY <1>1, <1>6, LifeStuttersReq
<1>7. CASE /\ req' = [req EXCEPT ![t] = [req[t] EXCEPT !.pc = "start", !.slot = NoSlot, !.sess = 0]]
           /\ UNCHANGED resp
    <2> DEFINE r == [req[t] EXCEPT !.pc = "start", !.slot = NoSlot, !.sess = 0]
    <2>1. req[t] \in RequestRecord
        BY DEF IndInv, TypeOK, RequestTypeOK
    <2>2. r.pc = "start" /\ r.n = req[t].n /\ req' = [req EXCEPT ![t] = r]
        BY <1>7, <2>1 DEF RequestRecord
    <2> HIDE DEF r
    <2> QED
        BY <1>1, <1>7, <2>2, MoveMaps
<1>8. CASE Finish(t, IF event = "report_completed" THEN "ok" ELSE "error")
    <2>1. CASE event = "report_completed"
        <3>1. Finish(t, "ok") /\ a \in charged
            BY <1>5, <1>8, <2>1 DEF TrueEvent
        <3>2. Life!Close(t, "ok")
            BY <1>1, <3>1, CloseMaps
        <3>3. a[2] = Tries[t] /\ a[2] \in Bills(t)
            BY <1>2, <3>1 DEF Current, Tries, Bills
        <3>4. Stages[t] = "open" /\ Tries[t] \in Billed[t]
            BY <1>1, <3>3 DEF Stage, Stages, Billed
        <3>5. Life!Complete(t)
            BY <3>2, <3>4 DEF Life!Complete, Stages, Stage, Tries, Billed, Bills
        <3> QED
            BY <3>5 DEF Life!Next
    <2>2. CASE event # "report_completed"
        <3>1. Finish(t, "error")
            BY <1>8, <2>2
        <3> QED
            BY <1>1, <3>1, GiveUpMaps
    <2> QED
        BY <2>1, <2>2
<1> QED
    BY <1>6, <1>7, <1>8 DEF TakeEvent


\* The steps of the loop that end a request without an event, or go on with it.
LEMMA RequestMaps ==
    ASSUME IndInv, History, NEW t \in Tasks, RequestStep(t) PROVE [Life!Next]_(Life!vars)
<1>1. req[t] \in RequestRecord
    BY DEF IndInv, TypeOK, RequestTypeOK
<1>2. CASE NoCapacity(t) \/ StartCancelled(t) \/ ContextDone(t)
    <2>1. UNCHANGED charged /\ req[t].pc \notin {"none", "done"}
        BY <1>2 DEF NoCapacity, StartCancelled, ContextDone
    <2>2. PICK answer \in {"error", "cancelled"} : Finish(t, answer)
        BY <1>2 DEF NoCapacity, StartCancelled, ContextDone
    <2> QED
        BY <2>1, <2>2, GiveUpMaps
<1>3. CASE SelectSlot(t)
    <2>1. /\ req[t].pc = "start" /\ UNCHANGED <<resp, charged>>
          /\ \E s \in Slots : req' = [req EXCEPT ![t] =
                [req[t] EXCEPT !.pc = "reserve", !.slot = s, !.sess = session[NodeOf[s]]]]
        BY <1>3 DEF SelectSlot, db, Reachable
    <2>2. PICK s \in Slots : req' = [req EXCEPT ![t] =
                [req[t] EXCEPT !.pc = "reserve", !.slot = s, !.sess = session[NodeOf[s]]]]
        BY <2>1
    <2> DEFINE r == [req[t] EXCEPT !.pc = "reserve", !.slot = s, !.sess = session[NodeOf[s]]]
    <2>3. r.pc = "reserve" /\ r.n = req[t].n /\ req' = [req EXCEPT ![t] = r]
        BY <1>1, <2>2 DEF RequestRecord
    <2> HIDE DEF r
    <2> QED
        BY <2>1, <2>3, MoveMaps
<1>4. CASE ReserveAttempt(t)
    <2>1. req[t].pc = "reserve" /\ UNCHANGED charged
        BY <1>4 DEF ReserveAttempt
    <2>2. CASE /\ req' = [req EXCEPT ![t] = [req[t] EXCEPT !.pc = "dispatch", !.n = req[t].n + 1]]
               /\ UNCHANGED resp
        BY <2>1, <2>2, TryMaps
    <2>3. CASE /\ req' = [req EXCEPT ![t] = [req[t] EXCEPT !.pc = "start", !.slot = NoSlot, !.sess = 0]]
               /\ UNCHANGED resp
        <3> DEFINE r == [req[t] EXCEPT !.pc = "start", !.slot = NoSlot, !.sess = 0]
        <3>1. r.pc = "start" /\ r.n = req[t].n /\ req' = [req EXCEPT ![t] = r]
            BY <1>1, <2>3 DEF RequestRecord
        <3> HIDE DEF r
        <3> QED
            BY <2>1, <2>3, <3>1, MoveMaps
    <2>4. CASE Finish(t, "cancelled")
        BY <2>1, <2>4, GiveUpMaps
    <2> QED
        BY <1>4, <2>2, <2>3, <2>4 DEF ReserveAttempt
<1>5. CASE DispatchAttempt(t)
    <2>1. req[t].pc = "dispatch" /\ UNCHANGED charged
        BY <1>5 DEF DispatchAttempt
    <2>2. CASE req' = [req EXCEPT ![t].pc = "wait"] /\ UNCHANGED resp
        <3> DEFINE r == [req[t] EXCEPT !.pc = "wait"]
        <3>1. r.pc = "wait" /\ r.n = req[t].n /\ req' = [req EXCEPT ![t] = r]
            BY <1>1, <2>2 DEF RequestRecord
        <3> HIDE DEF r
        <3> QED
            BY <2>1, <2>2, <3>1, MoveMaps
    <2>3. CASE Finish(t, "error")
        BY <2>1, <2>3, GiveUpMaps
    <2> QED
        BY <1>5, <2>2, <2>3 DEF DispatchAttempt
<1> QED
    BY <1>2, <1>3, <1>4, <1>5, TakeEventMaps DEF RequestStep

\* A report of a completion is billed when it comes first.
LEMMA ReportMaps ==
    ASSUME IndInv, History, NEW n \in Nodes, NEW e \in Sessions, HandleComputeReport(n, e)
    PROVE [Life!Next]_(Life!vars)
<1> DEFINE k == Message(n, e).kind
<1>1. UNCHANGED <<req, resp>> /\ up[n][e] # <<>> /\ k \in Reports
    BY DEF HandleComputeReport, Receives, reqVars
<1>2. k \in {"started"} \cup StreamEvents
    BY <1>1 DEF StreamEvents
<1>3. PICK a \in Attempts : a = Message(n, e).att /\ Exists(a) /\ TaskOf(a) \in Tasks
    BY <1>1, <1>2, AttemptMessageNamed
<1>4. CASE UNCHANGED charged
    BY <1>1, <1>4, LifeStuttersReq
<1>5. CASE a \notin reports /\ charged' = charged \cup {a}
    <2> DEFINE t == TaskOf(a)
    <2>1. a = <<t, a[2]>> /\ a[2] \in 1..MaxAttempts /\ a[2] <= req[t].n /\ req[t].n \in Nat
        BY <1>3 DEF Attempts, TaskOf, IndInv, Bookkeeping, AttemptsNumbered, TypeOK, RequestTypeOK, RequestRecord
    <2>2. a[2] \in 1..Tries[t]
        BY <1>3, <2>1 DEF Tries
    <2>3. charged \subseteq Attempts /\ a \notin charged
        BY <1>5 DEF History, ReportedOnce, IndInv, TypeOK, DbTypeOK
    <2>4. a[2] \notin Bills(t)
        <3> SUFFICES ASSUME NEW b \in charged, TaskOf(b) = t, b[2] = a[2] PROVE FALSE
            BY DEF Bills
        <3>1. b = <<t, b[2]>>
            BY <2>3 DEF Attempts, TaskOf
        <3> QED
            BY <2>1, <2>3, <3>1
    <2>5. Bills(t)' = Bills(t) \cup {a[2]} /\ \A u \in Tasks \ {t} : Bills(u)' = Bills(u)
        BY <1>5 DEF Bills
    <2>6. Billed' = [Billed EXCEPT ![t] = Billed[t] \cup {a[2]}] /\ a[2] \notin Billed[t]
        BY <1>3, <2>4, <2>5 DEF Billed
    <2>7. UNCHANGED Stages /\ UNCHANGED Tries
        BY <1>1 DEF Stages, Stage, Tries
    <2>8. Life!Bill(t, a[2])
        BY <1>1, <2>2, <2>6, <2>7 DEF Life!Bill, Stages, Stage, Tries, Billed, Bills
    <2>9. \E i \in 1..Tries[t] : Life!Bill(t, i)
        BY <2>2, <2>8
    <2> QED
        BY <1>3, <2>9 DEF Life!Next, Tries
<1> QED
    BY <1>3, <1>4, <1>5 DEF HandleComputeReport, db

\* Every other step leaves requests, answers and charges alone, and is invisible.
LEMMA OthersAside ==
    ASSUME [Next]_vars,
           ~ \E t \in Tasks : Submit(t) \/ RequestStep(t),
           ~ \E n \in Nodes, e \in Sessions : HandleComputeReport(n, e)
    PROVE UNCHANGED <<resp, charged, req>>
<1>1. ASSUME NEW t \in Tasks, ClientGone(t) \/ CancelJob(t) PROVE UNCHANGED <<resp, charged, req>>
    BY <1>1 DEF ClientGone, CancelJob, db
<1>2. ASSUME NEW n \in Nodes, NEW e \in Sessions, HandlerStep(n, e), ~HandleComputeReport(n, e)
      PROVE UNCHANGED <<resp, charged, req>>
    BY <1>2 DEF HandlerStep, RefuseUnregistered, UpsertWorkerState, SwapSession, JoinClose, Replan, HandleSlotState,
       HandleAttemptStarted, HandleToken, HandleAttemptFailed, PushEvent, db, reqVars
<1>3. ASSUME NEW n \in Nodes, NEW e \in Sessions,
             CloserStep(n, e) \/ CloseSession(n, e) \/ ReaderStop(n, e) \/ HandleHeartbeat(n, e)
      PROVE UNCHANGED <<resp, charged, req>>
    BY <1>3 DEF CloserStep, FailRunningAttempts, PublishFailure, CloseSession, ReaderStop, HandleHeartbeat, db, reqVars
<1>4. ASSUME NEW n \in Nodes, MarkOffline(n) \/ Disconnect(n) \/ Connect(n) \/ Greet(n) \/ Receive(n)
      PROVE UNCHANGED <<resp, charged, req>>
    BY <1>4 DEF MarkOffline, Disconnect, Connect, Greet, Receive, db, reqVars
<1>5. ASSUME NEW a \in Attempts, ExecStep(a) PROVE UNCHANGED <<resp, charged, req>>
    BY <1>5 DEF ExecStep, Register, Admit, Reject, Serve, SendToken, Complete, RuntimeError, ReportError, Recover,
       Restarted, db, reqVars
<1>6. ASSUME NEW s \in Slots, ClearQuarantine(s) \/ Assign(s) \/ Assigned(s) PROVE UNCHANGED <<resp, charged, req>>
    BY <1>6 DEF ClearQuarantine, Assign, Assigned, db, reqVars
<1>7. ASSUME UNCHANGED vars PROVE UNCHANGED <<resp, charged, req>>
    BY <1>7 DEF vars, db, reqVars
<1> QED
    BY <1>1, <1>2, <1>3, <1>4, <1>5, <1>6, <1>7 DEF Next, ClientStep

LEMMA OthersStutter ==
    ASSUME [Next]_vars,
           ~ \E t \in Tasks : Submit(t) \/ RequestStep(t),
           ~ \E n \in Nodes, e \in Sessions : HandleComputeReport(n, e)
    PROVE UNCHANGED Life!vars
    BY OthersAside, LifeStuttersReq

LEMMA InitMaps == Init => Life!Init
<1> SUFFICES ASSUME Init PROVE Life!Init
    OBVIOUS
<1>1. /\ charged = {} /\ resp = [t \in Tasks |-> "none"]
      /\ \A t \in Tasks : req[t].pc = "none" /\ req[t].n = 0
    BY DEF Init
<1>2. Stages = [t \in Tasks |-> "new"] /\ Tries = [t \in Tasks |-> 0]
    BY <1>1 DEF Stages, Stage, Tries
<1>3. Billed = [t \in Tasks |-> {}]
    BY <1>1 DEF Billed, Bills
<1> QED
    BY <1>1, <1>2, <1>3 DEF Life!Init, Stages, Stage, Tries, Billed, Bills

\* Requests live as RequestLife promises, for any number of tasks, Workers, slots,
\* sessions and attempts: lost connections, late messages, retries and cancels show
\* in nothing but the number of tries, and every completion was billed.
THEOREM RequestsLiveAsPromised == Spec => LifeAsPromised
<1>1. ASSUME IndInv, History, [Next]_vars PROVE [Life!Next]_(Life!vars)
    <2>1. ASSUME NEW t \in Tasks, Submit(t) \/ RequestStep(t) PROVE [Life!Next]_(Life!vars)
        BY <1>1, <2>1, SubmitMaps, RequestMaps
    <2>2. ASSUME NEW n \in Nodes, NEW e \in Sessions, HandleComputeReport(n, e) PROVE [Life!Next]_(Life!vars)
        BY <1>1, <2>2, ReportMaps
    <2> QED
        BY <1>1, <2>1, <2>2, OthersStutter
<1> QED
    BY <1>1, InitMaps, Invariance, HistoryHolds, PTL DEF Spec, LifeAsPromised, Life!Spec

-----------------------------------------------------------------------------
(* While connections stay up *)

\* No connection breaks and no send buffer is full: the Reliable run.  When one does,
\* the Manager fails attempts that go on at their Worker, and what follows is not kept.
Steady == Flaky = {} /\ ~Overflow

\* The last words of an attempt.
Finals == Failures \cup Reports

\* Every node is on its first session, and requests go there.
LinksUp ==
    /\ \A n \in Nodes :
        /\ session[n] = 1 /\ wsess[n] = 1 /\ 1 \in registered[n] /\ conn[n][1] = "open"
        /\ \A e \in Sessions :
            /\ e # 1 => reader[n][e].pc = "off" /\ up[n][e] = <<>> /\ conn[n][e] = "none"
            /\ reader[n][e].pc # "join"
            /\ reader[n][e].pc = "swap" => Message(n, e).kind = "full_state"
    /\ \A t \in Tasks : req[t].pc \in {"reserve", "dispatch"} => req[t].sess = 1

\* An attempt that is over, and of which no start is on its way: it will not run again.
Settled(a) == attempt[a].status # "running" /\ exec[a].pc = "done" /\ ~Said(a, "started")

\* An attempt that is over without output.
Fruitless(a) == exec[a].pc = "done" /\ ~exec[a].first

\* What a failure or a report of an attempt says comes after its start, and it
\* is either that it failed or that it was completed.
WordsInOrder ==
    /\ \A n \in Nodes, e \in Sessions : \A i, j \in DOMAIN up[n][e] :
        /\ up[n][e][i].kind = "started" /\ up[n][e][j].kind \in Finals
        /\ up[n][e][i].att = up[n][e][j].att
        => i < j
    /\ \A a \in Attempts : \A k \in Failures :
        Said(a, k) => exec[a].pc = "done" /\ ~Said(a, "report_completed")

\* A message or event of that kind tells how the attempt ended, or that it had output.
Known(a, k) ==
    /\ k \in Finals => Settled(a)
    /\ k = "failed_retry" => Fruitless(a)
    /\ k = "token" => exec[a].first

\* The Manager stores a report of, fails, pushes and shows only what is so.
ReportsSettled == \A a \in reports : Settled(a)

PushesKnown ==
    \A n \in Nodes, e \in Sessions :
        reader[n][e].pc = "push" => Known(Message(n, e).att, Message(n, e).kind)

ChannelsKnown == \A a \in Attempts : \A i \in DOMAIN events[a] : Known(a, events[a][i])

FailedOver ==
    \A a \in Attempts : attempt[a].status = "failed" =>
        exec[a].pc = "done" /\ (Said(a, "report_completed") => a \in reports)

ShownStreamed == \A a \in shown : exec[a].first /\ TaskOf(a) \in Streaming

EndsSettled == ReportsSettled /\ PushesKnown /\ ChannelsKnown /\ FailedOver /\ ShownStreamed

\* The attempts of a request that another one has followed or will.
Past(t) == {a \in Attempts : TaskOf(a) = t /\ Exists(a)
                             /\ (req[t].pc \in {"start", "reserve"} \/ a # Current(t))}

PastSettled ==
    \A t \in Tasks : \A a \in Past(t) :
        Settled(a) /\ (t \in Streaming /\ req[t].pc # "done" => Fruitless(a))

\* Where the next event of an attempt comes from.
Answered(a) == \E i \in DOMAIN events[a] : events[a][i] # "token"
Dispatched(a) == \E n \in Nodes, e \in Sessions : \E i \in DOMAIN down[n][e] :
    down[n][e][i] = [kind |-> "execute_task", atts |-> {a}]
Busy(a) == exec[a].pc \notin {"none", "done"}
Heard(a) == \E n \in Nodes, e \in Sessions : \E i \in DOMAIN up[n][e] :
    /\ up[n][e][i].kind \in Finals /\ up[n][e][i].att = a
    /\ ~(i = 1 /\ reader[n][e].pc = "replan")

Served(a) == a \in streams /\ (Answered(a) \/ Busy(a) \/ Dispatched(a) \/ Heard(a))

Awaited == \A t \in Tasks : req[t].pc = "wait" => Served(Current(t))

SteadyInv == LinksUp /\ WordsInOrder /\ EndsSettled /\ PastSettled /\ Awaited

-----------------------------------------------------------------------------
(* The steps that are left *)

\* The first session is one of the bound.
LEMMA FirstSession == 1 \in Sessions
    BY BoundsAssumption DEF Sessions

\* What a request, a handler and a Worker may do.
SteadyRequest(t) ==
    Submit(t) \/ ClientGone(t) \/ CancelJob(t) \/ RequestStep(t)

SteadyHandler(n, e) ==
    \/ UpsertWorkerState(n, e) \/ SwapSession(n, e) \/ Replan(n, e) \/ HandleSlotState(n, e)
    \/ HandleAttemptStarted(n, e) \/ HandleToken(n, e) \/ HandleAttemptFailed(n, e)
    \/ HandleComputeReport(n, e) \/ PushEvent(n, e)

SteadyWorker ==
    \/ \E n \in Nodes : Greet(n) \/ Receive(n)
    \/ \E a \in Attempts : ExecStep(a)
    \/ \E s \in Slots : Assign(s) \/ Assigned(s)

\* While connections stay up no session closes, no attempt is failed for a lost one,
\* and no Worker connects anew.
LEMMA SteadySteps ==
    ASSUME Steady, IndInv, LinksUp, Next
    PROVE  \/ \E t \in Tasks : SteadyRequest(t)
           \/ \E n \in Nodes : \E e \in Sessions : SteadyHandler(n, e) \/ HandleHeartbeat(n, e)
           \/ SteadyWorker
           \/ \E s \in Slots : ClearQuarantine(s)
<1>1. ASSUME NEW n \in Nodes, NEW e \in Sessions
      PROVE  /\ ~CloserStep(n, e) /\ ~CloseSession(n, e) /\ ~ReaderStop(n, e)
             /\ ~RefuseUnregistered(n, e) /\ ~JoinClose(n, e)
    <2>1. /\ conn[n][e] \in {"none", "open"} /\ reader[n][e].pc # "join"
          /\ reader[n][e].pc = "idle" => e = 1 /\ conn[n][e] = "open" /\ wsess[n] = e /\ e \in registered[n]
        BY DEF LinksUp
    <2>2. ~MayBreak(n, e)
        BY DEF Steady, MayBreak
    <2> QED
        BY <2>1, <2>2 DEF CloserStep, FailRunningAttempts, PublishFailure, CloseSession, ReaderStop,
                          RefuseUnregistered, JoinClose
<1>2. ASSUME NEW n \in Nodes PROVE ~MarkOffline(n) /\ ~Disconnect(n) /\ ~Connect(n)
    <2>1. session[n] = 1 /\ wsess[n] = 1 /\ conn[n][1] = "open" /\ ~MayBreak(n, 1)
        BY DEF LinksUp, Steady, MayBreak
    <2> QED
        BY <2>1 DEF MarkOffline, Disconnect, Connect
<1>3. CASE \E t \in Tasks : ClientStep(t) \/ RequestStep(t)
    BY <1>3 DEF ClientStep, SteadyRequest
<1>4. CASE \E n \in Nodes : \E e \in Sessions :
              \/ HandlerStep(n, e) \/ CloserStep(n, e)
              \/ CloseSession(n, e) \/ ReaderStop(n, e) \/ HandleHeartbeat(n, e)
    BY <1>1, <1>4 DEF HandlerStep, SteadyHandler
<1>5. CASE \E n \in Nodes : MarkOffline(n) \/ Disconnect(n) \/ Connect(n) \/ Greet(n) \/ Receive(n)
    BY <1>2, <1>5 DEF SteadyWorker
<1>6. CASE \E a \in Attempts : ExecStep(a)
    BY <1>6 DEF SteadyWorker
<1>7. CASE \E s \in Slots : ClearQuarantine(s) \/ Assign(s) \/ Assigned(s)
    BY <1>7 DEF SteadyWorker
<1> QED
    BY <1>3, <1>4, <1>5, <1>6, <1>7 DEF Next

-----------------------------------------------------------------------------
(* What Workers say *)

\* Executions go on: those that are over stay as they are, and output is not unsaid.
ExecsGo ==
    \A a \in Attempts :
        /\ exec[a].pc = "done" => exec'[a].pc = "done" /\ exec'[a].first = exec[a].first
        /\ exec[a].first => exec'[a].first
        /\ exec[a].pc # "none" => exec'[a].pc # "none"

\* Node n sends the messages ms.  A start is said of an admitted attempt, an end of
\* one that ends now, and every attempt that ends says so.
Word(n, ms) ==
    /\ n \in Nodes /\ ms \in Seq(UpMessageOn(n)) /\ up' = [up EXCEPT ![n][1] = @ \o ms]
    /\ \A i \in DOMAIN ms :
        /\ ms[i].kind = "started" => exec[ms[i].att].pc = "admitted"
        /\ ms[i].kind \in Finals => exec[ms[i].att].pc \in {"active", "serving", "failing"}
                                    /\ exec'[ms[i].att].pc = "done"
    /\ \A i, j \in DOMAIN ms : ms[i].kind \in Failures => ms[j].kind # "report_completed"
    /\ \A a \in Attempts : exec[a].pc # "done" /\ exec'[a].pc = "done" =>
        \E i \in DOMAIN ms : ms[i].kind \in Finals /\ ms[i].att = a

\* A Worker works in silence, or says something; what it takes from the Manager is Taken.
NoneEnds == \A a \in Attempts : exec'[a].pc = "done" => exec[a].pc = "done"

Works == (UNCHANGED up /\ NoneEnds) \/ \E n, ms : Word(n, ms)

\* Worker.enqueue on a connection that stays up.
LEMMA SendSteady ==
    ASSUME Steady, LinksUp, NEW n \in Nodes, NEW ms, Send(n, ms)
    PROVE up' = [up EXCEPT ![n][1] = @ \o ms]
<1>1. wsess[n] = 1 /\ conn[n][1] = "open"
    BY DEF LinksUp
<1>2. Kept(ms) = {ms}
    BY DEF Steady, Kept
<1> HIDE DEF Kept
<1> QED
    BY <1>1, <1>2 DEF Send

\* An execution that moves on without an end.
LEMMA ExecGoesOn ==
    ASSUME IndInv, NEW a \in Attempts, NEW r, exec' = [exec EXCEPT ![a] = r],
           exec[a].pc = "done" => r.pc = "done" /\ r.first = exec[a].first,
           r.pc = "done" => exec[a].pc = "done", exec[a].pc # "none" => r.pc # "none",
           exec[a].first => r.first
    PROVE ExecsGo /\ NoneEnds
    BY DEF ExecsGo, NoneEnds, IndInv, TypeOK, WorkerTypeOK

LEMMA ExecEnds ==
    ASSUME IndInv, NEW a \in Attempts, exec[a].pc # "done", ExecAt(a, "done")
    PROVE /\ ExecsGo /\ exec'[a].pc = "done"
          /\ \A b \in Attempts : exec[b].pc # "done" /\ exec'[b].pc = "done" => b = a
<1>1. exec \in [Attempts -> ExecRecord]
    BY DEF IndInv, TypeOK, WorkerTypeOK
<1>2. /\ exec'[a].pc = "done" /\ exec'[a].first = exec[a].first
      /\ \A b \in Attempts : b # a => exec'[b] = exec[b]
    BY <1>1 DEF ExecAt, ExecRecord
<1> QED
    BY <1>2 DEF ExecsGo

\* Register, Admit and RuntimeError say nothing.
LEMMA SilentWorks ==
    ASSUME IndInv, NEW a \in Attempts, Register(a) \/ Admit(a) \/ RuntimeError(a)
    PROVE Works /\ ExecsGo /\ UNCHANGED <<db, sessVars, reqVars, down, wsess>>
<1>1. UNCHANGED <<db, sessVars, reqVars, up, down, wsess>>
    BY DEF Register, Admit, RuntimeError, netVars
<1>2. exec[a] \in ExecRecord
    BY DEF IndInv, TypeOK, WorkerTypeOK
<1>3. PICK r : /\ exec' = [exec EXCEPT ![a] = r] /\ exec[a].pc # "done"
               /\ r.pc \in {"active", "admitted", "failing"} /\ r.first = exec[a].first
    <2>1. CASE RuntimeError(a)
        <3> DEFINE r == [exec[a] EXCEPT !.pc = "failing", !.recovery = "pending"]
        <3>1. exec' = [exec EXCEPT ![a] = r] /\ exec[a].pc = "serving"
            BY <2>1 DEF RuntimeError
        <3>2. r.pc = "failing" /\ r.first = exec[a].first
            BY <1>2 DEF ExecRecord
        <3> HIDE DEF r
        <3> QED
            BY <3>1, <3>2
    <2>2. ASSUME NEW pc \in {"active", "admitted"}, ExecAt(a, pc), exec[a].pc # "done"
          PROVE \E r : /\ exec' = [exec EXCEPT ![a] = r] /\ exec[a].pc # "done"
                       /\ r.pc \in {"active", "admitted", "failing"} /\ r.first = exec[a].first
        <3> DEFINE r == [exec[a] EXCEPT !.pc = pc]
        <3>1. exec' = [exec EXCEPT ![a] = r]
            BY <2>2 DEF ExecAt
        <3>2. r.pc = pc /\ r.first = exec[a].first
            BY <1>2 DEF ExecRecord
        <3> HIDE DEF r
        <3> QED
            BY <2>2, <3>1, <3>2
    <2> QED
        BY <2>1, <2>2 DEF Register, Admit
<1>4. ExecsGo /\ NoneEnds
    BY <1>3, ExecGoesOn
<1> QED
    BY <1>1, <1>4 DEF Works

\* Messages about slots are not about attempts.
LEMMA SlotWorks ==
    ASSUME Steady, IndInv, LinksUp, NEW n \in Nodes, NEW x \in UpMessageOn(n), Send(n, <<x>>),
           x.kind \in {"slot_state", "full_state"}, NoneEnds
    PROVE Works
<1> DEFINE ms == <<x>>
<1>1. ms \in Seq(UpMessageOn(n)) /\ \A i \in DOMAIN ms : ms[i].kind \in {"slot_state", "full_state"}
    BY OneMessage
<1>2. up' = [up EXCEPT ![n][1] = @ \o ms]
    BY SendSteady
<1> HIDE DEF ms
<1>3. \A i \in DOMAIN ms : ms[i].kind # "started" /\ ms[i].kind \notin Finals /\ ms[i].kind \notin Failures
    BY <1>1 DEF Finals, Failures, Reports
<1> QED
    BY <1>1, <1>2, <1>3 DEF Works, Word, NoneEnds

LEMMA SlotBecomesWorks ==
    ASSUME Steady, IndInv, LinksUp, NEW s \in Slots, NEW state \in SlotState, NEW p \in Profiles,
           SlotBecomes(s, state, p), NoneEnds
    PROVE Works
<1> DEFINE n == NodeOf[s]
           w == [state |-> state, active |-> NoTask, profile |-> p]
           x == SlotMsg(s, w)
<1>1. n \in Nodes /\ Send(n, <<x>>)
    BY ConstantsAssumption DEF SlotBecomes
<1>2. w \in WorkerSlot
    BY DEF WorkerSlot
<1>3. x \in UpMessageOn(n) /\ x.kind \in {"slot_state", "full_state"}
    BY <1>2, SlotMsgType DEF SlotMsg
<1> HIDE DEF x, n
<1> QED
    BY <1>1, <1>3, SlotWorks

\* recoverRuntimeSlot and restartRuntimeServer.
LEMMA RecoveryWorks ==
    ASSUME Steady, IndInv, LinksUp, NEW a \in Attempts, Recover(a) \/ Restarted(a)
    PROVE Works /\ ExecsGo /\ UNCHANGED <<db, sessVars, reqVars, down, wsess>>
<1>1. UNCHANGED <<db, sessVars, reqVars, down, wsess>>
    BY DEF Recover, Restarted
<1>2. exec[a] \in ExecRecord /\ exec[a].recovery # "off"
    BY DEF IndInv, TypeOK, WorkerTypeOK, Recover, Restarted
<1>3. attempt[a].slot \in Slots /\ ProfileOf[TaskOf(a)] \in Profiles
    BY <1>2, ExecutedAttempt
<1>4. PICK state \in {"ready", "error", "warming"}, recovery \in {"off", "restarting"} :
        SlotBecomes(attempt[a].slot, state, ProfileOf[TaskOf(a)]) /\ exec' = [exec EXCEPT ![a].recovery = recovery]
    BY DEF Recover, Restarted
<1> DEFINE r == [exec[a] EXCEPT !.recovery = recovery]
<1>5. exec' = [exec EXCEPT ![a] = r]
    BY <1>4
<1>6. r.pc = exec[a].pc /\ r.first = exec[a].first
    BY <1>2 DEF ExecRecord
<1> HIDE DEF r
<1>7. ExecsGo /\ NoneEnds
    BY <1>5, <1>6, ExecGoesOn
<1>8. state \in SlotState
    BY DEF SlotState
<1> QED
    BY <1>1, <1>3, <1>4, <1>7, <1>8, SlotBecomesWorks

\* runAssignment.
LEMMA AssignWorks ==
    ASSUME Steady, IndInv, LinksUp, NEW s \in Slots, Assign(s) \/ Assigned(s)
    PROVE Works /\ ExecsGo /\ UNCHANGED <<db, sessVars, reqVars, down, wsess>>
<1>1. UNCHANGED <<db, sessVars, reqVars, down, wsess, exec>>
    BY DEF Assign, Assigned
<1>2. ExecsGo /\ NoneEnds
    BY <1>1 DEF ExecsGo, NoneEnds
<1>3. loading[s].to \subseteq Profiles
    BY DEF IndInv, TypeOK, WorkerTypeOK, LoadRecord
<1>4. PICK state \in {"ready", "error", "warming"}, p \in Profiles : SlotBecomes(s, state, p)
    BY <1>3 DEF Assign, Assigned
<1>5. state \in SlotState
    BY DEF SlotState
<1> QED
    BY <1>1, <1>2, <1>4, <1>5, SlotBecomesWorks

\* sendHello and sendFullState.
LEMMA GreetWorks ==
    ASSUME Steady, IndInv, LinksUp, NEW n \in Nodes, Greet(n)
    PROVE Works /\ ExecsGo /\ UNCHANGED <<db, sessVars, reqVars, down, wsess>>
<1> DEFINE said == [s \in Slots |-> IF NodeOf[s] = n THEN wslot[s] ELSE HomeSlot(s)]
           x == [kind |-> "full_state", slots |-> said]
<1>1. UNCHANGED <<db, sessVars, reqVars, down, wsess, exec>> /\ Send(n, <<x>>)
    BY DEF Greet
<1>2. ExecsGo /\ NoneEnds
    BY <1>1 DEF ExecsGo, NoneEnds
<1>3. \A s \in Slots : wslot[s] \in WorkerSlot /\ HomeSlot(s) \in WorkerSlot
    BY ConstantsAssumption DEF IndInv, TypeOK, WorkerTypeOK, HomeSlot, WorkerSlot, SlotState
<1>4. said \in [Slots -> WorkerSlot]
    BY <1>3
<1> HIDE DEF said
<1>5. x \in UpMessageOn(n) /\ x.kind \in {"slot_state", "full_state"}
    BY <1>4 DEF UpMessageOn, StateMessage
<1> HIDE DEF x
<1> QED
    BY <1>1, <1>2, <1>5, SlotWorks

\* setSlotServing and attempt_started.
LEMMA ServeWorks ==
    ASSUME Steady, IndInv, LinksUp, NEW a \in Attempts, Serve(a)
    PROVE Works /\ ExecsGo /\ UNCHANGED <<db, sessVars, reqVars, down, wsess>>
<1> DEFINE s == attempt[a].slot
           n == NodeOf[s]
           w == [state |-> "serving", active |-> TaskOf(a), profile |-> ProfileOf[TaskOf(a)]]
           ms == <<SlotMsg(s, w), AttemptMsg("started", a, "none")>>
<1>1. /\ exec[a].pc = "admitted" /\ ExecAt(a, "serving") /\ Send(n, ms)
      /\ UNCHANGED <<db, sessVars, reqVars, down, wsess>>
    BY DEF Serve
<1>2. s \in Slots /\ n \in Nodes /\ a \in AttemptsOn(n) /\ ProfileOf[TaskOf(a)] \in Profiles /\ TaskOf(a) \in Tasks
    BY <1>1, ExecutedAttempt
<1>3. w \in WorkerSlot
    BY <1>2 DEF WorkerSlot, SlotState
<1> HIDE DEF w
<1>4. SlotMsg(s, w) \in UpMessageOn(n) /\ AttemptMsg("started", a, "none") \in UpMessageOn(n)
    BY <1>2, <1>3, SlotMsgType, AttemptMsgType
<1>5. ms \in Seq(UpMessageOn(n))
    BY <1>4, TwoMessages
<1>6. \A i \in DOMAIN ms : ms[i].kind \in {"slot_state", "started"} /\ (ms[i].kind = "started" => ms[i].att = a)
    BY DEF AttemptMsg, SlotMsg
<1>7. \A i \in DOMAIN ms : ms[i].kind \notin Finals /\ ms[i].kind \notin Failures
    BY <1>6 DEF Finals, Failures, Reports
<1> HIDE DEF ms, n
<1>8. up' = [up EXCEPT ![n][1] = @ \o ms]
    BY <1>1, <1>2, SendSteady
<1>9. exec[a] \in ExecRecord
    BY DEF IndInv, TypeOK, WorkerTypeOK
<1> DEFINE r == [exec[a] EXCEPT !.pc = "serving"]
<1>10. exec' = [exec EXCEPT ![a] = r] /\ r.pc = "serving" /\ r.first = exec[a].first
    BY <1>1, <1>9 DEF ExecAt, ExecRecord
<1> HIDE DEF r
<1>11. ExecsGo /\ NoneEnds
    BY <1>1, <1>10, ExecGoesOn
<1>12. Word(n, ms)
    BY <1>1, <1>2, <1>5, <1>6, <1>7, <1>8, <1>11 DEF Word, NoneEnds
<1> QED
    BY <1>1, <1>11, <1>12 DEF Works

\* The first token.
LEMMA SendTokenWorks ==
    ASSUME Steady, IndInv, LinksUp, NEW a \in Attempts, SendToken(a)
    PROVE Works /\ ExecsGo /\ UNCHANGED <<db, sessVars, reqVars, down, wsess>>
<1> DEFINE n == NodeOfAttempt(a)
           ms == <<AttemptMsg("token", a, "none")>>
<1>1. /\ exec[a].pc = "serving" /\ exec' = [exec EXCEPT ![a].first = TRUE] /\ Send(n, ms)
      /\ UNCHANGED <<db, sessVars, reqVars, down, wsess>>
    BY DEF SendToken
<1>2. n \in Nodes /\ a \in AttemptsOn(n)
    BY <1>1, ExecutedAttempt
<1>3. ms \in Seq(UpMessageOn(n))
    <2>1. AttemptMsg("token", a, "none") \in UpMessageOn(n)
        BY <1>2, AttemptMsgType DEF StreamEvents
    <2> QED
        BY <2>1, OneMessage
<1>4. \A i \in DOMAIN ms : ms[i].kind = "token"
    BY DEF AttemptMsg
<1>5. \A i \in DOMAIN ms : ms[i].kind # "started" /\ ms[i].kind \notin Finals /\ ms[i].kind \notin Failures
    BY <1>4 DEF Finals, Failures, Reports
<1> HIDE DEF ms, n
<1>6. up' = [up EXCEPT ![n][1] = @ \o ms]
    BY <1>1, <1>2, SendSteady
<1>7. exec[a] \in ExecRecord
    BY DEF IndInv, TypeOK, WorkerTypeOK
<1> DEFINE r == [exec[a] EXCEPT !.first = TRUE]
<1>8. exec' = [exec EXCEPT ![a] = r] /\ r.pc = "serving" /\ r.first
    BY <1>1, <1>7 DEF ExecRecord
<1> HIDE DEF r
<1>9. ExecsGo /\ NoneEnds
    BY <1>1, <1>8, ExecGoesOn
<1>10. Word(n, ms)
    BY <1>2, <1>3, <1>5, <1>6, <1>9 DEF Word, NoneEnds
<1> QED
    BY <1>1, <1>9, <1>10 DEF Works

\* An execution ends and says so.
LEMMA EndWorks ==
    ASSUME Steady, IndInv, LinksUp, NEW a \in Attempts, exec[a].pc \in {"active", "serving", "failing"},
           ExecAt(a, "done"), NEW n \in Nodes, NEW ms \in Seq(UpMessageOn(n)), Send(n, ms),
           \A i \in DOMAIN ms : ms[i].kind \in Finals \cup {"slot_state"} /\ (ms[i].kind \in Finals => ms[i].att = a),
           \E i \in DOMAIN ms : ms[i].kind \in Finals,
           \A i, j \in DOMAIN ms : ms[i].kind \in Failures => ms[j].kind # "report_completed"
    PROVE Works /\ ExecsGo
<1>1. up' = [up EXCEPT ![n][1] = @ \o ms]
    BY SendSteady
<1>2. /\ ExecsGo /\ exec'[a].pc = "done"
      /\ \A b \in Attempts : exec[b].pc # "done" /\ exec'[b].pc = "done" => b = a
    BY ExecEnds
<1>3. "started" \notin Finals \cup {"slot_state"}
    BY DEF Finals, Failures, Reports
<1>4. Word(n, ms)
    BY <1>1, <1>2, <1>3 DEF Word
<1> QED
    BY <1>2, <1>4 DEF Works

\* failExecution before anything was said.
LEMMA RejectWorks ==
    ASSUME Steady, IndInv, LinksUp, NEW a \in Attempts, Reject(a)
    PROVE Works /\ ExecsGo /\ UNCHANGED <<db, sessVars, reqVars, down, wsess>>
<1> DEFINE n == NodeOfAttempt(a)
<1>1. PICK reason \in {"admission_check_failed", "artifact_digest_mismatch"} :
        Send(n, <<AttemptMsg("failed_retry", a, reason), AttemptMsg("report_retry", a, reason)>>)
    BY DEF Reject
<1>2. exec[a].pc = "active" /\ ExecAt(a, "done") /\ UNCHANGED <<db, sessVars, reqVars, down, wsess>>
    BY DEF Reject
<1>3. n \in Nodes /\ a \in AttemptsOn(n)
    BY <1>2, ExecutedAttempt
<1> DEFINE ms == <<AttemptMsg("failed_retry", a, reason), AttemptMsg("report_retry", a, reason)>>
<1>4. ms \in Seq(UpMessageOn(n))
    <2>1. reason \in Reasons \cup {"none"} /\ {"failed_retry", "report_retry"} \subseteq {"started"} \cup StreamEvents
        BY DEF Reasons, StreamEvents, Failures, Reports
    <2>2. /\ AttemptMsg("failed_retry", a, reason) \in UpMessageOn(n)
          /\ AttemptMsg("report_retry", a, reason) \in UpMessageOn(n)
        BY <1>3, <2>1, AttemptMsgType
    <2> QED
        BY <2>2, TwoMessages
<1>5. /\ \A i \in DOMAIN ms : ms[i].att = a /\ ms[i].kind \in {"failed_retry", "report_retry"}
      /\ 1 \in DOMAIN ms
    BY DEF AttemptMsg
<1>6. Send(n, ms)
    BY <1>1
<1>7. {"failed_retry", "report_retry"} \subseteq Finals
    BY DEF Finals, Failures, Reports
<1> HIDE DEF ms, n
<1>8. \A i, j \in DOMAIN ms : ms[i].kind \in Failures => ms[j].kind # "report_completed"
    BY <1>5
<1>9. Works /\ ExecsGo
    BY <1>2, <1>3, <1>4, <1>5, <1>6, <1>7, <1>8, EndWorks
<1> QED
    BY <1>2, <1>9

\* The runtime finishes.
LEMMA CompleteWorks ==
    ASSUME Steady, IndInv, LinksUp, NEW a \in Attempts, Complete(a)
    PROVE Works /\ ExecsGo /\ UNCHANGED <<db, sessVars, reqVars, down, wsess>>
<1> DEFINE s == attempt[a].slot
           n == NodeOf[s]
           w == [state |-> "ready", active |-> NoTask, profile |-> ProfileOf[TaskOf(a)]]
           ms == <<SlotMsg(s, w), AttemptMsg("report_completed", a, "none")>>
<1>1. /\ exec[a].pc = "serving" /\ ExecAt(a, "done") /\ Send(n, ms)
      /\ UNCHANGED <<db, sessVars, reqVars, down, wsess>>
    BY DEF Complete
<1>2. s \in Slots /\ n \in Nodes /\ a \in AttemptsOn(n) /\ ProfileOf[TaskOf(a)] \in Profiles
    BY <1>1, ExecutedAttempt
<1>3. w \in WorkerSlot
    BY <1>2 DEF WorkerSlot, SlotState
<1> HIDE DEF w
<1>4. SlotMsg(s, w) \in UpMessageOn(n) /\ AttemptMsg("report_completed", a, "none") \in UpMessageOn(n)
    BY <1>2, <1>3, SlotMsgType, AttemptMsgType DEF StreamEvents, Reports
<1>5. ms \in Seq(UpMessageOn(n))
    BY <1>4, TwoMessages
<1>6. /\ \A i \in DOMAIN ms : /\ ms[i].kind \in {"slot_state", "report_completed"}
                              /\ ms[i].kind = "report_completed" => ms[i].att = a
      /\ 2 \in DOMAIN ms /\ ms[2].kind = "report_completed"
    BY DEF AttemptMsg, SlotMsg
<1>7. "report_completed" \in Finals /\ "slot_state" \notin Finals
      /\ "report_completed" \notin Failures /\ "slot_state" \notin Failures
    BY DEF Finals, Failures, Reports
<1> HIDE DEF ms, n
<1>8. \A i, j \in DOMAIN ms : ms[i].kind \in Failures => ms[j].kind # "report_completed"
    BY <1>6, <1>7
<1>9. /\ \A i \in DOMAIN ms : ms[i].kind \in Finals \cup {"slot_state"} /\ (ms[i].kind \in Finals => ms[i].att = a)
      /\ \E i \in DOMAIN ms : ms[i].kind \in Finals
    BY <1>6, <1>7
<1>10. Works /\ ExecsGo
    BY <1>1, <1>2, <1>5, <1>8, <1>9, EndWorks
<1> QED
    BY <1>1, <1>10

\* A runtime that failed or was cancelled.
LEMMA ReportErrorWorks ==
    ASSUME Steady, IndInv, LinksUp, NEW a \in Attempts, ReportError(a)
    PROVE Works /\ ExecsGo /\ UNCHANGED <<db, sessVars, reqVars, down, wsess>>
<1> DEFINE n == NodeOfAttempt(a)
<1>1. exec[a].pc = "failing" /\ ExecAt(a, "done") /\ UNCHANGED <<db, sessVars, reqVars, down, wsess>>
    BY DEF ReportError
<1>2. n \in Nodes /\ a \in AttemptsOn(n)
    BY <1>1, ExecutedAttempt
<1>3. \A k \in Finals : k \in {"started"} \cup StreamEvents
    BY DEF Finals, StreamEvents
<1>4. ASSUME NEW k \in Finals, NEW reason \in {"runtime_error", "none"}
      PROVE AttemptMsg(k, a, reason) \in UpMessageOn(n) /\ AttemptMsg(k, a, reason).att = a
            /\ AttemptMsg(k, a, reason).kind = k
    <2>1. reason \in Reasons \cup {"none"}
        BY DEF Reasons
    <2>2. AttemptMsg(k, a, reason) \in UpMessageOn(n)
        BY <1>2, <1>3, <2>1, AttemptMsgType
    <2> QED
        BY <2>2 DEF AttemptMsg
<1>5. {"report_cancelled", "failed_final", "report_final", "failed_retry", "report_retry"} \subseteq Finals
    BY DEF Finals, Failures, Reports
<1> DEFINE one == AttemptMsg("report_cancelled", a, "none")
           fin(k) == AttemptMsg(k, a, "runtime_error")
<1>6. \/ Send(n, <<one>>) \/ Send(n, <<fin("failed_final"), fin("report_final")>>)
      \/ Send(n, <<fin("failed_retry"), fin("report_retry")>>)
    BY DEF ReportError
<1> HIDE DEF n
<1>7. ASSUME NEW x, x \in UpMessageOn(n), x.att = a, x.kind \in Finals \ {"report_completed"}, Send(n, <<x>>)
      PROVE Works /\ ExecsGo
    <2> DEFINE ms == <<x>>
    <2>1. /\ ms \in Seq(UpMessageOn(n)) /\ 1 \in DOMAIN ms
          /\ \A i \in DOMAIN ms : ms[i].att = a /\ ms[i].kind \in Finals \ {"report_completed"}
        BY <1>7, OneMessage
    <2>2. Send(n, ms)
        BY <1>7
    <2> HIDE DEF ms
    <2> QED
        BY <1>1, <1>2, <2>1, <2>2, EndWorks
<1>8. ASSUME NEW x, NEW y, x \in UpMessageOn(n), x.att = a, x.kind \in Finals \ {"report_completed"},
             y \in UpMessageOn(n), y.att = a, y.kind \in Finals \ {"report_completed"}, Send(n, <<x, y>>)
      PROVE Works /\ ExecsGo
    <2> DEFINE ms == <<x, y>>
    <2>1. /\ ms \in Seq(UpMessageOn(n)) /\ 1 \in DOMAIN ms
          /\ \A i \in DOMAIN ms : ms[i].att = a /\ ms[i].kind \in Finals \ {"report_completed"}
        BY <1>8, TwoMessages
    <2>2. Send(n, ms)
        BY <1>8
    <2> HIDE DEF ms
    <2> QED
        BY <1>1, <1>2, <2>1, <2>2, EndWorks
<1>9. ASSUME NEW k \in Finals, NEW reason \in {"runtime_error", "none"}, k # "report_completed"
      PROVE LET x == AttemptMsg(k, a, reason)
            IN  x \in UpMessageOn(n) /\ x.att = a /\ x.kind \in Finals \ {"report_completed"}
    BY <1>4, <1>9
<1>10. LET ok(x) == x \in UpMessageOn(n) /\ x.att = a /\ x.kind \in Finals \ {"report_completed"}
       IN  ok(one) /\ ok(fin("failed_final")) /\ ok(fin("report_final")) /\ ok(fin("failed_retry"))
           /\ ok(fin("report_retry"))
    BY <1>5, <1>9
<1> HIDE DEF one, fin
<1>11. Works /\ ExecsGo
    BY <1>6, <1>7, <1>8, <1>10
<1> QED
    BY <1>1, <1>11

\* workerExecuteTask and workerCancelTask end nothing.
LEMMA ReceiveWorks ==
    ASSUME IndInv, History, NEW n \in Nodes, Receive(n)
    PROVE Works /\ ExecsGo /\ UNCHANGED <<db, sessVars, reqVars, wsess>>
<1> DEFINE e == wsess[n]
           m == Head(down[n][e])
<1>1. /\ e # 0 /\ down[n][e] # <<>>
      /\ exec' = [a \in Attempts |->
            IF a \notin m.atts THEN exec[a]
            ELSE IF m.kind = "execute_task" THEN [exec[a] EXCEPT !.pc = "spawned"]
            ELSE IF exec[a].pc \in {"none", "spawned", "done"} THEN exec[a]
            ELSE [exec[a] EXCEPT !.cancelled = TRUE]]
      /\ UNCHANGED <<db, sessVars, reqVars, up, wsess>>
    BY DEF Receive
<1>2. e \in Sessions /\ exec \in [Attempts -> ExecRecord]
    BY <1>1 DEF IndInv, TypeOK, WorkerTypeOK
<1>3. down[n][e] \in Seq(DownMessage)
    BY <1>2 DEF IndInv, TypeOK, NetTypeOK
<1>4. 1 \in DOMAIN down[n][e] /\ down[n][e][1] = m
    BY <1>1, <1>3
<1> HIDE DEF m, e
<1>5. ASSUME NEW a \in Attempts
      PROVE  /\ exec[a].pc = "done" => exec'[a].pc = "done" /\ exec'[a].first = exec[a].first
             /\ exec[a].first => exec'[a].first
             /\ exec[a].pc # "none" => exec'[a].pc # "none"
             /\ exec'[a].pc = "done" => exec[a].pc = "done"
    <2>1. exec[a] \in ExecRecord
        BY <1>2
    <2>2. CASE a \notin m.atts
        BY <1>1, <2>2
    <2>3. CASE a \in m.atts /\ m.kind = "execute_task"
        <3>1. exec[a].pc = "none"
            BY <1>2, <1>4, <2>3 DEF ExecutesAt, History, DispatchedOnce
        <3>2. exec'[a] = [exec[a] EXCEPT !.pc = "spawned"]
            BY <1>1, <2>3
        <3>3. exec'[a].pc = "spawned" /\ exec'[a].first = exec[a].first
            BY <2>1, <3>2 DEF ExecRecord
        <3> QED
            BY <3>1, <3>3
    <2>4. CASE a \in m.atts /\ m.kind # "execute_task"
        <3>1. exec'[a] = exec[a] \/ exec'[a] = [exec[a] EXCEPT !.cancelled = TRUE]
            BY <1>1, <2>4
        <3>2. exec'[a].pc = exec[a].pc /\ exec'[a].first = exec[a].first
            BY <2>1, <3>1 DEF ExecRecord
        <3> QED
            BY <3>2
    <2> QED
        BY <2>2, <2>3, <2>4
<1>6. ExecsGo /\ NoneEnds
    BY <1>5 DEF ExecsGo, NoneEnds
<1> QED
    BY <1>1, <1>6 DEF Works

\* Every step of a Worker.
LEMMA WorkersWork ==
    ASSUME Steady, IndInv, History, LinksUp, SteadyWorker
    PROVE  /\ Works /\ ExecsGo /\ UNCHANGED <<db, sessVars, reqVars, wsess>>
           /\ UNCHANGED down \/ \E n \in Nodes : Receive(n)
    BY SilentWorks, RecoveryWorks, AssignWorks, GreetWorks, ServeWorks, SendTokenWorks, RejectWorks,
       CompleteWorks, ReportErrorWorks, ReceiveWorks DEF SteadyWorker, ExecStep

-----------------------------------------------------------------------------
(* What is said, and in which order *)

\* A reader takes the head of its queue.
Drops(n, e) == up[n][e] # <<>> /\ up' = [up EXCEPT ![n][e] = Tail(@)]

\* Queues stay, lose a head or gain the words of a Worker.
QueuesMove ==
    \/ UNCHANGED up
    \/ \E n \in Nodes, e \in Sessions : Drops(n, e)
    \/ \E n, ms : Word(n, ms)

\* The queues after the words of a Worker.
LEMMA WordQueues ==
    ASSUME IndInv, NEW n, NEW ms, Word(n, ms), NEW m \in Nodes, NEW f \in Sessions
    PROVE /\ n \in Nodes /\ ms \in Seq(UpMessageOn(n)) /\ up[m][f] \in Seq(UpMessageOn(m))
          /\ IF m = n /\ f = 1 THEN up'[m][f] = up[m][f] \o ms ELSE up'[m][f] = up[m][f]
<1>1. n \in Nodes /\ ms \in Seq(UpMessageOn(n)) /\ up' = [up EXCEPT ![n][1] = @ \o ms]
    BY DEF Word
<1>2. up \in [Nodes -> [Sessions -> Seq(UpMessage)]] /\ up[m][f] \in Seq(UpMessageOn(m))
    BY DEF IndInv, TypeOK, NetTypeOK, Bookkeeping, MessagesNamed
<1> QED
    BY <1>1, <1>2, FirstSession

\* What is new in the queues is a word of a Worker.
LEMMA NewWords ==
    ASSUME IndInv, QueuesMove, NEW a, NEW k, Said(a, k)', ~Said(a, k)
    PROVE \E n, ms : Word(n, ms) /\ SaidIn(ms, a, k)
<1>1. PICK m \in Nodes, f \in Sessions : SaidIn(up'[m][f], a, k)
    BY DEF Said, SaidIn
<1>2. ~SaidIn(up[m][f], a, k)
    BY DEF Said
<1>3. up \in [Nodes -> [Sessions -> Seq(UpMessage)]]
    BY DEF IndInv, TypeOK, NetTypeOK
<1>4. CASE UNCHANGED up
    BY <1>1, <1>2, <1>4
<1>5. ASSUME NEW n \in Nodes, NEW e \in Sessions, Drops(n, e) PROVE FALSE
    <2>1. up'[m][f] = up[m][f] \/ (up[m][f] # <<>> /\ up'[m][f] = Tail(up[m][f]))
        BY <1>3, <1>5 DEF Drops
    <2>2. up[m][f] \in Seq(UpMessage)
        BY <1>3
    <2> QED
        BY <1>1, <1>2, <2>1, <2>2, SaidInTail
<1>6. ASSUME NEW n, NEW ms, Word(n, ms) PROVE SaidIn(ms, a, k)
    <2>1. /\ n \in Nodes /\ ms \in Seq(UpMessageOn(n)) /\ up[m][f] \in Seq(UpMessageOn(m))
          /\ IF m = n /\ f = 1 THEN up'[m][f] = up[m][f] \o ms ELSE up'[m][f] = up[m][f]
        BY <1>6, WordQueues
    <2>2. m = n /\ up'[m][f] = up[m][f] \o ms
        BY <1>1, <1>2, <2>1
    <2> QED
        BY <1>1, <1>2, <2>1, <2>2, SaidInConcat
<1> QED
    BY <1>4, <1>5, <1>6 DEF QueuesMove

\* A start is said of an attempt that is admitted, an end of one that ends.
LEMMA NewStarts ==
    ASSUME IndInv, QueuesMove, NEW a, Said(a, "started")'
    PROVE Said(a, "started") \/ exec[a].pc = "admitted"
    BY NewWords, SMTT(60) DEF Word, SaidIn

LEMMA NewEnds ==
    ASSUME IndInv, QueuesMove, NEW a, NEW k \in Finals, Said(a, k)'
    PROVE Said(a, k) \/ (exec[a].pc \in {"active", "serving", "failing"} /\ exec'[a].pc = "done")
    BY NewWords DEF Word, SaidIn

\* So an attempt that is settled stays so, whatever its requests and messages do.
StatusKept ==
    \A a \in Attempts : attempt'[a].status = "running" =>
        attempt[a].status = "running" \/ exec[a].pc = "none" \/ Said(a, "started")

LEMMA SettledKept ==
    ASSUME IndInv, QueuesMove, ExecsGo, StatusKept, NEW a \in Attempts, Settled(a)
    PROVE Settled(a)'
<1>1. exec[a].pc = "done" /\ ~Said(a, "started") /\ attempt[a].status # "running"
    BY DEF Settled
<1>2. ~Said(a, "started")'
    BY <1>1, NewStarts
<1>3. exec'[a].pc = "done" /\ attempt'[a].status # "running"
    BY <1>1 DEF ExecsGo, StatusKept
<1> QED
    BY <1>2, <1>3 DEF Settled

LEMMA FruitlessKept ==
    ASSUME ExecsGo, NEW a \in Attempts, Fruitless(a)
    PROVE Fruitless(a)'
    BY DEF ExecsGo, Fruitless

\* The end of an attempt that heads a queue has no start behind it.
LEMMA NoStartBehind ==
    ASSUME IndInv, LinksUp, WordsInOrder, NEW n \in Nodes, NEW e \in Sessions, up[n][e] # <<>>,
           Message(n, e).kind \in Finals
    PROVE ~Said(Message(n, e).att, "started")
<1> DEFINE a == Message(n, e).att
<1>1. SUFFICES ASSUME Said(a, "started") PROVE FALSE
    OBVIOUS
<1>2. PICK m \in Nodes, f \in Sessions : SaidIn(up[m][f], a, "started")
    BY <1>1 DEF Said
<1>3. PICK j \in DOMAIN up[m][f] : up[m][f][j].kind = "started" /\ up[m][f][j].att = a
    BY <1>2 DEF SaidIn
<1>4. Message(n, e).kind \in {"started"} \cup StreamEvents
    BY DEF Finals, StreamEvents
<1>5. a \in AttemptsOn(n)
    BY <1>4, HeadMessage DEF IndInv, Bookkeeping
<1>6. up[m][f] \in Seq(UpMessageOn(m)) /\ up[n][e] \in Seq(UpMessageOn(n))
    BY DEF IndInv, Bookkeeping, MessagesNamed
<1>7. up[m][f][j] \in UpMessageOn(m)
    BY <1>3, <1>6
<1>8. a \in AttemptsOn(m)
    BY <1>3, <1>7 DEF UpMessageOn, SlotMessage, StateMessage
<1>9. m = n
    BY <1>5, <1>8 DEF AttemptsOn
<1>10. e = 1 /\ f = 1
    <2>1. up[m][f] # <<>>
        BY <1>3
    <2> QED
        BY <2>1 DEF LinksUp
<1>11. 1 \in DOMAIN up[n][e] /\ up[n][e][1] = Message(n, e) /\ j \in Nat \ {0}
    BY <1>3, <1>6 DEF Message
<1>12. j < 1
    BY <1>3, <1>9, <1>10, <1>11 DEF WordsInOrder
<1> QED
    BY <1>11, <1>12

\* Words stay in order.
LEMMA WordsKept ==
    ASSUME IndInv, History, LinksUp, WordsInOrder, QueuesMove, ExecsGo
    PROVE WordsInOrder'
<1>1. \A a \in Attempts : \A k \in Finals : Said(a, k) => exec[a].pc = "done"
    BY DEF History, ReportedOnce, WordsInOrder, Finals
<1>2. Failures \subseteq Finals /\ "report_completed" \in Finals /\ "report_completed" \notin Failures
    BY DEF Finals, Failures, Reports
<1>3. ASSUME NEW a \in Attempts, NEW k \in Failures, Said(a, k)'
      PROVE exec'[a].pc = "done" /\ ~Said(a, "report_completed")'
    <2>1. exec'[a].pc = "done"
        BY <1>1, <1>2, <1>3, NewEnds DEF ExecsGo
    <2>2. CASE Said(a, k)
        <3>1. exec[a].pc = "done" /\ ~Said(a, "report_completed")
            BY <2>2 DEF WordsInOrder
        <3> QED
            BY <1>2, <2>1, <3>1, NewEnds
    <2>3. CASE ~Said(a, k)
        <3>1. exec[a].pc # "done"
            BY <1>2, <1>3, <2>3, NewEnds
        <3>2. ~Said(a, "report_completed")
            BY <1>1, <1>2, <3>1
        <3>3. PICK n, ms : Word(n, ms) /\ SaidIn(ms, a, k)
            BY <1>3, <2>3, NewWords
        <3>4. ~SaidIn(ms, a, "report_completed")
            BY <3>3 DEF Word, SaidIn
        <3>5. ASSUME Said(a, "report_completed")' PROVE FALSE
            <4>1. PICK m \in Nodes, f \in Sessions : SaidIn(up'[m][f], a, "report_completed")
                BY <3>5 DEF Said, SaidIn
            <4>2. ~SaidIn(up[m][f], a, "report_completed")
                BY <3>2 DEF Said
            <4>3. /\ n \in Nodes /\ ms \in Seq(UpMessageOn(n)) /\ up[m][f] \in Seq(UpMessageOn(m))
                  /\ IF m = n /\ f = 1 THEN up'[m][f] = up[m][f] \o ms ELSE up'[m][f] = up[m][f]
                BY <3>3, WordQueues
            <4>4. m = n /\ up'[m][f] = up[m][f] \o ms
                BY <4>1, <4>2, <4>3
            <4> QED
                BY <3>4, <4>1, <4>2, <4>3, <4>4, SaidInConcat
        <3> QED
            BY <2>1, <3>5
    <2> QED
        BY <2>2, <2>3
<1>4. ASSUME NEW m \in Nodes, NEW f \in Sessions, NEW i \in DOMAIN up'[m][f], NEW j \in DOMAIN up'[m][f],
             up'[m][f][i].kind = "started", up'[m][f][j].kind \in Finals, up'[m][f][i].att = up'[m][f][j].att
      PROVE i < j
    <2> DEFINE q == up[m][f]
    <2>1. up \in [Nodes -> [Sessions -> Seq(UpMessage)]] /\ q \in Seq(UpMessageOn(m))
        BY DEF IndInv, TypeOK, NetTypeOK, Bookkeeping, MessagesNamed
    <2>2. ASSUME NEW k \in DOMAIN q, NEW l \in DOMAIN q, q[k].kind = "started", q[l].kind \in Finals,
                 q[k].att = q[l].att
          PROVE k < l
        BY <2>2 DEF WordsInOrder
    <2>3. CASE up'[m][f] = q
        BY <1>4, <2>2, <2>3
    <2>4. CASE q # <<>> /\ up'[m][f] = Tail(q)
        <3> HIDE DEF q
        <3>1. /\ i \in Nat /\ j \in Nat /\ i + 1 \in DOMAIN q /\ j + 1 \in DOMAIN q
              /\ Tail(q)[i] = q[i + 1] /\ Tail(q)[j] = q[j + 1]
            BY <1>4, <2>1, <2>4
        <3>2. i + 1 < j + 1
            BY <1>4, <2>2, <2>4, <3>1
        <3> QED
            BY <3>1, <3>2
    <2>5. ASSUME NEW n, NEW ms, Word(n, ms), up'[m][f] = q \o ms, m = n PROVE i < j
        <3>1. ms \in Seq(UpMessageOn(n))
            BY <2>5 DEF Word
        <3>2. /\ i \in Nat /\ j \in Nat /\ Len(q) \in Nat
              /\ i <= Len(q) => i \in DOMAIN q /\ up'[m][f][i] = q[i]
              /\ i > Len(q) => i - Len(q) \in DOMAIN ms /\ up'[m][f][i] = ms[i - Len(q)]
              /\ j <= Len(q) => j \in DOMAIN q /\ up'[m][f][j] = q[j]
              /\ j > Len(q) => j - Len(q) \in DOMAIN ms /\ up'[m][f][j] = ms[j - Len(q)]
            <4> HIDE DEF q
            <4> QED
                BY <1>4, <2>1, <2>5, <3>1
        <3>3. CASE i <= Len(q) /\ j <= Len(q)
            BY <1>4, <2>2, <3>2, <3>3
        <3>4. CASE i <= Len(q) /\ j > Len(q)
            BY <3>2, <3>4
        <3>5. CASE i > Len(q) /\ j > Len(q)
            <4>1. PICK k \in DOMAIN ms, l \in DOMAIN ms : up'[m][f][i] = ms[k] /\ up'[m][f][j] = ms[l]
                BY <3>2, <3>5
            <4>2. ms[k].kind = "started" /\ ms[l].kind \in Finals /\ ms[k].att = ms[l].att
                BY <1>4, <4>1
            <4>3. exec[ms[k].att].pc = "admitted" /\ exec[ms[l].att].pc \in {"active", "serving", "failing"}
                BY <2>5, <4>2 DEF Word
            <4> QED
                BY <4>2, <4>3
        <3>6. CASE i > Len(q) /\ j <= Len(q)
            <4>1. exec[ms[i - Len(q)].att].pc = "admitted"
                BY <1>4, <2>5, <3>2, <3>6 DEF Word
            <4>2. exec[q[j].att].pc = "admitted" /\ q[j].kind \in Finals /\ j \in DOMAIN q
                BY <1>4, <3>2, <3>6, <4>1
            <4>3. q[j] \in UpMessageOn(m)
                BY <2>1, <4>2
            <4>4. q[j].att \in Attempts
                BY <4>2, <4>3 DEF UpMessageOn, SlotMessage, StateMessage, AttemptsOn, Finals, Failures, Reports
            <4>5. Said(q[j].att, q[j].kind)
                BY <4>2 DEF Said, SaidIn
            <4> QED
                BY <1>1, <4>2, <4>4, <4>5
        <3> QED
            BY <3>2, <3>3, <3>4, <3>5, <3>6
    <2>6. CASE UNCHANGED up
        BY <2>3, <2>6
    <2>7. ASSUME NEW n \in Nodes, NEW e \in Sessions, Drops(n, e) PROVE i < j
        <3>1. up'[m][f] = q \/ (q # <<>> /\ up'[m][f] = Tail(q))
            BY <2>1, <2>7 DEF Drops
        <3> QED
            BY <2>3, <2>4, <3>1
    <2>8. ASSUME NEW n, NEW ms, Word(n, ms) PROVE i < j
        <3>1. up'[m][f] = q \/ (m = n /\ up'[m][f] = q \o ms)
            BY <2>8, WordQueues
        <3> QED
            BY <2>3, <2>5, <2>8, <3>1
    <2> QED
        BY <2>6, <2>7, <2>8 DEF QueuesMove
<1> QED
    BY <1>3, <1>4 DEF WordsInOrder

-----------------------------------------------------------------------------
(* Parts of the invariant that a step leaves alone *)

\* What every step does to queues, executions and the status of attempts.
Goes == QueuesMove /\ ExecsGo /\ StatusKept

LEMMA KnownKept ==
    ASSUME IndInv, Goes, NEW a \in Attempts, NEW k, Known(a, k)
    PROVE Known(a, k)'
<1>1. exec[a].first => exec'[a].first
    BY DEF Goes, ExecsGo
<1>2. (Settled(a) => Settled(a)') /\ (Fruitless(a) => Fruitless(a)')
    BY SettledKept, FruitlessKept DEF Goes
<1> QED
    BY <1>1, <1>2 DEF Known

LEMMA ReportsStay ==
    ASSUME IndInv, Goes, ReportsSettled, UNCHANGED reports
    PROVE ReportsSettled'
<1>1. reports \subseteq Attempts
    BY DEF IndInv, TypeOK, DbTypeOK
<1>2. \A a \in reports : Settled(a)'
    BY <1>1, SettledKept DEF Goes, ReportsSettled
<1> QED
    BY <1>2 DEF ReportsSettled

LEMMA PushesStay ==
    ASSUME IndInv, Goes, PushesKnown, PushersKept
    PROVE PushesKnown'
<1> SUFFICES ASSUME NEW n \in Nodes, NEW e \in Sessions, reader'[n][e].pc = "push"
             PROVE  Known(Message(n, e).att, Message(n, e).kind)'
    BY DEF PushesKnown
<1>1. reader[n][e].pc = "push" /\ Message(n, e)' = Message(n, e)
    BY DEF PushersKept
<1>2. up[n][e] # <<>> /\ Message(n, e).kind \in {"started"} \cup StreamEvents
    BY <1>1 DEF IndInv, Bookkeeping, ReadersHold
<1>3. PICK a \in Attempts, k \in Kinds : a = Message(n, e).att /\ k = Message(n, e).kind
    BY <1>2, AttemptMessageNamed DEF Kinds
<1>4. Known(a, k)
    BY <1>1, <1>3 DEF PushesKnown
<1>5. Known(a, k)'
    BY <1>4, KnownKept
<1>6. Message(n, e)'.att = a /\ Message(n, e)'.kind = k
    BY <1>1, <1>3
<1> HIDE DEF Message
<1> QED
    BY <1>5, <1>6 DEF Known, Settled, Fruitless, Said, SaidIn

LEMMA ChannelsStay ==
    ASSUME IndInv, Goes, ChannelsKnown, EventsLess
    PROVE ChannelsKnown'
<1> SUFFICES ASSUME NEW a \in Attempts, NEW i \in DOMAIN events'[a]
             PROVE Known(a, events[a][i])'
    BY DEF ChannelsKnown
<1>1. PICK j \in DOMAIN events[a] : events'[a][i] = events[a][j]
    BY DEF EventsLess
<1>2. PICK k : k = events[a][j]
    OBVIOUS
<1>3. Known(a, k)
    BY <1>1, <1>2 DEF ChannelsKnown
<1>4. Known(a, k)'
    BY <1>3, KnownKept
<1> QED
    BY <1>1, <1>2, <1>4 DEF Known, Settled, Fruitless, Said, SaidIn

LEMMA FailedStay ==
    ASSUME IndInv, Goes, FailedOver, reports \subseteq reports',
           \A a \in Attempts : attempt'[a].status = "failed" => attempt[a].status = "failed"
    PROVE FailedOver'
<1> SUFFICES ASSUME NEW a \in Attempts, attempt'[a].status = "failed"
             PROVE exec'[a].pc = "done" /\ (Said(a, "report_completed")' => a \in reports')
    BY DEF FailedOver
<1>1. exec[a].pc = "done" /\ (Said(a, "report_completed") => a \in reports)
    BY DEF FailedOver
<1>2. Said(a, "report_completed")' => Said(a, "report_completed")
    BY <1>1, NewEnds DEF Goes, Finals, Reports
<1> QED
    BY <1>1, <1>2 DEF Goes, ExecsGo

LEMMA ShownStay ==
    ASSUME IndInv, Goes, ShownStreamed, UNCHANGED shown
    PROVE ShownStreamed'
<1>1. shown \subseteq Attempts
    BY DEF IndInv, TypeOK, RequestTypeOK
<1> QED
    BY <1>1 DEF ShownStreamed, Goes, ExecsGo

\* Requests that stay, or move on, have no more attempts behind them.
LEMMA PastStays ==
    ASSUME IndInv, Goes, PastSettled,
           \A t \in Tasks : /\ \A a \in Attempts : a \in Past(t)' => a \in Past(t)
                            /\ req'[t].pc # "done" => req[t].pc # "done"
    PROVE PastSettled'
<1> SUFFICES ASSUME NEW t \in Tasks, NEW a \in Past(t)'
             PROVE Settled(a)' /\ (t \in Streaming /\ req'[t].pc # "done" => Fruitless(a)')
    BY DEF PastSettled
<1>1. a \in Attempts /\ a \in Past(t)
    BY DEF Past
<1>2. Settled(a) /\ (t \in Streaming /\ req[t].pc # "done" => Fruitless(a))
    BY <1>1 DEF PastSettled
<1> QED
    BY <1>1, <1>2, SettledKept, FruitlessKept DEF Goes

LEMMA PastSame ==
    ASSUME IndInv, Goes, PastSettled, UNCHANGED req, \A a \in Attempts : Exists(a)' => Exists(a)
    PROVE PastSettled'
<1>1. ASSUME NEW t \in Tasks, NEW a \in Attempts, a \in Past(t)' PROVE a \in Past(t)
    BY <1>1 DEF Past, Current
<1> QED
    BY <1>1, PastStays

-----------------------------------------------------------------------------
(* Where the next event comes from *)

\* Down queues keep what they hold.
DownGrows ==
    \A n \in Nodes, e \in Sessions : \A i \in DOMAIN down[n][e] :
        i \in DOMAIN down'[n][e] /\ down'[n][e][i] = down[n][e][i]

LEMMA DispatchedGrows ==
    ASSUME DownGrows, NEW a, Dispatched(a)
    PROVE Dispatched(a)'
<1>1. PICK n \in Nodes, e \in Sessions : \E i \in DOMAIN down[n][e] :
        down[n][e][i] = [kind |-> "execute_task", atts |-> {a}]
    BY DEF Dispatched
<1>2. PICK i \in DOMAIN down[n][e] : down[n][e][i] = [kind |-> "execute_task", atts |-> {a}]
    BY <1>1
<1>3. i \in DOMAIN down'[n][e] /\ down'[n][e][i] = [kind |-> "execute_task", atts |-> {a}]
    BY <1>2 DEF DownGrows
<1> QED
    BY <1>3 DEF Dispatched

\* Cancels are appended.
LEMMA CancelsGrow ==
    ASSUME IndInv, NEW atts, SendCancels(atts)
    PROVE DownGrows
<1>1. PICK delivered \in SUBSET Nodes :
        down' = [n \in Nodes |-> [e \in Sessions |->
            LET here == {a \in atts : NodeOfAttempt(a) = n}
            IN  IF /\ here # {} /\ n \in delivered
                   /\ session[n] = e /\ conn[n][e] = "open"
                THEN Append(down[n][e], [kind |-> "cancel_task", atts |-> here])
                ELSE down[n][e]]]
    BY ZenonT(60) DEF SendCancels
<1> SUFFICES ASSUME NEW n \in Nodes, NEW e \in Sessions, NEW i \in DOMAIN down[n][e]
             PROVE  i \in DOMAIN down'[n][e] /\ down'[n][e][i] = down[n][e][i]
    BY DEF DownGrows
<1> DEFINE here == {b \in atts : NodeOfAttempt(b) = n}
           m == [kind |-> "cancel_task", atts |-> here]
<1>2. down'[n][e] = down[n][e] \/ down'[n][e] = Append(down[n][e], m)
    BY <1>1
<1>3. down[n][e] \in Seq(DownMessage)
    BY DEF IndInv, TypeOK, NetTypeOK
<1> HIDE DEF m
<1> QED
    BY <1>2, <1>3

LEMMA DownFrame == UNCHANGED down => DownGrows
    BY DEF DownGrows

\* A request, or anything else that leaves Workers and readers alone, leaves an
\* attempt served while its events stay.
LEMMA ServedFrame ==
    ASSUME UNCHANGED <<exec, up, reader>>, DownGrows, NEW a, a \in streams', events'[a] = events[a], Served(a)
    PROVE Served(a)'
<1>1. Dispatched(a) => Dispatched(a)'
    BY DispatchedGrows
<1>2. (Answered(a) => Answered(a)') /\ (Busy(a) => Busy(a)') /\ (Heard(a) => Heard(a)')
    BY DEF Answered, Busy, Heard
<1> QED
    BY <1>1, <1>2 DEF Served

\* A Worker that takes the dispatch of an attempt is busy with it; one that ends it says so.
LEMMA ServedWorks ==
    ASSUME IndInv, LinksUp, Works, ExecsGo, UNCHANGED <<streams, events, reader>>,
           UNCHANGED down \/ \E n \in Nodes : Receive(n), NEW a \in Attempts, Served(a)
    PROVE Served(a)'
<1>1. a \in streams' /\ (Answered(a) => Answered(a)')
    BY DEF Served, Answered
<1>2. ASSUME Busy(a) PROVE Busy(a)' \/ Heard(a)'
    <2>1. SUFFICES ASSUME ~Busy(a)' PROVE Heard(a)'
        OBVIOUS
    <2>2. exec[a].pc # "done" /\ exec'[a].pc = "done"
        BY <1>2, <2>1 DEF Busy, ExecsGo
    <2>3. PICK n, ms : Word(n, ms)
        BY <2>2 DEF Works, NoneEnds
    <2>4. PICK k \in DOMAIN ms : ms[k].kind \in Finals /\ ms[k].att = a
        BY <2>2, <2>3 DEF Word
    <2>5. /\ n \in Nodes /\ ms \in Seq(UpMessageOn(n)) /\ up[n][1] \in Seq(UpMessageOn(n))
          /\ up'[n][1] = up[n][1] \o ms
        <3>1. n \in Nodes /\ 1 \in Sessions
            BY <2>3, FirstSession DEF Word
        <3> QED
            BY <2>3, <3>1, WordQueues
    <2> DEFINE q == up[n][1]
               i == Len(q) + k
    <2>6. q \in Seq(UpMessageOn(n)) /\ up'[n][1] = q \o ms
        BY <2>5
    <2>7. reader[n][1].pc = "replan" => q # <<>>
        BY <2>5, FirstSession DEF IndInv, Bookkeeping, ReadersHold
    <2> HIDE DEF q
    <2>8. i \in DOMAIN up'[n][1] /\ up'[n][1][i] = ms[k] /\ (i = 1 => q = <<>>)
        BY <2>4, <2>5, <2>6
    <2> HIDE DEF i
    <2>9. ~(i = 1 /\ reader'[n][1].pc = "replan")
        BY <2>7, <2>8
    <2> QED
        BY <2>4, <2>5, <2>8, <2>9, FirstSession DEF Heard
<1>3. ASSUME Dispatched(a) PROVE Dispatched(a)' \/ Busy(a)'
    <2>1. CASE UNCHANGED down
        BY <1>3, <2>1, DownFrame, DispatchedGrows
    <2>2. ASSUME NEW n \in Nodes, Receive(n) PROVE Dispatched(a)' \/ Busy(a)'
        <3> DEFINE e == wsess[n]
        <3>1. /\ e # 0 /\ down[n][e] # <<>> /\ down' = [down EXCEPT ![n][e] = Tail(@)]
              /\ exec' = [b \in Attempts |->
                    IF b \notin Head(down[n][e]).atts THEN exec[b]
                    ELSE IF Head(down[n][e]).kind = "execute_task" THEN [exec[b] EXCEPT !.pc = "spawned"]
                    ELSE IF exec[b].pc \in {"none", "spawned", "done"} THEN exec[b]
                    ELSE [exec[b] EXCEPT !.cancelled = TRUE]]
            BY <2>2 DEF Receive
        <3>2. e \in Sessions /\ exec[a] \in ExecRecord /\ down \in [Nodes -> [Sessions -> Seq(DownMessage)]]
            BY <3>1 DEF IndInv, TypeOK, WorkerTypeOK, NetTypeOK
        <3> HIDE DEF e
        <3>3. PICK m \in Nodes, f \in Sessions : \E i \in DOMAIN down[m][f] :
                down[m][f][i] = [kind |-> "execute_task", atts |-> {a}]
            BY <1>3 DEF Dispatched
        <3> DEFINE x == [kind |-> "execute_task", atts |-> {a}]
        <3>4. PICK i \in DOMAIN down[m][f] : down[m][f][i] = x
            BY <3>3
        <3>5. x.kind = "execute_task" /\ a \in x.atts
            OBVIOUS
        <3> HIDE DEF x
        <3>6. CASE ~(m = n /\ f = e)
            <4>1. down'[m][f] = down[m][f]
                BY <3>1, <3>2, <3>6
            <4> QED
                BY <3>4, <4>1 DEF Dispatched, x
        <3>7. CASE m = n /\ f = e /\ i = 1
            <4>1. Head(down[n][e]) = x
                BY <3>2, <3>4, <3>7
            <4>2. exec'[a] = [exec[a] EXCEPT !.pc = "spawned"]
                BY <3>1, <3>5, <4>1
            <4>3. exec'[a].pc = "spawned"
                BY <3>2, <4>2 DEF ExecRecord
            <4> QED
                BY <4>3 DEF Busy
        <3>8. CASE m = n /\ f = e /\ i # 1
            <4> DEFINE q == down[n][e]
            <4>1. q \in Seq(DownMessage) /\ q # <<>> /\ i \in DOMAIN q /\ q[i] = x /\ down'[m][f] = Tail(q)
                BY <3>1, <3>2, <3>4, <3>8
            <4> HIDE DEF q
            <4>2. i - 1 \in DOMAIN Tail(q) /\ Tail(q)[i - 1] = q[i]
                BY <3>8, <4>1
            <4>3. i - 1 \in DOMAIN down'[m][f] /\ down'[m][f][i - 1] = x
                BY <4>1, <4>2
            <4> QED
                BY <4>3 DEF Dispatched, x
        <3> QED
            BY <3>6, <3>7, <3>8, SMTT(60)
    <2> QED
        BY <2>1, <2>2
<1>4. ASSUME Heard(a) PROVE Heard(a)'
    <2>1. PICK m \in Nodes, f \in Sessions : \E i \in DOMAIN up[m][f] :
            /\ up[m][f][i].kind \in Finals /\ up[m][f][i].att = a
            /\ ~(i = 1 /\ reader[m][f].pc = "replan")
        BY <1>4 DEF Heard
    <2>2. PICK i \in DOMAIN up[m][f] :
            /\ up[m][f][i].kind \in Finals /\ up[m][f][i].att = a
            /\ ~(i = 1 /\ reader[m][f].pc = "replan")
        BY <2>1
    <2>3. i \in DOMAIN up'[m][f] /\ up'[m][f][i] = up[m][f][i]
        <3>1. CASE UNCHANGED up
            BY <3>1
        <3>2. ASSUME NEW n, NEW ms, Word(n, ms) PROVE i \in DOMAIN up'[m][f] /\ up'[m][f][i] = up[m][f][i]
            <4>1. /\ ms \in Seq(UpMessageOn(n)) /\ up[m][f] \in Seq(UpMessageOn(m))
                  /\ up'[m][f] = up[m][f] \/ (m = n /\ up'[m][f] = up[m][f] \o ms)
                BY <3>2, WordQueues
            <4>2. CASE m = n /\ up'[m][f] = up[m][f] \o ms
                BY <4>1, <4>2
            <4> QED
                BY <4>1, <4>2
        <3> QED
            BY <3>1, <3>2 DEF Works
    <2> QED
        BY <2>2, <2>3 DEF Heard
<1> QED
    BY <1>1, <1>2, <1>3, <1>4 DEF Served

LEMMA ServedCurrent ==
    ASSUME NEW t, NEW a, Current(t)' = a, Served(a)'
    PROVE Served(Current(t))'
<1>1. /\ a \in streams'
      /\ Answered(a)' \/ Busy(a)' \/ Dispatched(a)' \/ Heard(a)'
    BY DEF Served
<1>2. /\ Answered(a)' => Answered(Current(t))'
      /\ Busy(a)' => Busy(Current(t))'
    BY DEF Answered, Busy
<1>3. Dispatched(a)' => Dispatched(Current(t))'
    BY DEF Dispatched
<1>4. Heard(a)' => Heard(Current(t))'
    BY DEF Heard
<1> QED
    BY <1>1, <1>2, <1>3, <1>4 DEF Served

-----------------------------------------------------------------------------
(* Workers *)

\* What a Worker says is behind what readers hold.
LEMMA WorksHeads == ASSUME IndInv, Works PROVE HeadsKept
<1>1. CASE UNCHANGED up
    BY <1>1, HeadsFrame
<1>2. ASSUME NEW n, NEW ms, Word(n, ms), NEW m \in Nodes, NEW f \in Sessions, up[m][f] # <<>>
      PROVE up'[m][f] # <<>> /\ Head(up'[m][f]) = Head(up[m][f])
    <2>1. /\ ms \in Seq(UpMessageOn(n)) /\ up[m][f] \in Seq(UpMessageOn(m))
          /\ up'[m][f] = up[m][f] \/ (m = n /\ up'[m][f] = up[m][f] \o ms)
        BY <1>2, WordQueues
    <2>2. CASE m = n /\ up'[m][f] = up[m][f] \o ms
        <3> DEFINE q == up[m][f]
        <3>1. q \in Seq(UpMessageOn(m)) /\ q # <<>> /\ ms \in Seq(UpMessageOn(m))
            BY <1>2, <2>1, <2>2
        <3> HIDE DEF q
        <3>2. q \o ms # <<>> /\ Head(q \o ms) = Head(q)
            BY <3>1
        <3> QED
            BY <2>2, <3>2 DEF q
    <2> QED
        BY <1>2, <2>1, <2>2
<1> QED
    BY <1>1, <1>2 DEF Works, HeadsKept

LEMMA WorkerSteady ==
    ASSUME Steady, IndInv, History, SteadyInv, SteadyWorker
    PROVE SteadyInv'
<1>1. LinksUp /\ WordsInOrder /\ EndsSettled /\ PastSettled /\ Awaited
    BY DEF SteadyInv
<1>2. /\ Works /\ ExecsGo /\ UNCHANGED <<db, sessVars, reqVars, wsess>>
      /\ UNCHANGED down \/ \E n \in Nodes : Receive(n)
    BY <1>1, WorkersWork
<1>3. /\ UNCHANGED <<attempt, reports, events, streams, req, shown, reader, session, registered, conn>>
      /\ QueuesMove /\ HeadsKept
    BY <1>2, WorksHeads DEF db, sessVars, reqVars, Works, QueuesMove
<1>4. Goes /\ PushersKept /\ EventsLess
    BY <1>2, <1>3, PushersFrame, EventsFrame DEF Goes, StatusKept
<1>5. WordsInOrder'
    BY <1>1, <1>2, <1>3, WordsKept
<1>6. EndsSettled'
    <2>1. \A a \in Attempts : attempt'[a].status = "failed" => attempt[a].status = "failed"
        BY <1>3
    <2> QED
        BY <1>1, <1>3, <1>4, <2>1, ReportsStay, PushesStay, ChannelsStay, FailedStay, ShownStay DEF EndsSettled
<1>7. PastSettled'
    <2>1. \A a \in Attempts : Exists(a)' => Exists(a)
        BY <1>3 DEF Exists
    <2> QED
        BY <1>1, <1>3, <1>4, <2>1, PastSame
<1>8. Awaited'
    <2> SUFFICES ASSUME NEW t \in Tasks, req'[t].pc = "wait" PROVE Served(Current(t))'
        BY DEF Awaited
    <2>1. req[t].pc = "wait" /\ Current(t)' = Current(t)
        BY <1>3 DEF Current
    <2>2. PICK a \in Attempts : a = Current(t)
        BY <2>1, CurrentAttempt
    <2>3. Served(a)
        BY <1>1, <2>1, <2>2 DEF Awaited
    <2>4. Served(a)'
        BY <1>1, <1>2, <1>3, <2>3, ServedWorks
    <2> QED
        BY <2>1, <2>2, <2>4, ServedCurrent
<1>9. LinksUp'
    <2>1. ASSUME NEW n \in Nodes, NEW e \in Sessions
          PROVE  /\ e # 1 => up'[n][e] = up[n][e]
                 /\ reader[n][e].pc = "swap" => Message(n, e)' = Message(n, e)
        <3>1. reader[n][e].pc = "swap" => up[n][e] # <<>>
            BY DEF IndInv, Bookkeeping, ReadersHold
        <3>2. e # 1 => up'[n][e] = up[n][e]
            BY <1>2, WordQueues DEF Works
        <3> QED
            BY <1>3, <3>1, <3>2 DEF HeadsKept, Message
    <2>2. UNCHANGED <<session, wsess, registered, conn, reader, req>>
        BY <1>2, <1>3
    <2> HIDE DEF Message
    <2> QED
        BY <1>1, <2>1, <2>2 DEF LinksUp
<1> QED
    BY <1>5, <1>6, <1>7, <1>8, <1>9 DEF SteadyInv

-----------------------------------------------------------------------------
(* Requests *)

\* One request moves, with its own events and streams; what it leaves behind is
\* settled, and what it waits for is served.
LEMMA RequestSteady ==
    ASSUME IndInv, History, SteadyInv, UNCHANGED <<exec, up, sessVars, reports, wsess>>,
           StatusKept, EventsLess, DownGrows, ShownStreamed', PastSettled',
           \A a \in Attempts : attempt'[a].status = "failed" => attempt[a].status = "failed",
           NEW t \in Tasks, \A u \in Tasks \ {t} : req'[u] = req[u],
           \A a \in Attempts : TaskOf(a) # t => (a \in streams => a \in streams') /\ events'[a] = events[a],
           req'[t].pc \in {"reserve", "dispatch"} => req'[t].sess = 1,
           req'[t].pc = "wait" => Served(Current(t))'
    PROVE SteadyInv'
<1>1. LinksUp /\ WordsInOrder /\ EndsSettled /\ PastSettled /\ Awaited
    BY DEF SteadyInv
<1>2. UNCHANGED <<reader, session, registered, conn>> /\ HeadsKept
    BY HeadsFrame DEF sessVars
<1>3. QueuesMove /\ ExecsGo
    BY DEF QueuesMove, ExecsGo
<1>4. Goes /\ PushersKept
    BY <1>2, <1>3, PushersFrame DEF Goes
<1>5. WordsInOrder'
    BY <1>1, <1>3, WordsKept
<1>6. EndsSettled'
    <2>1. reports \subseteq reports'
        OBVIOUS
    <2> QED
        BY <1>1, <1>4, <2>1, ReportsStay, PushesStay, ChannelsStay, FailedStay DEF EndsSettled
<1>7. Awaited'
    <2> SUFFICES ASSUME NEW u \in Tasks, u # t, req'[u].pc = "wait" PROVE Served(Current(u))'
        BY DEF Awaited
    <2>1. req[u].pc = "wait" /\ Current(u)' = Current(u)
        BY DEF Current
    <2>2. PICK a \in Attempts : a = Current(u) /\ TaskOf(a) = u
        BY <2>1, CurrentAttempt
    <2>3. Served(a)
        BY <1>1, <2>1, <2>2 DEF Awaited
    <2>4. a \in streams' /\ events'[a] = events[a]
        BY <2>2, <2>3 DEF Served
    <2>5. Served(a)'
        BY <1>2, <2>3, <2>4, ServedFrame
    <2> QED
        BY <2>1, <2>2, <2>5, ServedCurrent
<1>8. LinksUp'
    <2>1. \A u \in Tasks : req'[u].pc \in {"reserve", "dispatch"} => req'[u].sess = 1
        BY <1>1 DEF LinksUp
    <2> QED
        BY <1>1, <1>2, <2>1 DEF LinksUp, Message
<1> QED
    BY <1>5, <1>6, <1>7, <1>8 DEF SteadyInv

\* One request moves: what it leaves behind.
LEMMA PastMoves ==
    ASSUME IndInv, Goes, PastSettled, NEW t \in Tasks, \A u \in Tasks \ {t} : req'[u] = req[u],
           \A a \in Attempts : TaskOf(a) # t => (Exists(a)' => Exists(a)),
           \A a \in Attempts : a \in Past(t)' =>
               a \in Past(t) \/ (Settled(a) /\ (t \in Streaming => Fruitless(a))),
           req'[t].pc # "done" => req[t].pc # "done"
    PROVE PastSettled'
<1> SUFFICES ASSUME NEW u \in Tasks, NEW a \in Past(u)'
             PROVE Settled(a)' /\ (u \in Streaming /\ req'[u].pc # "done" => Fruitless(a)')
    BY DEF PastSettled
<1>1. a \in Attempts /\ TaskOf(a) = u
    BY DEF Past
<1>2. CASE u # t
    <2>1. a \in Past(u) /\ req'[u] = req[u]
        BY <1>1, <1>2 DEF Past, Current
    <2>2. Settled(a) /\ (u \in Streaming /\ req[u].pc # "done" => Fruitless(a))
        BY <2>1 DEF PastSettled
    <2> QED
        BY <1>1, <2>1, <2>2, SettledKept, FruitlessKept DEF Goes
<1>3. CASE u = t
    <2>1. Settled(a) /\ (t \in Streaming /\ req[t].pc # "done" => Fruitless(a))
        BY <1>1, <1>3 DEF PastSettled
    <2> QED
        BY <1>1, <1>3, <2>1, SettledKept, FruitlessKept DEF Goes
<1> QED
    BY <1>2, <1>3

\* A request that moves without an attempt or output of its own.
LEMMA MoveSteady ==
    ASSUME IndInv, History, SteadyInv,
           UNCHANGED <<attempt, exec, up, sessVars, reports, wsess, shown>>,
           EventsLess, DownGrows, NEW t \in Tasks, \A u \in Tasks \ {t} : req'[u] = req[u],
           \A a \in Attempts : TaskOf(a) # t => (a \in streams => a \in streams') /\ events'[a] = events[a],
           \A a \in Attempts : a \in Past(t)' =>
               a \in Past(t) \/ (Settled(a) /\ (t \in Streaming => Fruitless(a))),
           req'[t].pc # "done" => req[t].pc # "done",
           req'[t].pc \in {"reserve", "dispatch"} => req'[t].sess = 1,
           req'[t].pc = "wait" => Served(Current(t))'
    PROVE SteadyInv'
<1>1. Goes
    BY DEF Goes, QueuesMove, ExecsGo, StatusKept
<1>2. ShownStreamed' /\ PastSettled /\ StatusKept
    BY <1>1, ShownStay DEF SteadyInv, EndsSettled, Goes
<1>3. \A a \in Attempts : (Exists(a)' => Exists(a)) /\ (attempt'[a].status = "failed" => attempt[a].status = "failed")
    BY DEF Exists
<1>4. PastSettled'
    BY <1>1, <1>2, <1>3, PastMoves
<1> QED
    BY <1>2, <1>3, <1>4, RequestSteady

\* A request whose client leaves or whose job is cancelled.
LEMMA AsideSteady ==
    ASSUME IndInv, History, SteadyInv, NEW t \in Tasks, ClientGone(t) \/ CancelJob(t)
    PROVE SteadyInv'
<1>1. UNCHANGED <<attempt, exec, up, sessVars, reports, wsess, shown, events, streams, req>>
    BY DEF ClientGone, CancelJob, db, netVars, workerVars
<1>2. DownGrows
    BY DownFrame, CancelsGrow DEF ClientGone, CancelJob, CancelTask, netVars
<1>3. \A a \in Attempts : a \in Past(t)' => a \in Past(t)
    BY <1>1 DEF Past, Current, Exists
<1>4. UNCHANGED reader /\ LinksUp /\ Awaited
    BY <1>1 DEF sessVars, SteadyInv
<1>5. req'[t].pc = "wait" => Served(Current(t))'
    <2> SUFFICES ASSUME req'[t].pc = "wait" PROVE Served(Current(t))'
        OBVIOUS
    <2>1. Current(t)' = Current(t) /\ Served(Current(t))
        BY <1>1, <1>4 DEF Current, Awaited
    <2>2. PICK a : a = Current(t)
        OBVIOUS
    <2>3. a \in streams' /\ events'[a] = events[a] /\ Served(a)
        BY <1>1, <2>1, <2>2 DEF Served
    <2>4. Served(a)'
        BY <1>1, <1>2, <1>4, <2>3, ServedFrame
    <2> QED
        BY <2>1, <2>2, <2>4, ServedCurrent
<1>6. req'[t].pc \in {"reserve", "dispatch"} => req'[t].sess = 1
    BY <1>1, <1>4 DEF LinksUp
<1> QED
    BY <1>1, <1>2, <1>3, <1>5, <1>6, MoveSteady, EventsFrame

\* A request that goes to its start, to a reservation or to its end.
LEMMA StepSteady ==
    ASSUME IndInv, History, SteadyInv,
           UNCHANGED <<attempt, exec, up, sessVars, reports, wsess, shown>>, NEW t \in Tasks,
           NEW r, r.n = req[t].n, req' = [req EXCEPT ![t] = r], r.pc \in {"start", "reserve", "done"},
           r.pc = "reserve" => r.sess = 1, req[t].pc # "done",
           r.pc # "done" => req[t].pc \in {"start", "reserve"} \/ Past(t)' = {},
           UNCHANGED <<events, streams>> \/ (req[t].pc = "wait" /\ Cleanup(Current(t))), DownGrows
    PROVE SteadyInv'
<1>1. req'[t] = r /\ Current(t)' = Current(t) /\ \A u \in Tasks \ {t} : req'[u] = req[u]
    BY RequestRecordMoves
<1>2. \A a \in Attempts : a \in Past(t)' => a \in Past(t)
    BY <1>1 DEF Past, Exists
<1>3. events \in [Attempts -> Seq(StreamEvents)]
    BY DEF IndInv, TypeOK, RequestTypeOK
<1>4. /\ \A a \in Attempts : TaskOf(a) # t => (a \in streams => a \in streams') /\ events'[a] = events[a]
      /\ \A a \in Attempts : events'[a] = events[a] \/ events'[a] = <<>>
    <2>1. CASE UNCHANGED <<events, streams>>
        BY <2>1
    <2>2. CASE req[t].pc = "wait" /\ Cleanup(Current(t))
        <3>1. Current(t) \in Attempts /\ TaskOf(Current(t)) = t
            BY <2>2, CurrentAttempt
        <3> QED
            BY <1>3, <2>2, <3>1 DEF Cleanup
    <2> QED
        BY <2>1, <2>2
<1>5. EventsLess
    BY <1>4 DEF EventsLess
<1> QED
    BY <1>1, <1>2, <1>4, <1>5, MoveSteady

\* A request that has no attempt leaves nothing behind.
LEMMA NoPast ==
    ASSUME IndInv, NEW t \in Tasks, req[t].n = 0, UNCHANGED attempt
    PROVE Past(t)' = {}
<1>1. \A a \in Attempts : TaskOf(a) = t => ~Exists(a)
    BY DEF IndInv, Bookkeeping, AttemptsNumbered, Attempts, TaskOf
<1> QED
    BY <1>1 DEF Past, Exists

\* acquireQueue and createChatTask.
LEMMA SubmitSteady ==
    ASSUME IndInv, History, SteadyInv, NEW t \in Tasks, Submit(t) PROVE SteadyInv'
<1>1. /\ UNCHANGED <<attempt, exec, up, down, sessVars, reports, wsess, shown, events, streams>>
      /\ req[t].pc = "none"
    BY DEF Submit, netVars, workerVars
<1>2. Past(t)' = {}
    <2>1. req[t].n = 0
        BY <1>1 DEF History, LoopKeepsOff, LoopOK
    <2> QED
        BY <1>1, <2>1, NoPast
<1>3. PICK r : r.n = req[t].n /\ req' = [req EXCEPT ![t] = r] /\ r.pc \in {"start", "done"}
    <2>1. CASE req' = [req EXCEPT ![t].pc = "start"]
        <3> DEFINE r == [req[t] EXCEPT !.pc = "start"]
        <3>1. r.pc = "start" /\ r.n = req[t].n /\ req' = [req EXCEPT ![t] = r]
            BY <2>1 DEF IndInv, TypeOK, RequestTypeOK, RequestRecord
        <3> HIDE DEF r
        <3> QED
            BY <3>1
    <2>2. CASE Finish(t, "busy")
        <3> DEFINE r == [req[t] EXCEPT !.pc = "done", !.slot = NoSlot, !.sess = 0]
        <3>1. r.pc = "done" /\ r.n = req[t].n
            BY DEF IndInv, TypeOK, RequestTypeOK, RequestRecord
        <3>2. req' = [req EXCEPT ![t] = r]
            BY <2>2 DEF Finish
        <3> HIDE DEF r
        <3> QED
            BY <3>1, <3>2
    <2> QED
        BY <2>1, <2>2 DEF Submit
<1>4. UNCHANGED <<events, streams>> /\ DownGrows /\ req[t].pc # "done"
    BY <1>1, DownFrame
<1> QED
    BY <1>1, <1>2, <1>3, <1>4, StepSteady

\* selectReadySlot finds a slot, on the session that stays up.
LEMMA SelectSlotSteady ==
    ASSUME IndInv, History, SteadyInv, NEW t \in Tasks, SelectSlot(t) PROVE SteadyInv'
<1>1. /\ UNCHANGED <<attempt, exec, up, down, sessVars, reports, wsess, shown, events, streams>>
      /\ req[t].pc = "start"
    BY DEF SelectSlot, db, netVars, workerVars
<1>2. PICK s \in Reachable(t) :
        req' = [req EXCEPT ![t] = [req[t] EXCEPT !.pc = "reserve", !.slot = s, !.sess = session[NodeOf[s]]]]
    BY DEF SelectSlot
<1>3. session[NodeOf[s]] = 1
    BY ConstantsAssumption DEF Reachable, SteadyInv, LinksUp
<1> DEFINE r == [req[t] EXCEPT !.pc = "reserve", !.slot = s, !.sess = session[NodeOf[s]]]
<1>4. r.pc = "reserve" /\ r.n = req[t].n /\ r.sess = 1 /\ req' = [req EXCEPT ![t] = r]
    BY <1>2, <1>3 DEF IndInv, TypeOK, RequestTypeOK, RequestRecord
<1> HIDE DEF r
<1>5. UNCHANGED <<events, streams>> /\ DownGrows
    BY <1>1, DownFrame
<1> QED
    BY <1>1, <1>4, <1>5, StepSteady

\* No capacity, a cancel, a client that left.
LEMMA EndedSteady ==
    ASSUME IndInv, History, SteadyInv, NEW t \in Tasks, NoCapacity(t) \/ StartCancelled(t) \/ ContextDone(t)
    PROVE SteadyInv'
<1>1. /\ UNCHANGED <<attempt, exec, up, sessVars, reports, wsess, shown>>
      /\ req[t].pc \in {"start", "wait"}
      /\ UNCHANGED <<events, streams>> \/ (req[t].pc = "wait" /\ Cleanup(Current(t)))
    BY DEF NoCapacity, StartCancelled, ContextDone, netVars, workerVars
<1>2. DownGrows
    BY DownFrame, CancelsGrow DEF NoCapacity, StartCancelled, ContextDone, CancelTask, netVars
<1>3. PICK answer : Finish(t, answer)
    BY DEF NoCapacity, StartCancelled, ContextDone
<1> DEFINE r == [req[t] EXCEPT !.pc = "done", !.slot = NoSlot, !.sess = 0]
<1>4. r.pc = "done" /\ r.n = req[t].n
    BY DEF IndInv, TypeOK, RequestTypeOK, RequestRecord
<1>5. req' = [req EXCEPT ![t] = r]
    BY <1>3 DEF Finish
<1> HIDE DEF r
<1>6. r.pc \in {"start", "reserve", "done"} /\ req[t].pc # "done"
    BY <1>1, <1>4
<1> QED
    BY <1>1, <1>2, <1>4, <1>5, <1>6, StepSteady

\* reserveAttemptInDB: the attempts there are when another one is made are over.
LEMMA ReserveAttemptSteady ==
    ASSUME IndInv, History, SteadyInv, NEW t \in Tasks, ReserveAttempt(t) PROVE SteadyInv'
<1> DEFINE s == req[t].slot
           a == <<t, req[t].n + 1>>
<1>1. /\ UNCHANGED <<exec, up, sessVars, reports, wsess, shown, events, streams>> /\ req[t].pc = "reserve"
    BY DEF ReserveAttempt, workerVars
<1>2. req[t] \in RequestRecord /\ req[t].n \in Nat /\ req[t].sess = 1 /\ req[t].n < MaxAttempts
    BY <1>1, BoundsAssumption DEF IndInv, TypeOK, RequestTypeOK, RequestRecord, Bookkeeping, RequestsNamed, SteadyInv, LinksUp
<1>3. CASE /\ attempt' = [attempt EXCEPT ![a] = [status |-> "running", slot |-> s, first |-> FALSE]]
           /\ req' = [req EXCEPT ![t] = [@ EXCEPT !.pc = "dispatch", !.n = req[t].n + 1]]
           /\ UNCHANGED down
    <2>1. a \in Attempts /\ TaskOf(a) = t /\ a[2] = req[t].n + 1
        BY <1>2, BoundsAssumption DEF Attempts, TaskOf
    <2>2. ~Exists(a)
        BY <1>2, <2>1 DEF IndInv, Bookkeeping, AttemptsNumbered
    <2>3. exec[a].pc = "none"
        BY <2>1, <2>2 DEF IndInv, Bookkeeping, ExecutionsNamed
    <2>4. /\ attempt'[a].status = "running"
          /\ \A b \in Attempts : b # a => attempt'[b] = attempt[b]
        BY <1>3, <2>1 DEF IndInv, TypeOK, DbTypeOK
    <2>5. /\ req'[t].pc = "dispatch" /\ req'[t].sess = 1 /\ req'[t].n = req[t].n + 1
          /\ \A u \in Tasks \ {t} : req'[u] = req[u]
        <3>1. req'[t] = [req[t] EXCEPT !.pc = "dispatch", !.n = req[t].n + 1]
              /\ \A u \in Tasks \ {t} : req'[u] = req[u]
            BY <1>3 DEF IndInv, TypeOK, RequestTypeOK
        <3> QED
            BY <1>2, <3>1 DEF RequestRecord
    <2>6. Current(t)' = a
        BY <2>5 DEF Current
    <2> HIDE DEF a
    <2>7. \A b \in Attempts : b \in Past(t)' => b \in Past(t)
        <3> SUFFICES ASSUME NEW b \in Attempts, b \in Past(t)' PROVE b \in Past(t)
            OBVIOUS
        <3>1. TaskOf(b) = t /\ Exists(b)' /\ b # a
            BY <2>5, <2>6 DEF Past
        <3>2. Exists(b)
            BY <2>4, <3>1 DEF Exists
        <3> QED
            BY <1>1, <3>1, <3>2 DEF Past
    <2>8. StatusKept
        BY <2>3, <2>4 DEF StatusKept
    <2>9. Goes
        BY <1>1, <2>8 DEF Goes, QueuesMove, ExecsGo
    <2>10. /\ \A b \in Attempts : attempt'[b].status = "failed" => attempt[b].status = "failed"
           /\ \A b \in Attempts : TaskOf(b) # t => (Exists(b)' => Exists(b))
        BY <2>1, <2>4 DEF Exists
    <2>11. PastSettled'
        BY <1>1, <2>5, <2>7, <2>9, <2>10, PastMoves DEF SteadyInv
    <2>12. ShownStreamed'
        BY <1>1, <2>9, ShownStay DEF SteadyInv, EndsSettled
    <2> QED
        BY <1>1, <1>3, <2>5, <2>8, <2>10, <2>11, <2>12, RequestSteady, EventsFrame, DownFrame
<1>4. CASE /\ req' = [req EXCEPT ![t] = [@ EXCEPT !.pc = "start", !.slot = NoSlot, !.sess = 0]]
           /\ UNCHANGED <<attempt, down>>
    <2> DEFINE r == [req[t] EXCEPT !.pc = "start", !.slot = NoSlot, !.sess = 0]
    <2>1. r.pc = "start" /\ r.n = req[t].n
        BY DEF IndInv, TypeOK, RequestTypeOK, RequestRecord
    <2>2. req' = [req EXCEPT ![t] = r]
        BY <1>4
    <2> HIDE DEF r
    <2>3. UNCHANGED <<events, streams>> /\ DownGrows
        BY <1>1, <1>4, DownFrame
    <2> QED
        BY <1>1, <1>4, <2>1, <2>2, <2>3, StepSteady
<1>5. CASE CancelTask(t, {}) /\ Finish(t, "cancelled") /\ UNCHANGED attempt
    <2> DEFINE r == [req[t] EXCEPT !.pc = "done", !.slot = NoSlot, !.sess = 0]
    <2>1. r.pc = "done" /\ r.n = req[t].n
        BY DEF IndInv, TypeOK, RequestTypeOK, RequestRecord
    <2>2. req' = [req EXCEPT ![t] = r]
        BY <1>5 DEF Finish
    <2> HIDE DEF r
    <2>3. UNCHANGED <<events, streams>> /\ DownGrows
        BY <1>1, <1>5, CancelsGrow DEF CancelTask
    <2> QED
        BY <1>1, <1>5, <2>1, <2>2, <2>3, StepSteady
<1> QED
    BY <1>3, <1>4, <1>5 DEF ReserveAttempt

\* dispatchAttempt sends the attempt on a connection that stays up.
LEMMA DispatchAttemptSteady ==
    ASSUME Steady, IndInv, History, SteadyInv, NEW t \in Tasks, DispatchAttempt(t) PROVE SteadyInv'
<1>0. PICK a : a = Current(t)
    BY Zenon
<1> DEFINE n == NodeOf[req[t].slot]
           x == [kind |-> "execute_task", atts |-> {a}]
<1>1. /\ UNCHANGED <<exec, up, sessVars, reports, wsess, shown, events>> /\ req[t].pc = "dispatch"
    BY DEF DispatchAttempt, workerVars
<1>2. a \in Attempts /\ TaskOf(a) = t /\ n \in Nodes /\ req[t].sess = 1 /\ req[t] \in RequestRecord
    BY <1>0, <1>1, CurrentAttempt, ConstantsAssumption
       DEF IndInv, Bookkeeping, RequestsNamed, TypeOK, RequestTypeOK, SteadyInv, LinksUp
<1>3. conn[n][1] = "open" /\ ~Overflow
    BY <1>2 DEF SteadyInv, LinksUp, Steady
<1>4. /\ down' = [down EXCEPT ![n][1] = Append(@, x)] /\ streams' = streams \cup {a}
      /\ req' = [req EXCEPT ![t].pc = "wait"] /\ UNCHANGED attempt
    BY <1>0, <1>2, <1>3 DEF DispatchAttempt
<1> DEFINE r == [req[t] EXCEPT !.pc = "wait"]
<1>5. r.pc = "wait" /\ r.n = req[t].n /\ req' = [req EXCEPT ![t] = r]
    BY <1>2, <1>4 DEF RequestRecord
<1> HIDE DEF r
<1>6. req'[t] = r /\ Current(t)' = a /\ \A u \in Tasks \ {t} : req'[u] = req[u]
    BY <1>0, <1>5, RequestRecordMoves
<1>7. down \in [Nodes -> [Sessions -> Seq(DownMessage)]] /\ 1 \in Sessions
    BY FirstSession DEF IndInv, TypeOK, NetTypeOK
<1>8. DownGrows
    <2> SUFFICES ASSUME NEW m \in Nodes, NEW f \in Sessions, NEW i \in DOMAIN down[m][f]
                 PROVE  i \in DOMAIN down'[m][f] /\ down'[m][f][i] = down[m][f][i]
        BY DEF DownGrows
    <2>1. down'[m][f] = down[m][f] \/ down'[m][f] = Append(down[m][f], x)
        BY <1>2, <1>4, <1>7
    <2>2. down[m][f] \in Seq(DownMessage)
        BY <1>7
    <2> HIDE DEF x
    <2> QED
        BY <2>1, <2>2, SMTT(60)
<1>9. Dispatched(a)'
    <2> DEFINE q == down[n][1]
    <2>1. q \in Seq(DownMessage) /\ down'[n][1] = Append(q, x)
        BY <1>2, <1>4, <1>7
    <2> HIDE DEF q, x
    <2>2. Len(q) + 1 \in DOMAIN down'[n][1] /\ down'[n][1][Len(q) + 1] = x
        BY <2>1
    <2> QED
        BY <1>2, <1>7, <2>2, SMTT(60) DEF Dispatched, x
<1> HIDE DEF x
<1>10. Served(a)'
    BY <1>4, <1>9 DEF Served
<1>11. Served(Current(t))'
    BY <1>6, <1>10, ServedCurrent
<1>12. \A b \in Attempts : b \in Past(t)' => b \in Past(t)
    BY <1>0, <1>1, <1>4, <1>5, <1>6 DEF Past, Exists
<1>13. \A b \in Attempts : TaskOf(b) # t => (b \in streams => b \in streams') /\ events'[b] = events[b]
    BY <1>1, <1>4
<1> QED
    BY <1>1, <1>4, <1>5, <1>6, <1>8, <1>11, <1>12, <1>13, MoveSteady, EventsFrame

\* What a request receives is known of its current attempt.
LEMMA TakeEventSteady ==
    ASSUME IndInv, History, SteadyInv, NEW t \in Tasks, TakeEvent(t) PROVE SteadyInv'
<1>0. PICK a : a = Current(t)
    OBVIOUS
<1> DEFINE event == Head(events[a])
<1>1. /\ req[t].pc = "wait" /\ events[a] # <<>>
      /\ UNCHANGED <<attempt, exec, up, sessVars, reports, wsess>>
    BY <1>0 DEF TakeEvent, db, workerVars
<1>2. a \in Attempts /\ TaskOf(a) = t /\ Exists(a)
    BY <1>0, <1>1, CurrentAttempt
<1>3. events \in [Attempts -> Seq(StreamEvents)]
    BY DEF IndInv, TypeOK, RequestTypeOK
<1>4. 1 \in DOMAIN events[a] /\ events[a][1] = event
    BY <1>1, <1>2, <1>3
<1>5. Known(a, event)
    BY <1>2, <1>4 DEF SteadyInv, EndsSettled, ChannelsKnown
<1>6. Goes /\ UNCHANGED reader
    BY <1>1 DEF Goes, QueuesMove, ExecsGo, StatusKept, sessVars
<1>7. CASE /\ event = "token" /\ events' = [events EXCEPT ![a] = Tail(@)]
           /\ shown' = IF t \in Streaming THEN shown \cup {a} ELSE shown
           /\ UNCHANGED <<streams, req, down>>
    <2> DEFINE q == events[a]
    <2>1. q \in Seq(StreamEvents) /\ q # <<>> /\ events'[a] = Tail(q) /\ \A b \in Attempts : b # a => events'[b] = events[b]
        BY <1>1, <1>2, <1>3, <1>7
    <2>2. q[1] = "token"
        BY <1>4, <1>7
    <2> HIDE DEF q
    <2>3. \A i \in DOMAIN Tail(q) : i + 1 \in DOMAIN q /\ Tail(q)[i] = q[i + 1]
        BY <2>1
    <2>4. EventsLess
        <3> SUFFICES ASSUME NEW b \in Attempts, NEW i \in DOMAIN events'[b]
                     PROVE \E j \in DOMAIN events[b] : events'[b][i] = events[b][j]
            BY DEF EventsLess
        <3>1. CASE b = a
            BY <2>1, <2>3, <3>1 DEF q
        <3> QED
            BY <2>1, <3>1
    <2>5. Served(a)
        BY <1>0, <1>1 DEF SteadyInv, Awaited
    <2>6. Answered(a) => Answered(a)'
        <3> SUFFICES ASSUME Answered(a) PROVE Answered(a)'
            OBVIOUS
        <3>1. PICK i \in DOMAIN q : q[i] # "token"
            BY DEF Answered, q
        <3>2. i - 1 \in DOMAIN Tail(q) /\ Tail(q)[i - 1] = q[i]
            BY <2>1, <2>2, <3>1
        <3> QED
            BY <2>1, <3>1, <3>2 DEF Answered
    <2>7. Served(a)'
        <3>1. (Busy(a) => Busy(a)') /\ (Heard(a) => Heard(a)')
            BY <1>1, <1>6 DEF Busy, Heard
        <3>2. Dispatched(a) => Dispatched(a)'
            BY <1>7, DownFrame, DispatchedGrows
        <3>3. a \in streams'
            BY <1>7, <2>5 DEF Served
        <3> QED
            BY <2>5, <2>6, <3>1, <3>2, <3>3 DEF Served
    <2>8. Current(t)' = a
        BY <1>0, <1>7 DEF Current
    <2>9. Served(Current(t))'
        BY <2>7, <2>8, ServedCurrent
    <2>10. ShownStreamed'
        <3>1. \A b \in shown : exec[b].first /\ TaskOf(b) \in Streaming
            BY DEF SteadyInv, EndsSettled, ShownStreamed
        <3>2. exec[a].first
            BY <1>5, <1>7 DEF Known
        <3>3. \A b \in shown' : exec[b].first /\ TaskOf(b) \in Streaming
            BY <1>2, <1>7, <3>1, <3>2
        <3> QED
            BY <1>1, <3>3 DEF ShownStreamed
    <2>11. PastSettled'
        <3>1. \A b \in Attempts : Exists(b)' => Exists(b)
            BY <1>1 DEF Exists
        <3> QED
            BY <1>6, <1>7, <3>1, PastSame DEF SteadyInv
    <2>12. /\ \A b \in Attempts : attempt'[b].status = "failed" => attempt[b].status = "failed"
           /\ \A b \in Attempts : TaskOf(b) # t => (b \in streams => b \in streams') /\ events'[b] = events[b]
        BY <1>1, <1>2, <1>7, <2>1
    <2>13. DownGrows /\ StatusKept
        BY <1>6, <1>7, DownFrame DEF Goes
    <2>14. req'[t].pc \notin {"reserve", "dispatch"} /\ \A u \in Tasks \ {t} : req'[u] = req[u]
        BY <1>1, <1>7
    <2> QED
        BY <1>1, <2>4, <2>9, <2>10, <2>11, <2>12, <2>13, <2>14, RequestSteady
<1>8. CASE /\ Retries(t, event) /\ Cleanup(a)
           /\ req' = [req EXCEPT ![t] = [@ EXCEPT !.pc = "start", !.slot = NoSlot, !.sess = 0]]
           /\ SendCancels({a}) \/ UNCHANGED down
           /\ UNCHANGED shown
    <2>1. Settled(a) /\ (t \in Streaming => Fruitless(a))
        BY <1>5, <1>8 DEF Retries, Known, Finals, Failures, Reports
    <2> DEFINE r == [req[t] EXCEPT !.pc = "start", !.slot = NoSlot, !.sess = 0]
    <2>2. r.pc = "start" /\ r.n = req[t].n
        BY DEF IndInv, TypeOK, RequestTypeOK, RequestRecord
    <2>3. req' = [req EXCEPT ![t] = r]
        BY <1>8
    <2> HIDE DEF r
    <2>4. req'[t] = r /\ Current(t)' = a /\ \A u \in Tasks \ {t} : req'[u] = req[u]
        BY <1>0, <2>2, <2>3, RequestRecordMoves
    <2>5. DownGrows
        BY <1>8, CancelsGrow, DownFrame
    <2>6. \A b \in Attempts : b \in Past(t)' => b \in Past(t) \/ b = a
        BY <1>0, <1>1 DEF Past, Exists
    <2>7. \A b \in Attempts : b \in Past(t)' => b \in Past(t) \/ (Settled(b) /\ (t \in Streaming => Fruitless(b)))
        BY <2>1, <2>6
    <2>8. /\ \A b \in Attempts : TaskOf(b) # t => (b \in streams => b \in streams') /\ events'[b] = events[b]
          /\ \A b \in Attempts : events'[b] = events[b] \/ events'[b] = <<>>
        BY <1>2, <1>3, <1>8 DEF Cleanup
    <2>9. EventsLess
        BY <2>8 DEF EventsLess
    <2>10. /\ UNCHANGED <<attempt, exec, up, sessVars, reports, wsess, shown>>
           /\ req'[t].pc = "start" /\ req[t].pc = "wait"
        BY <1>1, <1>8, <2>2, <2>4
    <2> QED
        BY <2>4, <2>5, <2>7, <2>8, <2>9, <2>10, MoveSteady
<1>9. CASE /\ Cleanup(a) /\ Finish(t, IF event = "report_completed" THEN "ok" ELSE "error")
           /\ SendCancels({a}) \/ UNCHANGED down
           /\ UNCHANGED shown
    <2> DEFINE r == [req[t] EXCEPT !.pc = "done", !.slot = NoSlot, !.sess = 0]
    <2>1. r.pc = "done" /\ r.n = req[t].n
        BY DEF IndInv, TypeOK, RequestTypeOK, RequestRecord
    <2>2. req' = [req EXCEPT ![t] = r]
        BY <1>9 DEF Finish
    <2> HIDE DEF r
    <2>3. DownGrows
        BY <1>9, CancelsGrow, DownFrame
    <2>4. UNCHANGED <<attempt, exec, up, sessVars, reports, wsess, shown>> /\ Cleanup(Current(t)) /\ req[t].pc = "wait"
        BY <1>0, <1>1, <1>9
    <2>5. r.pc \in {"start", "reserve", "done"} /\ req[t].pc # "done"
        BY <2>1, <2>4
    <2> QED
        BY <2>1, <2>2, <2>3, <2>4, <2>5, StepSteady
<1> QED
    BY <1>0, <1>7, <1>8, <1>9 DEF TakeEvent

-----------------------------------------------------------------------------
(* Handlers *)

\* Channels keep what they hold.
EventsGrow ==
    \A a \in Attempts : \A i \in DOMAIN events[a] :
        i \in DOMAIN events'[a] /\ events'[a][i] = events[a][i]

\* A handler leaves an attempt served: an end that it takes from its queue, or is
\* done with but for the replan, is in the channel.
LEMMA ServedReads ==
    ASSUME IndInv, UNCHANGED <<exec, streams, down>>, EventsGrow,
           NEW n \in Nodes, NEW e \in Sessions, OthersRead(n, e),
           UNCHANGED up \/ (Drops(n, e) /\ reader'[n][e].pc = "idle"),
           NEW a \in Attempts, Served(a),
           /\ up[n][e] # <<>> /\ Message(n, e).kind \in Finals /\ Message(n, e).att = a
           /\ reader[n][e].pc # "replan" /\ (Drops(n, e) \/ reader'[n][e].pc = "replan")
           => Answered(a)'
    PROVE Served(a)'
<1>1. (Busy(a) => Busy(a)') /\ a \in streams'
    BY DEF Busy, Served
<1>2. Dispatched(a) => Dispatched(a)'
    BY DownFrame, DispatchedGrows
<1>3. Answered(a) => Answered(a)'
    BY DEF Answered, EventsGrow
<1>4. ASSUME Heard(a) PROVE Heard(a)' \/ Answered(a)'
    <2>1. PICK m \in Nodes, f \in Sessions : \E i \in DOMAIN up[m][f] :
            /\ up[m][f][i].kind \in Finals /\ up[m][f][i].att = a
            /\ ~(i = 1 /\ reader[m][f].pc = "replan")
        BY <1>4 DEF Heard
    <2>2. PICK i \in DOMAIN up[m][f] :
            /\ up[m][f][i].kind \in Finals /\ up[m][f][i].att = a
            /\ ~(i = 1 /\ reader[m][f].pc = "replan")
        BY <2>1
    <2>3. CASE ~(m = n /\ f = e)
        <3>1. reader'[m][f] = reader[m][f] /\ up'[m][f] = up[m][f]
            BY <2>3 DEF OthersRead
        <3> QED
            BY <2>2, <3>1 DEF Heard
    <2>4. CASE m = n /\ f = e
        <3> DEFINE q == up[n][e]
        <3>1. q \in Seq(UpMessage) /\ i \in DOMAIN q /\ q[i].kind \in Finals /\ q[i].att = a
            BY <2>2, <2>4 DEF IndInv, TypeOK, NetTypeOK
        <3>2. i = 1 => q # <<>> /\ Message(n, e) = q[i]
            BY <3>1 DEF Message
        <3>3. CASE UNCHANGED up
            <4>1. CASE i = 1 /\ reader'[n][e].pc = "replan"
                BY <2>2, <2>4, <3>1, <3>2, <4>1
            <4>2. CASE ~(i = 1 /\ reader'[n][e].pc = "replan")
                BY <2>2, <2>4, <3>3, <4>2 DEF Heard
            <4> QED
                BY <4>1, <4>2
        <3>4. CASE Drops(n, e) /\ reader'[n][e].pc = "idle"
            <4>1. CASE i = 1
                BY <2>2, <2>4, <3>1, <3>2, <3>4, <4>1
            <4>2. CASE i # 1
                <5>1. up'[n][e] = Tail(q) /\ q # <<>>
                    BY <3>4 DEF Drops, IndInv, TypeOK, NetTypeOK
                <5> HIDE DEF q
                <5>2. i - 1 \in DOMAIN Tail(q) /\ Tail(q)[i - 1] = q[i]
                    BY <3>1, <4>2, <5>1
                <5>3. /\ i - 1 \in DOMAIN up'[n][e] /\ up'[n][e][i - 1].kind \in Finals
                      /\ up'[n][e][i - 1].att = a
                    BY <3>1, <5>1, <5>2
                <5>4. reader'[n][e].pc # "replan"
                    BY <3>4
                <5> QED
                    BY <5>3, <5>4 DEF Heard
            <4> QED
                BY <4>1, <4>2
        <3> QED
            BY <3>3, <3>4
    <2> QED
        BY <2>3, <2>4
<1> QED
    BY <1>1, <1>2, <1>3, <1>4 DEF Served

\* What a handler has to show.
LEMMA HandlerSteady ==
    ASSUME IndInv, History, SteadyInv,
           UNCHANGED <<exec, down, req, streams, shown, wsess, session, conn, registered>>,
           StatusKept, EventsGrow, \A a \in Attempts : Exists(a)' => Exists(a),
           NEW n \in Nodes, NEW e \in Sessions, e = 1, OthersRead(n, e),
           UNCHANGED up \/ (Drops(n, e) /\ reader'[n][e].pc = "idle"),
           reader'[n][e].pc # "join", reader'[n][e].pc = "swap" => Message(n, e)'.kind = "full_state",
           ReportsSettled', PushesKnown', ChannelsKnown', FailedOver',
           \A a \in Attempts :
               /\ a \in streams
               /\ up[n][e] # <<>> /\ Message(n, e).kind \in Finals /\ Message(n, e).att = a
               /\ reader[n][e].pc # "replan" /\ (Drops(n, e) \/ reader'[n][e].pc = "replan")
               => Answered(a)'
    PROVE SteadyInv'
<1>1. LinksUp /\ WordsInOrder /\ EndsSettled /\ PastSettled /\ Awaited
    BY DEF SteadyInv
<1>2. QueuesMove /\ ExecsGo
    BY DEF QueuesMove, ExecsGo
<1>3. Goes
    BY <1>2 DEF Goes
<1>4. WordsInOrder'
    BY <1>1, <1>2, WordsKept
<1>5. EndsSettled'
    BY <1>1, <1>3, ShownStay DEF EndsSettled
<1>6. PastSettled'
    BY <1>1, <1>3, PastSame
<1>7. Awaited'
    <2> SUFFICES ASSUME NEW t \in Tasks, req'[t].pc = "wait" PROVE Served(Current(t))'
        BY DEF Awaited
    <2>1. req[t].pc = "wait" /\ Current(t)' = Current(t)
        BY DEF Current
    <2>2. PICK a \in Attempts : a = Current(t)
        BY <2>1, CurrentAttempt
    <2>3. Served(a) /\ a \in streams
        BY <1>1, <2>1, <2>2 DEF Awaited, Served
    <2>4. Served(a)'
        BY <2>3, ServedReads
    <2> QED
        BY <2>1, <2>2, <2>4, ServedCurrent
<1>8. LinksUp'
    <2>1. ASSUME NEW m \in Nodes, NEW f \in Sessions
          PROVE  /\ f # 1 => reader'[m][f] = reader[m][f] /\ up'[m][f] = up[m][f]
                 /\ reader'[m][f].pc # "join"
                 /\ reader'[m][f].pc = "swap" => Message(m, f)'.kind = "full_state"
        <3>1. CASE m = n /\ f = e
            BY <3>1
        <3>2. CASE ~(m = n /\ f = e)
            BY <1>1, <3>2 DEF OthersRead, LinksUp, Message
        <3> QED
            BY <3>1, <3>2
    <2> HIDE DEF Message
    <2> QED
        BY <1>1, <2>1 DEF LinksUp
<1> QED
    BY <1>4, <1>5, <1>6, <1>7, <1>8 DEF SteadyInv

\* A handler that neither pushes nor changes an attempt but to say that it runs.
LEMMA QuietHandlerSteady ==
    ASSUME IndInv, History, SteadyInv,
           UNCHANGED <<exec, down, req, streams, shown, wsess, session, conn, registered, events, reports>>,
           StatusKept, \A a \in Attempts : Exists(a)' => Exists(a),
           \A a \in Attempts : attempt'[a].status = "failed" => attempt[a].status = "failed",
           NEW n \in Nodes, NEW e \in Sessions, e = 1, OthersRead(n, e),
           UNCHANGED up \/ (Drops(n, e) /\ reader'[n][e].pc = "idle"),
           reader'[n][e].pc \in {"idle", "swap", "replan"},
           reader'[n][e].pc = "swap" => Message(n, e)'.kind = "full_state",
           reader[n][e].pc = "replan" \/ Message(n, e).kind \notin Finals
    PROVE SteadyInv'
<1>1. Goes
    BY DEF Goes, QueuesMove, ExecsGo
<1>2. PushersKept /\ EventsLess /\ reports \subseteq reports' /\ EventsGrow
    BY PushersOthers, EventsFrame DEF EventsGrow
<1>3. ReportsSettled' /\ PushesKnown' /\ ChannelsKnown' /\ FailedOver'
    BY <1>1, <1>2, ReportsStay, PushesStay, ChannelsStay, FailedStay DEF SteadyInv, EndsSettled
<1> QED
    BY <1>2, <1>3, HandlerSteady

\* Readers that are not off read the first session.
LEMMA ReadsFirst ==
    ASSUME LinksUp, NEW n \in Nodes, NEW e \in Sessions, reader[n][e].pc # "off"
    PROVE e = 1
    BY DEF LinksUp

\* A reader that moves to another place, or drops its message.
LEMMA ReaderMoved ==
    ASSUME IndInv, NEW n \in Nodes, NEW e \in Sessions, NEW pc, ReaderAt(n, e, pc), UNCHANGED up
    PROVE OthersRead(n, e) /\ reader'[n][e].pc = pc
<1>1. reader \in [Nodes -> [Sessions -> ReaderRecord]]
    BY DEF IndInv, TypeOK, SessionTypeOK
<1> QED
    BY <1>1 DEF ReaderAt, OthersRead, ReaderRecord

LEMMA ReaderDropped ==
    ASSUME IndInv, NEW n \in Nodes, NEW e \in Sessions, NextMessage(n, e), up[n][e] # <<>>
    PROVE OthersRead(n, e) /\ reader'[n][e].pc = "idle" /\ Drops(n, e)
    BY ReaderDrops DEF NextMessage, Drops

\* upsertWorkerState and handleWorkerSlotState.
LEMMA StateSteady ==
    ASSUME IndInv, History, SteadyInv, NEW n \in Nodes, NEW e \in Sessions,
           UpsertWorkerState(n, e) \/ HandleSlotState(n, e)
    PROVE SteadyInv'
<1>1. /\ UNCHANGED <<exec, down, req, streams, shown, wsess, session, conn, registered, events, reports, attempt, up>>
      /\ reader[n][e].pc = "idle"
    BY DEF UpsertWorkerState, HandleSlotState, Receives, reqVars, netVars, workerVars
<1>2. PICK pc \in {"swap", "replan"} :
        ReaderAt(n, e, pc) /\ (pc = "swap" => Message(n, e).kind = "full_state")
        /\ Message(n, e).kind \in {"full_state", "slot_state"}
    BY DEF UpsertWorkerState, HandleSlotState, Receives
<1>3. OthersRead(n, e) /\ reader'[n][e].pc = pc
    BY <1>1, <1>2, ReaderMoved
<1>4. StatusKept /\ \A a \in Attempts : /\ Exists(a)' => Exists(a)
                                        /\ attempt'[a].status = "failed" => attempt[a].status = "failed"
    BY <1>1 DEF StatusKept, Exists
<1>5. e = 1
    BY <1>1, ReadsFirst DEF SteadyInv
<1>6. Message(n, e)' = Message(n, e) /\ Message(n, e).kind \notin Finals
    BY <1>1, <1>2 DEF Message, Finals, Failures, Reports
<1> HIDE DEF Message
<1> QED
    BY <1>1, <1>2, <1>3, <1>4, <1>5, <1>6, QuietHandlerSteady

\* The session that registers is the one there is.
LEMMA SwapSteady ==
    ASSUME IndInv, History, SteadyInv, NEW n \in Nodes, NEW e \in Sessions, SwapSession(n, e)
    PROVE SteadyInv'
<1>1. /\ UNCHANGED <<exec, down, req, streams, shown, wsess, events, reports, attempt, up>>
      /\ reader[n][e].pc = "swap"
    BY DEF SwapSession, db, reqVars, netVars, workerVars
<1>2. e = 1 /\ session[n] = 1 /\ 1 \in registered[n] /\ Message(n, e).kind = "full_state"
    BY <1>1, ReadsFirst DEF SteadyInv, LinksUp
<1>3. UNCHANGED <<session, registered, conn>>
    <2>1. session \in [Nodes -> {0} \cup Sessions] /\ registered \in [Nodes -> SUBSET Sessions]
        BY DEF IndInv, TypeOK, SessionTypeOK
    <2>2. session' = [session EXCEPT ![n] = session[n]] /\ registered' = [registered EXCEPT ![n] = registered[n]]
        BY <1>2 DEF SwapSession
    <2>3. UNCHANGED conn
        BY <1>2 DEF SwapSession
    <2> QED
        BY <2>1, <2>2, <2>3
<1>4. reader' = [reader EXCEPT ![n][e] = [pc |-> "replan", old |-> 0]]
    BY <1>2 DEF SwapSession
<1>5. OthersRead(n, e) /\ reader'[n][e].pc = "replan"
    <2> DEFINE r == [pc |-> "replan", old |-> 0]
    <2>1. reader' = [reader EXCEPT ![n][e] = r] /\ r.pc = "replan"
        BY <1>4
    <2> HIDE DEF r
    <2> QED
        BY <1>1, <2>1, ReaderHolds
<1>6. StatusKept /\ \A a \in Attempts : /\ Exists(a)' => Exists(a)
                                        /\ attempt'[a].status = "failed" => attempt[a].status = "failed"
    BY <1>1 DEF StatusKept, Exists
<1>7. Message(n, e).kind \notin Finals
    BY <1>2 DEF Finals, Failures, Reports
<1> QED
    BY <1>1, <1>2, <1>3, <1>5, <1>6, <1>7, QuietHandlerSteady

\* The replan that ends a handler.
LEMMA ReplanSteady ==
    ASSUME IndInv, History, SteadyInv, NEW n \in Nodes, NEW e \in Sessions, Replan(n, e)
    PROVE SteadyInv'
<1>1. /\ UNCHANGED <<exec, down, req, streams, shown, wsess, session, conn, registered, events, reports, attempt>>
      /\ reader[n][e].pc = "replan" /\ NextMessage(n, e)
    BY DEF Replan, reqVars, workerVars
<1>2. up[n][e] # <<>>
    BY <1>1 DEF IndInv, Bookkeeping, ReadersHold
<1>3. OthersRead(n, e) /\ reader'[n][e].pc = "idle" /\ Drops(n, e)
    BY <1>1, <1>2, ReaderDropped
<1>4. StatusKept /\ \A a \in Attempts : /\ Exists(a)' => Exists(a)
                                        /\ attempt'[a].status = "failed" => attempt[a].status = "failed"
    BY <1>1 DEF StatusKept, Exists
<1>5. e = 1
    BY <1>1, ReadsFirst DEF SteadyInv
<1> QED
    BY <1>1, <1>3, <1>4, <1>5, QuietHandlerSteady

\* handleWorkerAttemptStarted: the attempt was not settled.
LEMMA StartedSteady ==
    ASSUME IndInv, History, SteadyInv, NEW n \in Nodes, NEW e \in Sessions, HandleAttemptStarted(n, e)
    PROVE SteadyInv'
<1>1. /\ UNCHANGED <<exec, down, req, streams, shown, wsess, session, conn, registered, events, reports>>
      /\ reader[n][e].pc = "idle" /\ NextMessage(n, e) /\ up[n][e] # <<>> /\ Message(n, e).kind = "started"
      /\ attempt' = [attempt EXCEPT ![Message(n, e).att].status = "running"]
    BY DEF HandleAttemptStarted, Receives, reqVars, workerVars
<1>2. OthersRead(n, e) /\ reader'[n][e].pc = "idle" /\ Drops(n, e)
    BY <1>1, ReaderDropped
<1>3. PICK a \in Attempts : a = Message(n, e).att /\ Exists(a) /\ Said(a, "started")
    <2>1. Message(n, e).att \in Attempts /\ Exists(Message(n, e).att)
        BY <1>1, AttemptMessageNamed
    <2>2. Said(Message(n, e).att, "started")
        BY <1>1, HeadSaid
    <2> QED
        BY <2>1, <2>2
<1>4. /\ attempt'[a].status = "running"
      /\ \A b \in Attempts : b # a => attempt'[b] = attempt[b]
    BY <1>1, <1>3 DEF IndInv, TypeOK, DbTypeOK, AttemptRecord
<1>5. StatusKept /\ \A b \in Attempts : /\ Exists(b)' => Exists(b)
                                        /\ attempt'[b].status = "failed" => attempt[b].status = "failed"
    BY <1>3, <1>4 DEF StatusKept, Exists
<1>6. e = 1 /\ Message(n, e).kind \notin Finals
    BY <1>1, ReadsFirst DEF SteadyInv, Finals, Failures, Reports
<1> QED
    BY <1>1, <1>2, <1>5, <1>6, QuietHandlerSteady

-----------------------------------------------------------------------------
(* Handlers that push *)

\* A queue that stays has not lost its head.
LEMMA StaysOrDrops ==
    ASSUME IndInv, NEW n \in Nodes, NEW e \in Sessions, UNCHANGED up
    PROVE ~Drops(n, e)
<1>1. SUFFICES ASSUME Drops(n, e) PROVE FALSE
    OBVIOUS
<1> DEFINE q == up[n][e]
<1>2. q \in Seq(UpMessage) /\ q # <<>> /\ up'[n][e] = Tail(q) /\ up'[n][e] = q
    BY <1>1 DEF Drops, IndInv, TypeOK, NetTypeOK
<1> HIDE DEF q
<1>3. Len(Tail(q)) = Len(q) - 1 /\ Len(q) \in Nat
    BY <1>2
<1> QED
    BY <1>2, <1>3

\* A reader that is about to push what is known.
LEMMA PushesMove ==
    ASSUME IndInv, Goes, PushesKnown, NEW n \in Nodes, NEW e \in Sessions, OthersRead(n, e), UNCHANGED up,
           NEW a \in Attempts, NEW k, a = Message(n, e).att, k = Message(n, e).kind, Known(a, k)'
    PROVE PushesKnown'
<1> SUFFICES ASSUME NEW m \in Nodes, NEW f \in Sessions, reader'[m][f].pc = "push"
             PROVE  Known(Message(m, f).att, Message(m, f).kind)'
    BY DEF PushesKnown
<1>1. PICK b \in Attempts, l \in Kinds \cup {k} : b = Message(m, f).att /\ l = Message(m, f).kind /\ Known(b, l)'
    <2>1. CASE m = n /\ f = e
        BY <2>1
    <2>2. CASE ~(m = n /\ f = e)
        <3>1. reader[m][f].pc = "push"
            BY <2>2 DEF OthersRead
        <3>2. up[m][f] # <<>> /\ Message(m, f).kind \in {"started"} \cup StreamEvents
            BY <3>1 DEF IndInv, Bookkeeping, ReadersHold
        <3>3. PICK b \in Attempts, l \in Kinds : b = Message(m, f).att /\ l = Message(m, f).kind
            BY <3>2, AttemptMessageNamed DEF Kinds
        <3>4. Known(b, l)
            BY <3>1, <3>3 DEF PushesKnown
        <3> QED
            BY <3>3, <3>4, KnownKept
    <2> QED
        BY <2>1, <2>2
<1>2. Message(m, f)'.att = b /\ Message(m, f)'.kind = l
    BY <1>1 DEF Message
<1> HIDE DEF Message
<1> QED
    BY <1>1, <1>2 DEF Known, Settled, Fruitless, Said, SaidIn

\* A handler that has stored what the message says, and goes to push it.
LEMMA StoredSteady ==
    ASSUME IndInv, History, SteadyInv,
           UNCHANGED <<exec, down, req, streams, shown, wsess, session, conn, registered, events, up>>,
           StatusKept, \A a \in Attempts : Exists(a)' => Exists(a),
           NEW n \in Nodes, NEW e \in Sessions, reader[n][e].pc = "idle", ReaderAt(n, e, "push"),
           NEW a \in Attempts, NEW k, a = Message(n, e).att, k = Message(n, e).kind, Known(a, k)',
           ReportsSettled', FailedOver'
    PROVE SteadyInv'
<1>1. Goes
    BY DEF Goes, QueuesMove, ExecsGo
<1>2. EventsLess /\ EventsGrow
    BY EventsFrame DEF EventsGrow
<1>3. OthersRead(n, e) /\ reader'[n][e].pc = "push"
    BY ReaderMoved
<1>4. PushesKnown'
    BY <1>1, <1>3, PushesMove DEF SteadyInv, EndsSettled
<1>5. ChannelsKnown'
    BY <1>1, <1>2, ChannelsStay DEF SteadyInv, EndsSettled
<1>6. e = 1 /\ ~Drops(n, e)
    BY ReadsFirst, StaysOrDrops DEF SteadyInv
<1> QED
    BY <1>2, <1>3, <1>4, <1>5, <1>6, HandlerSteady

\* handleToken: there was output.
LEMMA TokenSteady ==
    ASSUME IndInv, History, SteadyInv, NEW n \in Nodes, NEW e \in Sessions, HandleToken(n, e)
    PROVE SteadyInv'
<1>1. /\ UNCHANGED <<exec, down, req, streams, shown, wsess, session, conn, registered, events, reports>>
      /\ reader[n][e].pc = "idle" /\ up[n][e] # <<>> /\ Message(n, e).kind = "token"
    BY DEF HandleToken, Receives, reqVars, workerVars
<1>2. PICK a \in Attempts : a = Message(n, e).att /\ Said(a, "token")
    <2>1. Message(n, e).kind \in {"started"} \cup StreamEvents
        BY <1>1 DEF StreamEvents
    <2>2. Message(n, e).att \in Attempts
        BY <1>1, <2>1, AttemptMessageNamed
    <2>3. Said(Message(n, e).att, "token")
        BY <1>1, HeadSaid
    <2> QED
        BY <2>2, <2>3
<1>3. \/ attempt' = [attempt EXCEPT ![a].first = TRUE] /\ ReaderAt(n, e, "push") /\ UNCHANGED up
      \/ NextMessage(n, e) /\ UNCHANGED attempt
    BY <1>2 DEF HandleToken
<1>4. \A b \in Attempts : attempt'[b].status = attempt[b].status
    BY <1>3 DEF IndInv, TypeOK, DbTypeOK, AttemptRecord
<1>5. StatusKept /\ \A b \in Attempts : /\ Exists(b)' => Exists(b)
                                        /\ attempt'[b].status = "failed" => attempt[b].status = "failed"
    BY <1>4 DEF StatusKept, Exists
<1>6. CASE ReaderAt(n, e, "push") /\ UNCHANGED up
    <2>1. exec'[a].first
        BY <1>1, <1>2 DEF History, OutputKnown
    <2>2. Known(a, "token")'
        BY <2>1 DEF Known, Finals, Failures, Reports
    <2>3. Goes
        BY <1>1, <1>5, <1>6 DEF Goes, QueuesMove, ExecsGo
    <2>4. ReportsSettled' /\ FailedOver'
        BY <1>1, <1>5, <2>3, ReportsStay, FailedStay DEF SteadyInv, EndsSettled
    <2> QED
        BY <1>1, <1>2, <1>5, <1>6, <2>2, <2>4, StoredSteady
<1>7. CASE NextMessage(n, e)
    <2>1. OthersRead(n, e) /\ reader'[n][e].pc = "idle" /\ Drops(n, e)
        BY <1>1, <1>7, ReaderDropped
    <2>2. e = 1 /\ Message(n, e).kind \notin Finals
        BY <1>1, ReadsFirst DEF SteadyInv, Finals, Failures, Reports
    <2> QED
        BY <1>1, <1>5, <2>1, <2>2, QuietHandlerSteady
<1> QED
    BY <1>3, <1>6, <1>7

\* handleWorkerAttemptFailed: the attempt is over, and its start was handled before.
LEMMA FailedSteady ==
    ASSUME IndInv, History, SteadyInv, NEW n \in Nodes, NEW e \in Sessions, HandleAttemptFailed(n, e)
    PROVE SteadyInv'
<1>1. /\ UNCHANGED <<exec, down, req, streams, shown, wsess, session, conn, registered, events, reports, up>>
      /\ reader[n][e].pc = "idle" /\ up[n][e] # <<>> /\ Message(n, e).kind \in Failures
      /\ ReaderAt(n, e, "push")
    BY DEF HandleAttemptFailed, Receives, reqVars, netVars, workerVars
<1>2. PICK a \in Attempts, k \in Failures : a = Message(n, e).att /\ k = Message(n, e).kind /\ Said(a, k) /\ Exists(a)
    <2>1. Message(n, e).kind \in {"started"} \cup StreamEvents
        BY <1>1 DEF StreamEvents
    <2>2. Message(n, e).att \in Attempts /\ Exists(Message(n, e).att)
        BY <1>1, <2>1, AttemptMessageNamed
    <2>3. Said(Message(n, e).att, Message(n, e).kind)
        BY <1>1, HeadSaid
    <2> QED
        BY <1>1, <2>2, <2>3
<1>3. /\ attempt'[a].status = "failed"
      /\ \A b \in Attempts : b # a => attempt'[b] = attempt[b]
    <2>1. attempt' = [attempt EXCEPT ![a] = [@ EXCEPT !.status = "failed", !.first = (k = "failed_final")]]
        BY <1>2 DEF HandleAttemptFailed
    <2> QED
        BY <2>1 DEF IndInv, TypeOK, DbTypeOK, AttemptRecord
<1>4. StatusKept /\ \A b \in Attempts : Exists(b)' => Exists(b)
    BY <1>2, <1>3 DEF StatusKept, Exists
<1>5. Goes
    BY <1>1, <1>4 DEF Goes, QueuesMove, ExecsGo
<1>6. exec[a].pc = "done" /\ ~Said(a, "report_completed")
    BY <1>2 DEF SteadyInv, WordsInOrder
<1>7. ~Said(a, "started")
    <2>1. Message(n, e).kind \in Finals
        BY <1>1 DEF Finals
    <2> QED
        BY <1>1, <1>2, <2>1, NoStartBehind DEF SteadyInv
<1>8. (\A l : Said(a, l)' <=> Said(a, l)) /\ exec' = exec
    BY <1>1 DEF Said, SaidIn
<1>9. Known(a, k)'
    <2>1. Settled(a)'
        BY <1>3, <1>6, <1>7, <1>8 DEF Settled
    <2>2. k = "failed_retry" => Fruitless(a)'
        BY <1>2, <1>8 DEF Fruitless, History, OutputKnown
    <2> QED
        BY <1>2, <2>1, <2>2 DEF Known, Failures
<1>10. ReportsSettled'
    BY <1>1, <1>5, ReportsStay DEF SteadyInv, EndsSettled
<1>11. FailedOver'
    <2> SUFFICES ASSUME NEW b \in Attempts, attempt'[b].status = "failed"
                 PROVE exec'[b].pc = "done" /\ (Said(b, "report_completed")' => b \in reports')
        BY DEF FailedOver
    <2>1. CASE b = a
        BY <1>6, <1>8, <2>1
    <2>2. CASE b # a
        <3>1. exec[b].pc = "done" /\ (Said(b, "report_completed") => b \in reports)
            BY <1>3, <2>2 DEF SteadyInv, EndsSettled, FailedOver
        <3>2. Said(b, "report_completed")' => Said(b, "report_completed")
            BY <1>1 DEF Said, SaidIn
        <3> QED
            BY <1>1, <3>1, <3>2
    <2> QED
        BY <2>1, <2>2
<1> QED
    BY <1>1, <1>2, <1>4, <1>9, <1>10, <1>11, StoredSteady

\* handleComputeReport: likewise, and a second report of an attempt stores nothing.
LEMMA ReportSteady ==
    ASSUME IndInv, History, SteadyInv, NEW n \in Nodes, NEW e \in Sessions, HandleComputeReport(n, e)
    PROVE SteadyInv'
<1>1. /\ UNCHANGED <<exec, down, req, streams, shown, wsess, session, conn, registered, events, up>>
      /\ reader[n][e].pc = "idle" /\ up[n][e] # <<>> /\ Message(n, e).kind \in Reports
      /\ ReaderAt(n, e, "push")
    BY DEF HandleComputeReport, Receives, reqVars, netVars, workerVars
<1>2. PICK a \in Attempts, k \in Reports : a = Message(n, e).att /\ k = Message(n, e).kind /\ Said(a, k) /\ Exists(a)
    <2>1. Message(n, e).kind \in {"started"} \cup StreamEvents
        BY <1>1 DEF StreamEvents
    <2>2. Message(n, e).att \in Attempts /\ Exists(Message(n, e).att)
        BY <1>1, <2>1, AttemptMessageNamed
    <2>3. Said(Message(n, e).att, Message(n, e).kind)
        BY <1>1, HeadSaid
    <2> QED
        BY <1>1, <2>2, <2>3
<1>3. (\A b \in Attempts : \A l : Said(b, l)' <=> Said(b, l)) /\ exec' = exec
    BY <1>1 DEF Said, SaidIn
<1>4. /\ attempt'[a].status # "running" /\ (attempt[a].status # "running" => attempt'[a].status # "none")
      /\ \A b \in Attempts : b # a => attempt'[b] = attempt[b]
      /\ reports' = reports \cup {a}
    <2>1. CASE a \in reports
        <3>1. UNCHANGED <<attempt, reports>>
            BY <1>2, <2>1 DEF HandleComputeReport, db
        <3>2. Settled(a)
            BY <2>1 DEF SteadyInv, EndsSettled, ReportsSettled
        <3> QED
            BY <1>2, <2>1, <3>1, <3>2 DEF Settled, Exists
    <2>2. CASE a \notin reports
        <3>1. attempt' = [attempt EXCEPT ![a].status = StatusOfReport(k)] /\ reports' = reports \cup {a}
            BY <1>2, <2>2 DEF HandleComputeReport
        <3>2. StatusOfReport(k) \in {"completed", "cancelled", "failed"}
            BY DEF StatusOfReport
        <3> QED
            BY <3>1, <3>2 DEF IndInv, TypeOK, DbTypeOK, AttemptRecord
    <2> QED
        BY <2>1, <2>2
<1>5. StatusKept /\ \A b \in Attempts : Exists(b)' => Exists(b)
    BY <1>2, <1>4 DEF StatusKept, Exists
<1>6. Goes
    BY <1>1, <1>5 DEF Goes, QueuesMove, ExecsGo
<1>7. exec[a].pc = "done"
    BY <1>2 DEF History, ReportedOnce
<1>8. ~Said(a, "started")
    <2>1. Message(n, e).kind \in Finals
        BY <1>1 DEF Finals
    <2> QED
        BY <1>1, <1>2, <2>1, NoStartBehind DEF SteadyInv
<1>9. Settled(a)'
    BY <1>3, <1>4, <1>7, <1>8 DEF Settled
<1>10. Known(a, k)'
    BY <1>2, <1>9 DEF Known, Reports
<1>11. ReportsSettled'
    <2>1. ASSUME NEW b \in reports' PROVE Settled(b)'
        <3>1. CASE b = a
            BY <1>9, <3>1
        <3>2. CASE b # a
            <4>1. b \in Attempts /\ Settled(b)
                BY <1>4, <3>2 DEF SteadyInv, EndsSettled, ReportsSettled, IndInv, TypeOK, DbTypeOK
            <4> QED
                BY <1>6, <4>1, SettledKept DEF Goes
        <3> QED
            BY <3>1, <3>2
    <2> QED
        BY <2>1 DEF ReportsSettled
<1>12. FailedOver'
    <2> SUFFICES ASSUME NEW b \in Attempts, attempt'[b].status = "failed"
                 PROVE exec'[b].pc = "done" /\ (Said(b, "report_completed")' => b \in reports')
        BY DEF FailedOver
    <2>1. CASE b = a
        BY <1>3, <1>4, <1>7, <2>1
    <2>2. CASE b # a
        <3>1. exec[b].pc = "done" /\ (Said(b, "report_completed") => b \in reports)
            BY <1>4, <2>2 DEF SteadyInv, EndsSettled, FailedOver
        <3> QED
            BY <1>3, <1>4, <3>1
    <2> QED
        BY <2>1, <2>2
<1> QED
    BY <1>1, <1>2, <1>5, <1>10, <1>11, <1>12, StoredSteady

\* The event that a handler pushes is known, and ends the wait for it.
LEMMA PushSteady ==
    ASSUME IndInv, History, SteadyInv, NEW n \in Nodes, NEW e \in Sessions, PushEvent(n, e)
    PROVE SteadyInv'
<1>1. /\ UNCHANGED <<exec, down, req, streams, shown, wsess, session, conn, registered, attempt, reports>>
      /\ reader[n][e].pc = "push"
      /\ \/ ReaderAt(n, e, "replan") /\ UNCHANGED up
         \/ NextMessage(n, e)
    BY DEF PushEvent, db, workerVars
<1>2. up[n][e] # <<>> /\ Message(n, e).kind \in StreamEvents
    BY <1>1 DEF IndInv, Bookkeeping, ReadersHold
<1>3. PICK a \in Attempts, k \in StreamEvents : a = Message(n, e).att /\ k = Message(n, e).kind
    BY <1>2, AttemptMessageNamed
<1>4. Push(a, k)
    BY <1>3 DEF PushEvent
<1>5. Known(a, k)
    BY <1>1, <1>3 DEF SteadyInv, EndsSettled, PushesKnown
<1>6. events \in [Attempts -> Seq(StreamEvents)]
    BY DEF IndInv, TypeOK, RequestTypeOK
<1>7. /\ \A b \in Attempts : events'[b] = events[b] \/ (b = a /\ events'[b] = Append(events[b], k))
      /\ a \in streams => events'[a] = Append(events[a], k)
    BY <1>4, <1>6 DEF Push
<1>8. EventsGrow
    <2> SUFFICES ASSUME NEW b \in Attempts, NEW i \in DOMAIN events[b]
                 PROVE i \in DOMAIN events'[b] /\ events'[b][i] = events[b][i]
        BY DEF EventsGrow
    <2> DEFINE q == events[b]
    <2>1. q \in Seq(StreamEvents) /\ i \in DOMAIN q /\ (events'[b] = q \/ events'[b] = Append(q, k))
        BY <1>6, <1>7
    <2> HIDE DEF q
    <2>2. i \in DOMAIN events'[b] /\ events'[b][i] = q[i]
        BY <2>1
    <2> QED
        BY <2>2 DEF q
<1>9. OthersRead(n, e) /\ reader'[n][e].pc \in {"replan", "idle"}
      /\ (UNCHANGED up \/ (Drops(n, e) /\ reader'[n][e].pc = "idle"))
    BY <1>1, <1>2, ReaderMoved, ReaderDropped
<1>10. StatusKept /\ \A b \in Attempts : /\ Exists(b)' => Exists(b)
                                         /\ attempt'[b].status = "failed" => attempt[b].status = "failed"
    BY <1>1 DEF StatusKept, Exists
<1>11. Goes
    BY <1>1, <1>9, <1>10 DEF Goes, QueuesMove, ExecsGo
<1>12. ReportsSettled' /\ FailedOver' /\ PushesKnown'
    BY <1>1, <1>9, <1>10, <1>11, ReportsStay, FailedStay, PushersOthers, PushesStay
       DEF SteadyInv, EndsSettled
<1>13. ChannelsKnown'
    <2> SUFFICES ASSUME NEW b \in Attempts, NEW i \in DOMAIN events'[b]
                 PROVE Known(b, events[b][i])'
        BY DEF ChannelsKnown
    <2> DEFINE q == events[b]
    <2>1. q \in Seq(StreamEvents) /\ (events'[b] = q \/ (b = a /\ events'[b] = Append(q, k)))
        BY <1>6, <1>7
    <2>2. \A j \in DOMAIN q : Known(b, q[j])
        BY DEF SteadyInv, EndsSettled, ChannelsKnown
    <2> HIDE DEF q
    <2>3. (\E j \in DOMAIN q : events'[b][i] = q[j]) \/ (b = a /\ events'[b][i] = k)
        BY <2>1
    <2>4. PICK l : l = events'[b][i] /\ Known(b, l)
        BY <1>5, <2>2, <2>3
    <2>5. Known(b, l)'
        BY <1>11, <2>4, KnownKept
    <2> QED
        BY <2>4, <2>5 DEF Known, Settled, Fruitless, Said, SaidIn
<1>14. a \in streams /\ Message(n, e).kind \in Finals => Answered(a)'
    <2> SUFFICES ASSUME a \in streams, Message(n, e).kind \in Finals PROVE Answered(a)'
        OBVIOUS
    <2>1. k # "token"
        BY <1>3 DEF Finals, Failures, Reports
    <2> DEFINE q == events[a]
    <2>2. q \in Seq(StreamEvents) /\ events'[a] = Append(q, k)
        BY <1>6, <1>7
    <2> HIDE DEF q
    <2>3. Len(q) + 1 \in DOMAIN events'[a] /\ events'[a][Len(q) + 1] = k
        BY <2>2
    <2> QED
        BY <2>1, <2>3 DEF Answered
<1>15. e = 1
    BY <1>1, ReadsFirst DEF SteadyInv
<1> QED
    BY <1>1, <1>3, <1>8, <1>9, <1>10, <1>12, <1>13, <1>14, <1>15, HandlerSteady

-----------------------------------------------------------------------------
(* The invariant holds while connections stay up *)

\* Heartbeats, the operator, and steps of anything else.
LEMMA ElsewhereSteady ==
    ASSUME SteadyInv,
           UNCHANGED <<exec, down, up, req, streams, shown, wsess, session, conn, registered, attempt, reports,
                       reader, events>>
    PROVE SteadyInv'
<1>1. LinksUp' /\ WordsInOrder'
    BY DEF SteadyInv, LinksUp, WordsInOrder, Message, Said, SaidIn
<1>2. EndsSettled'
    BY DEF SteadyInv, EndsSettled, ReportsSettled, PushesKnown, ChannelsKnown, FailedOver, ShownStreamed,
           Known, Settled, Fruitless, Message, Said, SaidIn
<1>3. PastSettled'
    BY DEF SteadyInv, PastSettled, Past, Current, Exists, Settled, Fruitless, Said, SaidIn
<1>4. Awaited'
    BY SMTT(60) DEF SteadyInv, Awaited, Served, Answered, Busy, Dispatched, Heard, Current
<1> QED
    BY <1>1, <1>2, <1>3, <1>4 DEF SteadyInv

\* Nothing has happened at the start.
LEMMA InitSteady == Init => SteadyInv
<1> SUFFICES ASSUME Init PROVE SteadyInv
    OBVIOUS
<1>1. \A a, k : ~Said(a, k)
    BY DEF Init, Said, SaidIn
<1>2. \A a \in Attempts : ~Exists(a)
    BY DEF Init, Exists
<1>3. LinksUp
    BY FirstSession DEF Init, LinksUp
<1>4. WordsInOrder
    BY <1>1 DEF Init, WordsInOrder
<1>5. EndsSettled
    BY DEF Init, EndsSettled, ReportsSettled, PushesKnown, ChannelsKnown, FailedOver, ShownStreamed
<1>6. PastSettled /\ Awaited
    BY <1>2 DEF Init, PastSettled, Past, Awaited
<1> QED
    BY <1>3, <1>4, <1>5, <1>6 DEF SteadyInv

\* One case per action.
LEMMA NextSteady ==
    ASSUME Steady, IndInv, History, SteadyInv, [Next]_vars PROVE SteadyInv'
<1>1. ASSUME NEW t \in Tasks, SteadyRequest(t) PROVE SteadyInv'
    BY <1>1, SubmitSteady, AsideSteady, SelectSlotSteady, EndedSteady, ReserveAttemptSteady,
       DispatchAttemptSteady, TakeEventSteady DEF SteadyRequest, RequestStep
<1>2. ASSUME NEW n \in Nodes, NEW e \in Sessions, SteadyHandler(n, e) PROVE SteadyInv'
    BY <1>2, StateSteady, SwapSteady, ReplanSteady, StartedSteady, TokenSteady, FailedSteady, ReportSteady,
       PushSteady DEF SteadyHandler
<1>3. ASSUME SteadyWorker PROVE SteadyInv'
    BY <1>3, WorkerSteady
<1>4. ASSUME NEW n \in Nodes, NEW e \in Sessions, HandleHeartbeat(n, e) PROVE SteadyInv'
    BY <1>4, ElsewhereSteady DEF HandleHeartbeat, sessVars, reqVars, netVars, workerVars
<1>5. ASSUME NEW s \in Slots, ClearQuarantine(s) PROVE SteadyInv'
    BY <1>5, ElsewhereSteady DEF ClearQuarantine, sessVars, reqVars, netVars, workerVars
<1>6. CASE UNCHANGED vars
    BY <1>6, ElsewhereSteady DEF vars, db, sessVars, reqVars, netVars, workerVars
<1>7. CASE Next
    <2>1. LinksUp
        BY DEF SteadyInv
    <2> QED
        BY <1>1, <1>2, <1>3, <1>4, <1>5, <1>7, <2>1, SteadySteps
<1> QED
    BY <1>6, <1>7

LEMMA SteadyHolds == ASSUME Steady PROVE Spec => []SteadyInv
<1>1. IndInv /\ History /\ SteadyInv /\ [Next]_vars => SteadyInv'
    BY NextSteady
<1> QED
    BY <1>1, InitSteady, Invariance, HistoryHolds, PTL DEF Spec

-----------------------------------------------------------------------------
(* What it gives *)

\* A request that waits waits for something: an event in its channel, a Worker
\* that executes its attempt or has yet to read its dispatch, or the end of the
\* attempt on its way (the select of collectAttempt and streamAttempt has something
\* to come).
THEOREM WaitsAreServed == ASSUME Steady PROVE Spec => []WaitingIsServed
<1>1. ASSUME IndInv, SteadyInv PROVE WaitingIsServed
    <2> SUFFICES ASSUME NEW t \in Tasks, req[t].pc = "wait",
                        NEW a, a = Current(t), NEW n, n = NodeOfAttempt(a)
                 PROVE  \/ events[a] # <<>>
                        \/ exec[a].pc \notin {"none", "done"}
                        \/ \E e \in Sessions :
                            \/ \E i \in DOMAIN down[n][e] :
                                  down[n][e][i] = [kind |-> "execute_task", atts |-> {a}]
                            \/ \E i \in DOMAIN up[n][e] :
                                  up[n][e][i].kind \in Failures \cup Reports /\ up[n][e][i].att = a
        BY DEF WaitingIsServed
    <2>1. a \in Attempts /\ Served(a)
        BY <1>1, CurrentAttempt DEF SteadyInv, Awaited
    <2>2. CASE Answered(a) \/ Busy(a)
        BY <2>2 DEF Answered, Busy
    <2>3. CASE Dispatched(a)
        <3>1. PICK m \in Nodes, e \in Sessions : \E i \in DOMAIN down[m][e] :
                down[m][e][i] = [kind |-> "execute_task", atts |-> {a}]
            BY <2>3 DEF Dispatched
        <3>2. PICK i \in DOMAIN down[m][e] : down[m][e][i] = [kind |-> "execute_task", atts |-> {a}]
            BY <3>1
        <3>3. down[m][e] \in Seq(DownMessageOn(m))
            BY <1>1 DEF IndInv, Bookkeeping, MessagesNamed
        <3>4. down[m][e][i] \in DownMessageOn(m)
            BY <3>2, <3>3
        <3>5. a \in AttemptsOn(m)
            BY <3>2, <3>4 DEF DownMessageOn
        <3> QED
            BY <3>2, <3>5 DEF AttemptsOn
    <2>4. CASE Heard(a)
        <3>1. PICK m \in Nodes, e \in Sessions : \E i \in DOMAIN up[m][e] :
                up[m][e][i].kind \in Finals /\ up[m][e][i].att = a
            BY <2>4 DEF Heard
        <3>2. PICK i \in DOMAIN up[m][e] : up[m][e][i].kind \in Finals /\ up[m][e][i].att = a
            BY <3>1
        <3>3. up[m][e] \in Seq(UpMessageOn(m))
            BY <1>1 DEF IndInv, Bookkeeping, MessagesNamed
        <3>4. up[m][e][i] \in UpMessageOn(m)
            BY <3>2, <3>3
        <3>5. a \in AttemptsOn(m)
            BY <3>2, <3>4 DEF UpMessageOn, SlotMessage, StateMessage, Finals, Failures, Reports
        <3> QED
            BY <3>2, <3>5 DEF AttemptsOn, Finals
    <2> QED
        BY <2>1, <2>2, <2>3, <2>4 DEF Served
<1> QED
    BY <1>1, Invariance, SteadyHolds, PTL

\* A task has at most one attempt that the Manager takes to be running: a retry
\* begins when the attempt before it has failed, and a late start revives nothing.
THEOREM OneRuns == ASSUME Steady PROVE Spec => []OneRunningAttempt
<1>1. ASSUME SteadyInv PROVE OneRunningAttempt
    <2>1. ASSUME NEW t \in Tasks, NEW a \in Running(t) PROVE a = Current(t)
        <3>1. a \in Attempts /\ TaskOf(a) = t /\ attempt[a].status = "running"
            BY <2>1 DEF Running
        <3>2. a \notin Past(t)
            BY <1>1, <3>1 DEF SteadyInv, PastSettled, Settled
        <3> QED
            BY <3>1, <3>2 DEF Past, Exists
    <2> QED
        BY <2>1 DEF OneRunningAttempt
<1> QED
    BY <1>1, SteadyHolds, PTL

\* Another attempt is made only while the client of a stream has seen no output:
\* what a retry would repeat has not been shown (streamChat and streamAttempt).
THEOREM RetriesComeFirst == ASSUME Steady PROVE Spec => RetryOnlyBeforeFirstOutput
<1>1. ASSUME IndInv, History, SteadyInv, [Next]_vars, NEW t \in Tasks, req[t].n # req'[t].n
      PROVE \A a \in shown : TaskOf(a) # t
    <2>1. req \in [Tasks -> RequestRecord]
        BY <1>1 DEF IndInv, TypeOK, RequestTypeOK
    <2>2. ASSUME NEW u \in Tasks, Submit(u) \/ RequestStep(u)
          PROVE u = t /\ ReserveAttempt(u)
        <3>1. u # t => req'[t] = req[t]
            BY <2>1, <2>2 DEF Submit, RequestStep, SelectSlot, NoCapacity, StartCancelled, ReserveAttempt,
               DispatchAttempt, TakeEvent, ContextDone, Finish
        <3>2. ~ReserveAttempt(u) => req'[u].n = req[u].n
            <4>1. req[u] \in RequestRecord
                BY <2>1
            <4>2. SUFFICES ASSUME ~ReserveAttempt(u) PROVE \E r : r.n = req[u].n /\ req' = [req EXCEPT ![u] = r]
                BY <2>1
            <4>3. CASE \E answer : Finish(u, answer)
                <5> DEFINE r == [req[u] EXCEPT !.pc = "done", !.slot = NoSlot, !.sess = 0]
                <5>1. r.n = req[u].n /\ req' = [req EXCEPT ![u] = r]
                    BY <4>1, <4>3 DEF Finish, RequestRecord
                <5> QED
                    BY <5>1
            <4>4. ASSUME NEW pc, NEW s, NEW e,
                         req' = [req EXCEPT ![u] = [req[u] EXCEPT !.pc = pc, !.slot = s, !.sess = e]]
                  PROVE \E r : r.n = req[u].n /\ req' = [req EXCEPT ![u] = r]
                <5> DEFINE r == [req[u] EXCEPT !.pc = pc, !.slot = s, !.sess = e]
                <5>1. r.n = req[u].n /\ req' = [req EXCEPT ![u] = r]
                    BY <4>1, <4>4 DEF RequestRecord
                <5> QED
                    BY <5>1
            <4>5. ASSUME NEW pc, req' = [req EXCEPT ![u].pc = pc]
                  PROVE \E r : r.n = req[u].n /\ req' = [req EXCEPT ![u] = r]
                <5> DEFINE r == [req[u] EXCEPT !.pc = pc]
                <5>1. r.n = req[u].n /\ req' = [req EXCEPT ![u] = r]
                    BY <4>1, <4>5 DEF RequestRecord
                <5> QED
                    BY <5>1
            <4>6. ASSUME UNCHANGED req
                  PROVE \E r : r.n = req[u].n /\ req' = [req EXCEPT ![u] = r]
                <5>1. req' = [req EXCEPT ![u] = req[u]]
                    BY <2>1, <4>6
                <5> QED
                    BY <5>1
            <4>7. CASE NoCapacity(u) \/ StartCancelled(u) \/ ContextDone(u)
                BY <4>3, <4>7 DEF NoCapacity, StartCancelled, ContextDone
            <4>8. CASE Submit(u) \/ DispatchAttempt(u)
                <5>1. req' = [req EXCEPT ![u].pc = "start"] \/ req' = [req EXCEPT ![u].pc = "wait"]
                        \/ \E answer : Finish(u, answer)
                    BY <4>8 DEF Submit, DispatchAttempt
                <5> QED
                    BY <4>3, <4>5, <5>1, Zenon
            <4>9. CASE SelectSlot(u)
                <5>1. PICK s : req' = [req EXCEPT ![u] =
                        [req[u] EXCEPT !.pc = "reserve", !.slot = s, !.sess = session[NodeOf[s]]]]
                    BY <4>9 DEF SelectSlot
                <5> QED
                    BY <4>4, <5>1
            <4>10. CASE TakeEvent(u)
                <5>1. \/ req' = [req EXCEPT ![u] = [req[u] EXCEPT !.pc = "start", !.slot = NoSlot, !.sess = 0]]
                      \/ UNCHANGED req
                      \/ \E answer : Finish(u, answer)
                    BY <4>10 DEF TakeEvent
                <5> QED
                    BY <4>3, <4>4, <4>6, <5>1
            <4> QED
                BY <2>2, <4>2, <4>7, <4>8, <4>9, <4>10 DEF RequestStep
        <3> QED
            BY <1>1, <2>2, <3>1, <3>2, SMTT(60) DEF RequestStep
    <2>3. ReserveAttempt(t)
        <3>1. ASSUME NEW n \in Nodes, NEW e \in Sessions, HandleComputeReport(n, e) PROVE UNCHANGED req
            BY <3>1 DEF HandleComputeReport, reqVars
        <3> QED
            BY <1>1, <2>2, <3>1, OthersAside
    <2>4. req[t].pc = "reserve"
        BY <2>3 DEF ReserveAttempt
    <2> SUFFICES ASSUME NEW a \in shown, TaskOf(a) = t PROVE FALSE
        OBVIOUS
    <2>5. a \in Attempts /\ exec[a].first /\ t \in Streaming
        BY <1>1 DEF SteadyInv, EndsSettled, ShownStreamed, IndInv, TypeOK, RequestTypeOK
    <2>6. exec[a].pc # "none"
        BY <1>1, <2>5 DEF History, OutputKnown
    <2>7. Exists(a)
        BY <1>1, <2>5, <2>6 DEF IndInv, Bookkeeping, ExecutionsNamed
    <2>8. a \in Past(t)
        BY <2>4, <2>5, <2>7 DEF Past
    <2> QED
        BY <1>1, <2>4, <2>5, <2>8 DEF SteadyInv, PastSettled, Fruitless
<1>2. IndInv /\ History /\ SteadyInv /\ [Next]_vars =>
        [\A t \in Tasks : req[t].n # req'[t].n => \A a \in shown : TaskOf(a) # t]_vars
    BY <1>1
<1> QED
    BY <1>2, Invariance, HistoryHolds, SteadyHolds, PTL DEF Spec, RetryOnlyBeforeFirstOutput

\* An attempt that the Manager holds for failed is not charged afterwards: no
\* report of its completion is on its way when handleComputeReport meets it.
THEOREM FailedIsNotCharged == ASSUME Steady PROVE Spec => FailedAttemptNeverCharged
<1>1. ASSUME IndInv, SteadyInv, [Next]_vars, NEW a \in charged' \ charged PROVE attempt[a].status # "failed"
    <2>1. ASSUME NEW u \in Tasks, Submit(u) \/ RequestStep(u) PROVE UNCHANGED charged
        BY <2>1 DEF Submit, RequestStep, SelectSlot, NoCapacity, StartCancelled, ReserveAttempt,
           DispatchAttempt, TakeEvent, ContextDone, db
    <2>2. PICK n \in Nodes, e \in Sessions : HandleComputeReport(n, e)
        BY <1>1, <2>1, OthersAside
    <2>3. up[n][e] # <<>> /\ Message(n, e).kind \in Reports
        BY <2>2 DEF HandleComputeReport, Receives
    <2>4. a = Message(n, e).att /\ a \notin reports /\ StatusOfReport(Message(n, e).kind) = "completed"
        BY <1>1, <2>2 DEF HandleComputeReport, db
    <2>5. Message(n, e).kind = "report_completed"
        BY <2>4 DEF StatusOfReport
    <2>6. a \in Attempts
        BY <1>1, <2>3, <2>4, AttemptMessageNamed DEF StreamEvents
    <2>7. Said(a, "report_completed")
        BY <1>1, <2>3, <2>4, <2>5, HeadSaid
    <2> QED
        BY <1>1, <2>4, <2>6, <2>7, Zenon DEF SteadyInv, EndsSettled, FailedOver
<1>2. IndInv /\ SteadyInv /\ [Next]_vars => [\A a \in charged' \ charged : attempt[a].status # "failed"]_vars
    BY <1>1
<1> QED
    BY <1>2, Invariance, SteadyHolds, PTL DEF Spec, FailedAttemptNeverCharged
=============================================================================
