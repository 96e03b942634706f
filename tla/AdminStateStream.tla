-------------------------- MODULE AdminStateStream --------------------------
(***************************************************************************)
(* The dashboard's live view of the Manager's state.  Whoever updates the  *)
(* store publishes a snapshot to every subscriber once the lock is         *)
(* released; a subscriber has a small buffer, and a publisher that finds   *)
(* it full replaces the oldest snapshot in it.  A dashboard is let in by a *)
(* short-lived ticket that is good for one use.                            *)
(*                                                                         *)
(* A snapshot is abstracted to the number of updates it contains.          *)
(***************************************************************************)
EXTENDS Naturals, FiniteSets, Sequences

CONSTANTS
    Updaters,    \* goroutines that call Store.Update
    Dashboards,  \* WebSocket connections of dashboards
    Tickets,     \* tickets that may be issued
    NoDashboard,
    HaveToken,   \* the dashboards whose requests carry the administrator's token
    Buffer,      \* capacity of a subscriber's channel
    MaxUpdates   \* bound: updates of the store

ASSUME StreamConstants ==
    /\ NoDashboard \notin Dashboards /\ HaveToken \subseteq Dashboards
    /\ Buffer \in Nat \ {0}
    /\ MaxUpdates \in Nat

Versions == 0..MaxUpdates

\* publishAdminState: "list" copies the subscriber table, "snapshot" reads the
\* store, the rest is sendLatestAdminState, select by select.
PublishPC == {"idle", "list", "snapshot", "send", "drop", "resend"}
\* handleAdminStateWS up to and including its loop.
DashboardPC == {"none", "authorized", "subscribed", "writing", "live", "closed"}

VARIABLES
    version,     \* Store.db, as the number of updates made
    floor,       \* history: the version of the last update that started to be
                 \* published while no other was being published
    publisher,   \* the publish each updater is in the middle of
    subscribers, \* Manager.adminStateSubscribers
    channel,     \* the channel of each subscriber
    dashboard,   \* each connection: pc, snapshot being written, last one written
    ticket,      \* "none", "valid", "expired" (still stored) or "gone"
    admitted     \* history: the tickets each request was let in with

vars == <<version, floor, publisher, subscribers, channel, dashboard, ticket, admitted>>

PublishRecord == [pc : PublishPC, to : SUBSET Dashboards,
                  at : Dashboards \cup {NoDashboard}, state : Versions]
DashboardRecord == [pc : DashboardPC, held : Versions, shown : Versions]

TypeOK ==
    /\ version \in Versions /\ floor \in Versions
    /\ publisher \in [Updaters -> PublishRecord]
    /\ subscribers \subseteq Dashboards
    /\ channel \in [Dashboards -> Seq(Versions)]
    /\ \A d \in Dashboards : Len(channel[d]) <= Buffer
    /\ dashboard \in [Dashboards -> DashboardRecord]
    /\ ticket \in [Tickets -> {"none", "valid", "expired", "gone"}]
    /\ admitted \in [Tickets -> Nat]

Idle == [pc |-> "idle", to |-> {}, at |-> NoDashboard, state |-> 0]

Init ==
    /\ version = 0 /\ floor = 0
    /\ publisher = [u \in Updaters |-> Idle]
    /\ subscribers = {}
    /\ channel = [d \in Dashboards |-> <<>>]
    /\ dashboard = [d \in Dashboards |-> [pc |-> "none", held |-> 0, shown |-> 0]]
    /\ ticket = [k \in Tickets |-> "none"]
    /\ admitted = [k \in Tickets |-> 0]

-----------------------------------------------------------------------------
(* Updates and their publication *)

Publishing == {u \in Updaters : publisher[u].pc # "idle"}

\* Store.Update, saved: afterUpdate runs when the lock is released.
Update(u) ==
    /\ publisher[u].pc = "idle" /\ version < MaxUpdates
    /\ version' = version + 1
    /\ floor' = IF Publishing = {} THEN version + 1 ELSE floor
    /\ publisher' = [publisher EXCEPT ![u].pc = "list"]
    /\ UNCHANGED <<subscribers, channel, dashboard, ticket, admitted>>

\* Store.Update whose save fails: memory has changed and nothing is published.
UpdateNotSaved(u) ==
    /\ publisher[u].pc = "idle" /\ version < MaxUpdates
    /\ version' = version + 1
    /\ UNCHANGED <<floor, publisher, subscribers, channel, dashboard, ticket, admitted>>

\* adminStateSubscriberChannels.
ListSubscribers(u) ==
    /\ publisher[u].pc = "list"
    /\ publisher' = [publisher EXCEPT ![u] =
            [@ EXCEPT !.pc = IF subscribers = {} THEN "idle" ELSE "snapshot", !.to = subscribers]]
    /\ UNCHANGED <<version, floor, subscribers, channel, dashboard, ticket, admitted>>

\* stateResponse, once for all subscribers.
TakeSnapshot(u) ==
    /\ publisher[u].pc = "snapshot"
    /\ publisher' = [publisher EXCEPT ![u] = [@ EXCEPT !.pc = "send", !.state = version]]
    /\ UNCHANGED <<version, floor, subscribers, channel, dashboard, ticket, admitted>>

\* Updater u is done with subscriber d.
NextSubscriber(u, d) ==
    LET rest == publisher[u].to \ {d}
    IN  publisher' = [publisher EXCEPT ![u] =
            IF rest = {} THEN Idle ELSE [@ EXCEPT !.pc = "send", !.to = rest, !.at = NoDashboard]]

\* Mutant: the send does not look for room.
Send_NoBound(u, d) ==
    /\ publisher[u].pc = "send" /\ d \in publisher[u].to
    /\ channel' = [channel EXCEPT ![d] = Append(@, publisher[u].state)]
    /\ NextSubscriber(u, d)
    /\ UNCHANGED <<version, floor, subscribers, dashboard, ticket, admitted>>

\* The first select of sendLatestAdminState; the table has no order.
Send(u, d) ==
    /\ publisher[u].pc = "send" /\ d \in publisher[u].to
    /\ IF Len(channel[d]) < Buffer
       THEN /\ channel' = [channel EXCEPT ![d] = Append(@, publisher[u].state)]
            /\ NextSubscriber(u, d)
       ELSE /\ publisher' = [publisher EXCEPT ![u] = [@ EXCEPT !.pc = "drop", !.at = d]]
            /\ UNCHANGED channel
    /\ UNCHANGED <<version, floor, subscribers, dashboard, ticket, admitted>>

\* The second select: take the oldest snapshot out, if there still is one.
DropOldest(u) ==
    /\ publisher[u].pc = "drop"
    /\ channel' = [channel EXCEPT ![publisher[u].at] = IF @ = <<>> THEN @ ELSE Tail(@)]
    /\ publisher' = [publisher EXCEPT ![u].pc = "resend"]
    /\ UNCHANGED <<version, floor, subscribers, dashboard, ticket, admitted>>

\* Mutant: the last send waits for room.
Resend_Blocks(u) ==
    /\ publisher[u].pc = "resend"
    /\ Len(channel[publisher[u].at]) < Buffer
    /\ channel' = [channel EXCEPT ![publisher[u].at] = Append(@, publisher[u].state)]
    /\ NextSubscriber(u, publisher[u].at)
    /\ UNCHANGED <<version, floor, subscribers, dashboard, ticket, admitted>>

\* The third select: another publisher may have taken the room, and then this
\* snapshot is given up.
Resend(u) ==
    /\ publisher[u].pc = "resend"
    /\ channel' = [channel EXCEPT ![publisher[u].at] =
                        IF Len(@) < Buffer THEN Append(@, publisher[u].state) ELSE @]
    /\ NextSubscriber(u, publisher[u].at)
    /\ UNCHANGED <<version, floor, subscribers, dashboard, ticket, admitted>>

-----------------------------------------------------------------------------
(* Tickets *)

Purged(k) == IF ticket[k] = "expired" THEN "gone" ELSE ticket[k]

\* issueAdminStateWSTicket purges what has expired.
IssueTicket(k) ==
    /\ ticket[k] = "none"
    /\ ticket' = [j \in Tickets |-> IF j = k THEN "valid" ELSE Purged(j)]
    /\ UNCHANGED <<version, floor, publisher, subscribers, channel, dashboard, admitted>>

\* adminStateWSTicketTTL has passed.
ExpireTicket(k) ==
    /\ ticket[k] = "valid"
    /\ ticket' = [ticket EXCEPT ![k] = "expired"]
    /\ UNCHANGED <<version, floor, publisher, subscribers, channel, dashboard, admitted>>

\* Mutant: the ticket stays valid until it expires.
ConsumeTicket_Keeps(k) ==
    /\ ticket' = [j \in Tickets |-> Purged(j)]
    /\ admitted' = IF ticket[k] = "valid" THEN [admitted EXCEPT ![k] = @ + 1] ELSE admitted

\* consumeAdminStateWSTicket, one section under Manager.mu.
ConsumeTicket(k) ==
    /\ ticket' = [j \in Tickets |-> IF j = k THEN "gone" ELSE Purged(j)]
    /\ admitted' = IF ticket[k] = "valid" THEN [admitted EXCEPT ![k] = @ + 1] ELSE admitted

\* handleAdminStateWS is let in or answers 401.
OpenDashboard(d, k) ==
    /\ dashboard[d].pc = "none" /\ d \notin HaveToken /\ ticket[k] # "none"
    /\ ConsumeTicket(k)
    /\ dashboard' = [dashboard EXCEPT ![d].pc = IF admitted' # admitted THEN "authorized" ELSE "closed"]
    /\ UNCHANGED <<version, floor, publisher, subscribers, channel>>

\* adminStateWSAuthorized looks at the administrator's token first.
OpenWithToken(d) ==
    /\ dashboard[d].pc = "none" /\ d \in HaveToken
    /\ dashboard' = [dashboard EXCEPT ![d].pc = "authorized"]
    /\ UNCHANGED <<version, floor, publisher, subscribers, channel, ticket, admitted>>

\* adminTicketOrBearer for the API documentation page uses the same tickets.
OpenDocs(k) ==
    /\ ticket[k] \in {"valid", "expired"}
    /\ ConsumeTicket(k)
    /\ UNCHANGED <<version, floor, publisher, subscribers, channel, dashboard>>

-----------------------------------------------------------------------------
(* A dashboard connection *)

\* Mutant: the first snapshot is taken before the subscription.
Subscribe_SnapshotFirst(d) ==
    /\ dashboard[d].pc = "authorized"
    /\ \/ /\ dashboard[d].held = 0 /\ version > 0
          /\ dashboard' = [dashboard EXCEPT ![d].held = version]
          /\ UNCHANGED subscribers
       \/ /\ dashboard[d].held > 0 \/ version = 0
          /\ subscribers' = subscribers \cup {d}
          /\ dashboard' = [dashboard EXCEPT ![d].pc = "writing"]
    /\ UNCHANGED <<version, floor, publisher, channel, ticket, admitted>>

\* addAdminStateSubscriber.
Subscribe(d) ==
    /\ dashboard[d].pc = "authorized"
    /\ subscribers' = subscribers \cup {d}
    /\ dashboard' = [dashboard EXCEPT ![d].pc = "subscribed"]
    /\ UNCHANGED <<version, floor, publisher, channel, ticket, admitted>>

\* stateResponse for the first message.
FirstSnapshot(d) ==
    /\ dashboard[d].pc = "subscribed"
    /\ dashboard' = [dashboard EXCEPT ![d] = [@ EXCEPT !.pc = "writing", !.held = version]]
    /\ UNCHANGED <<version, floor, publisher, subscribers, channel, ticket, admitted>>

\* The loop receives the oldest buffered snapshot.
Receive(d) ==
    /\ dashboard[d].pc = "live" /\ channel[d] # <<>>
    /\ dashboard' = [dashboard EXCEPT ![d] = [@ EXCEPT !.pc = "writing", !.held = Head(channel[d])]]
    /\ channel' = [channel EXCEPT ![d] = Tail(@)]
    /\ UNCHANGED <<version, floor, publisher, subscribers, ticket, admitted>>

Write(d) ==
    /\ dashboard[d].pc = "writing"
    /\ dashboard' = [dashboard EXCEPT ![d] = [@ EXCEPT !.pc = "live", !.shown = dashboard[d].held, !.held = 0]]
    /\ UNCHANGED <<version, floor, publisher, subscribers, channel, ticket, admitted>>

\* The upgrade or a write fails, or the client closes its side:
\* removeAdminStateSubscriber.  A publisher that has listed the channel goes on
\* with it; what it held is nobody's any more and is left out.
CloseDashboard(d) ==
    /\ dashboard[d].pc \in {"authorized", "writing", "live"}
    /\ dashboard' = [dashboard EXCEPT ![d] = [pc |-> "closed", held |-> 0, shown |-> 0]]
    /\ subscribers' = subscribers \ {d}
    /\ channel' = [channel EXCEPT ![d] = <<>>]
    /\ UNCHANGED <<version, floor, publisher, ticket, admitted>>

-----------------------------------------------------------------------------
PublishStep(u) ==
    \/ ListSubscribers(u) \/ TakeSnapshot(u) \/ DropOldest(u) \/ Resend(u)
    \/ \E d \in Dashboards : Send(u, d)

DashboardStep(d) ==
    \/ \E k \in Tickets : OpenDashboard(d, k)
    \/ OpenWithToken(d) \/ Subscribe(d) \/ FirstSnapshot(d) \/ Receive(d) \/ Write(d) \/ CloseDashboard(d)

Next ==
    \/ \E u \in Updaters : Update(u) \/ UpdateNotSaved(u) \/ PublishStep(u)
    \/ \E d \in Dashboards : DashboardStep(d)
    \/ \E k \in Tickets : IssueTicket(k) \/ ExpireTicket(k) \/ OpenDocs(k)

\* Publishers run; nothing is assumed of dashboards, which may stop reading.
Fairness == \A u \in Updaters : WF_vars(PublishStep(u))

Spec == Init /\ [][Next]_vars /\ Fairness

-----------------------------------------------------------------------------
(* Properties *)

\* handleAdminStateWS, publishAdminState and sendLatestAdminState lose no news:
\* a dashboard with nothing more to read, while nobody publishes, shows at least
\* the last update that was published on its own, whenever it connected and
\* whichever snapshots were replaced.  Of updates that are published at the same
\* time the last one may be sent first, and then it is not what is shown.
StreamCatchesUp ==
    \A d \in Dashboards :
        dashboard[d].pc = "live" /\ channel[d] = <<>> /\ Publishing = {}
            => dashboard[d].shown >= floor

\* A ticket lets one request in, however many present it and whenever it
\* expires (consumeAdminStateWSTicket).
TicketAdmitsOnce == \A k \in Tickets : admitted[k] <= 1

\* Every Update returns: publishing ends even if no dashboard ever reads
\* (sendLatestAdminState never blocks).
PublishingEnds == \A u \in Updaters : publisher[u].pc # "idle" ~> publisher[u].pc = "idle"
=============================================================================
