----------------------- MODULE AdminStateStreamProofs -----------------------
(***************************************************************************)
(* The proofs about AdminStateStream, for any number of publishers and     *)
(* dashboards, any channel capacity and any number of updates.             *)
(*                                                                         *)
(* That a dashboard catches up is a statement about a quiet moment.  What  *)
(* is invariant is how it gets there: every snapshot under way is as new   *)
(* as the floor, and the last thing that a dashboard will show is too, or  *)
(* a publisher has yet to send to it.                                      *)
(***************************************************************************)
EXTENDS AdminStateStream, TLAPS

Subscribed == {"subscribed", "writing", "live"}

\* What a dashboard will show last if nobody sends it any more.
Latest(d) ==
    IF channel[d] # <<>> THEN channel[d][Len(channel[d])]
    ELSE IF dashboard[d].pc = "subscribed" THEN version
    ELSE IF dashboard[d].pc = "writing" THEN dashboard[d].held
    ELSE dashboard[d].shown

\* Somebody has yet to send to dashboard d.
Awaited(d) == \E u \in Updaters : publisher[u].pc = "list" \/ d \in publisher[u].to

\* The table is what the connections have entered into it, and a publisher sends
\* only to dashboards that are or were in it.
TableInv ==
    /\ subscribers = {d \in Dashboards : dashboard[d].pc \in Subscribed}
    /\ \A d \in Dashboards : dashboard[d].pc \in {"none", "authorized"} =>
        channel[d] = <<>> /\ \A u \in Updaters : d \notin publisher[u].to

\* A publisher on its way: it knows whom it sends to, its snapshot is new enough,
\* and where it may not find room again somebody else's snapshot is.
PublishInv ==
    \A u \in Updaters :
        /\ publisher[u].pc \in {"idle", "list"} => publisher[u].to = {}
        /\ publisher[u].pc \in {"send", "drop", "resend"} => publisher[u].state >= floor
        /\ publisher[u].pc \in {"drop", "resend"} => publisher[u].at \in publisher[u].to
        /\ publisher[u].pc = "resend" =>
            LET c == channel[publisher[u].at] IN Len(c) < Buffer \/ c[Len(c)] >= floor

\* Whoever is subscribed will show the floor, or is still to be sent to.
NewsInv ==
    /\ floor <= version
    /\ \A d \in Dashboards : dashboard[d].pc \in Subscribed => Latest(d) >= floor \/ Awaited(d)

\* A ticket that has let somebody in is gone.
TicketInv == \A k \in Tickets : admitted[k] <= 1 /\ (admitted[k] = 1 => ticket[k] = "gone")

IndInv == TypeOK /\ TableInv /\ PublishInv /\ NewsInv /\ TicketInv
-----------------------------------------------------------------------------
(* Initial states, stuttering and what a step leaves alone *)

\* The empty stream satisfies the invariant.
LEMMA InitInv == Init => IndInv
<1> SUFFICES ASSUME Init PROVE IndInv
    OBVIOUS
<1> USE StreamConstants DEF Init, Idle
<1>1. TypeOK
    BY DEF TypeOK, Versions, PublishRecord, PublishPC, DashboardRecord, DashboardPC
<1>2. TableInv /\ PublishInv /\ TicketInv
    BY DEF TableInv, PublishInv, TicketInv, Subscribed
<1>3. NewsInv
    BY DEF NewsInv, Subscribed
<1> QED
    BY <1>1, <1>2, <1>3 DEF IndInv

\* A step that touches no ticket keeps what is said of tickets.
LEMMA TicketFrame == TicketInv /\ UNCHANGED <<ticket, admitted>> => TicketInv'
    BY DEF TicketInv

\* A step of the tickets alone keeps what is said of the stream.
LEMMA StreamFrame ==
    ASSUME TableInv, PublishInv, NewsInv,
           UNCHANGED <<version, floor, publisher, subscribers, channel, dashboard>>
    PROVE TableInv' /\ PublishInv' /\ NewsInv'
    BY DEF TableInv, PublishInv, NewsInv, Latest, Awaited

-----------------------------------------------------------------------------
(* Publishers *)

\* A saved update starts a publication, and the floor rises if it is the only one.
LEMMA UpdateInv ==
    ASSUME IndInv, NEW u \in Updaters, Update(u) PROVE IndInv'
<1> USE StreamConstants DEF IndInv, Update
<1>1. TypeOK'
    <2>1. version' \in Versions /\ floor' \in Versions
        BY DEF TypeOK, Versions
    <2>2. publisher' \in [Updaters -> PublishRecord]
        BY DEF TypeOK, PublishRecord, PublishPC
    <2> QED
        BY <2>1, <2>2 DEF TypeOK
<1>2. TableInv'
    BY DEF TypeOK, TableInv, PublishRecord
<1>3. PublishInv'
    BY DEF TypeOK, PublishInv, Publishing, PublishRecord, PublishPC
<1>4. NewsInv'
    <2>1. floor' <= version'
        BY DEF NewsInv, TypeOK, Versions
    <2>2. \A d \in Dashboards : Awaited(d)'
        BY DEF Awaited, TypeOK, PublishRecord
    <2> QED
        BY <2>1, <2>2 DEF NewsInv
<1> QED
    BY <1>1, <1>2, <1>3, <1>4, TicketFrame

\* An update that was not saved leaves the stream alone.
LEMMA UpdateNotSavedInv ==
    ASSUME IndInv, NEW u \in Updaters, UpdateNotSaved(u) PROVE IndInv'
<1> USE StreamConstants DEF IndInv, UpdateNotSaved
<1>1. TypeOK'
    BY DEF TypeOK, Versions
<1>2. TableInv' /\ PublishInv'
    BY DEF TableInv, PublishInv
<1>3. NewsInv'
    BY DEF NewsInv, Latest, Awaited, TypeOK, Versions
<1> QED
    BY <1>1, <1>2, <1>3, TicketFrame

\* The list contains everybody who is subscribed.
LEMMA ListSubscribersInv ==
    ASSUME IndInv, NEW u \in Updaters, ListSubscribers(u) PROVE IndInv'
<1> USE StreamConstants DEF IndInv, ListSubscribers
<1>1. TypeOK'
    BY DEF TypeOK, PublishRecord, PublishPC
<1>2. TableInv'
    BY DEF TypeOK, TableInv, PublishRecord, Subscribed
<1>3. PublishInv'
    BY DEF TypeOK, PublishInv, PublishRecord, PublishPC
<1>4. NewsInv'
    <2>1. \A d \in Dashboards : dashboard[d].pc \in Subscribed => Awaited(d)'
        BY DEF Awaited, TypeOK, PublishRecord, TableInv
    <2> QED
        BY <2>1 DEF NewsInv, Latest
<1> QED
    BY <1>1, <1>2, <1>3, <1>4, TicketFrame

\* The snapshot is as new as the floor.
LEMMA TakeSnapshotInv ==
    ASSUME IndInv, NEW u \in Updaters, TakeSnapshot(u) PROVE IndInv'
<1> USE StreamConstants DEF IndInv, TakeSnapshot
<1>1. TypeOK'
    BY DEF TypeOK, PublishRecord, PublishPC
<1>2. TableInv'
    BY DEF TypeOK, TableInv, PublishRecord
<1>3. PublishInv'
    BY DEF TypeOK, PublishInv, PublishRecord, PublishPC, NewsInv
<1>4. NewsInv'
    <2>1. \A d \in Dashboards : Awaited(d) => Awaited(d)'
        BY DEF Awaited, TypeOK, PublishRecord
    <2> QED
        BY <2>1 DEF NewsInv, Latest
<1> QED
    BY <1>1, <1>2, <1>3, <1>4, TicketFrame

\* What is left of a publication after one subscriber.
LEMMA NextSubscriberType ==
    ASSUME TypeOK, NEW u \in Updaters, NEW d \in Dashboards, NextSubscriber(u, d)
    PROVE publisher' \in [Updaters -> PublishRecord]
<1>1. Idle \in PublishRecord
    BY StreamConstants DEF Idle, PublishRecord, PublishPC, Versions
<1>2. [publisher[u] EXCEPT !.pc = "send", !.to = publisher[u].to \ {d}, !.at = NoDashboard] \in PublishRecord
    BY DEF TypeOK, PublishRecord, PublishPC
<1> QED
    BY <1>1, <1>2 DEF TypeOK, NextSubscriber

\* It is sent to everybody but this one as before.
LEMMA NextSubscriberSends ==
    ASSUME TypeOK, NEW u \in Updaters, NEW d \in Dashboards, NextSubscriber(u, d)
    PROVE /\ publisher'[u].to = publisher[u].to \ {d}
          /\ publisher'[u].pc \in {"idle", "send"}
          /\ publisher'[u].pc = "idle" => publisher'[u].to = {}
          /\ publisher'[u].pc = "send" => publisher'[u].state = publisher[u].state
          /\ \A w \in Updaters \ {u} : publisher'[w] = publisher[w]
<1> DEFINE rest == publisher[u].to \ {d}
<1>1. CASE rest = {}
    BY <1>1 DEF TypeOK, NextSubscriber, PublishRecord, Idle
<1>2. CASE rest # {}
    <2>1. publisher' = [publisher EXCEPT ![u] = [@ EXCEPT !.pc = "send", !.to = rest, !.at = NoDashboard]]
        BY <1>2 DEF NextSubscriber
    <2> QED
        BY <2>1 DEF TypeOK, PublishRecord
<1> QED
    BY <1>1, <1>2

\* What a step that gives dashboard d a snapshot, or gives up since there is a new
\* one, has to show.
LEMMA DeliverInv ==
    ASSUME IndInv, NEW u \in Updaters, NEW d \in publisher[u].to, NextSubscriber(u, d),
           publisher[u].pc \in {"send", "resend"},
           \/ /\ Len(channel[d]) < Buffer
              /\ channel' = [channel EXCEPT ![d] = Append(@, publisher[u].state)]
           \/ /\ publisher[u].pc = "resend" /\ Len(channel[d]) >= Buffer
              /\ UNCHANGED channel,
           publisher[u].pc = "resend" => publisher[u].at = d,
           UNCHANGED <<version, floor, subscribers, dashboard, ticket, admitted>>
    PROVE IndInv'
<1> USE StreamConstants DEF IndInv
<1>0. d \in Dashboards /\ publisher[u].state \in Versions /\ publisher[u].state >= floor
    BY DEF TypeOK, PublishRecord, PublishInv
<1>1. /\ channel' \in [Dashboards -> Seq(Versions)]
      /\ Len(channel'[d]) <= Buffer
      /\ \A c \in Dashboards \ {d} : channel'[c] = channel[c]
      /\ Len(channel'[d]) > 0 /\ channel'[d][Len(channel'[d])] >= floor
    <2>1. CASE /\ Len(channel[d]) < Buffer
               /\ channel' = [channel EXCEPT ![d] = Append(@, publisher[u].state)]
        <3>1. /\ channel[d] \in Seq(Versions)
              /\ Append(channel[d], publisher[u].state) \in Seq(Versions)
            BY <1>0 DEF TypeOK
        <3>2. channel'[d] = Append(channel[d], publisher[u].state)
            BY <1>0, <2>1 DEF TypeOK
        <3>3. /\ Len(channel'[d]) = Len(channel[d]) + 1
              /\ channel'[d][Len(channel'[d])] = publisher[u].state
              /\ Len(channel[d]) \in Nat
            BY <3>1, <3>2
        <3>4. channel' \in [Dashboards -> Seq(Versions)]
            BY <1>0, <2>1, <3>1 DEF TypeOK
        <3>5. \A c \in Dashboards \ {d} : channel'[c] = channel[c]
            BY <1>0, <2>1 DEF TypeOK
        <3> QED
            BY <1>0, <2>1, <3>3, <3>4, <3>5
    <2>2. CASE /\ publisher[u].pc = "resend" /\ Len(channel[d]) >= Buffer
               /\ UNCHANGED channel
        <3>1. channel[d] \in Seq(Versions) /\ Len(channel[d]) \in Nat
            BY <1>0 DEF TypeOK
        <3>2. channel[d][Len(channel[d])] >= floor
            BY <2>2, <3>1 DEF PublishInv
        <3> QED
            BY <1>0, <2>2, <3>1, <3>2 DEF TypeOK
    <2> QED
        BY <2>1, <2>2
<1>2. TypeOK'
    BY <1>0, <1>1, NextSubscriberType DEF TypeOK
<1>3. TableInv'
    <2>1. dashboard[d].pc \notin {"none", "authorized"}
        BY <1>0 DEF TableInv
    <2>2. \A w \in Updaters : publisher'[w].to \subseteq publisher[w].to
        BY <1>0, NextSubscriberSends
    <2> QED
        BY <1>1, <2>1, <2>2 DEF TableInv
<1>4. PublishInv'
    <2> SUFFICES ASSUME NEW w \in Updaters
                 PROVE /\ publisher'[w].pc \in {"idle", "list"} => publisher'[w].to = {}
                       /\ publisher'[w].pc \in {"send", "drop", "resend"} => publisher'[w].state >= floor
                       /\ publisher'[w].pc \in {"drop", "resend"} => publisher'[w].at \in publisher'[w].to
                       /\ publisher'[w].pc = "resend" =>
                            \/ Len(channel'[publisher'[w].at]) < Buffer
                            \/ channel'[publisher'[w].at][Len(channel'[publisher'[w].at])] >= floor
        BY DEF PublishInv
    <2>1. CASE w = u
        BY <1>0, <2>1, NextSubscriberSends
    <2>2. CASE w # u
        <3>1. publisher'[w] = publisher[w]
            BY <1>0, <2>2, NextSubscriberSends
        <3>2. publisher[w].at \in publisher[w].to => publisher[w].at \in Dashboards
            BY DEF TypeOK, PublishRecord
        <3>3. CASE publisher[w].at = d
            BY <1>1, <3>1, <3>3 DEF PublishInv
        <3>4. CASE publisher[w].at # d
            BY <1>1, <3>1, <3>2, <3>4 DEF PublishInv
        <3> QED
            BY <3>3, <3>4
    <2> QED
        BY <2>1, <2>2
<1>5. NewsInv'
    <2> SUFFICES ASSUME NEW c \in Dashboards, dashboard[c].pc \in Subscribed
                 PROVE Latest(c)' >= floor \/ Awaited(c)'
        BY DEF NewsInv
    <2>1. CASE c = d
        BY <1>1, <2>1 DEF Latest
    <2>2. CASE c # d
        <3>1. Latest(c)' = Latest(c)
            BY <1>1, <2>2 DEF Latest
        <3>2. Awaited(c) => Awaited(c)'
            BY <1>0, <2>2, NextSubscriberSends DEF Awaited
        <3> QED
            BY <3>1, <3>2 DEF NewsInv
    <2> QED
        BY <2>1, <2>2
<1> QED
    BY <1>2, <1>3, <1>4, <1>5, TicketFrame

\* The first select of sendLatestAdminState.
LEMMA SendInv ==
    ASSUME IndInv, NEW u \in Updaters, NEW d \in Dashboards, Send(u, d) PROVE IndInv'
<1>1. CASE Len(channel[d]) < Buffer
    BY <1>1, DeliverInv DEF Send
<1>2. CASE ~(Len(channel[d]) < Buffer)
    <2> USE DEF IndInv
    <2>0. /\ publisher[u].pc = "send" /\ d \in publisher[u].to
          /\ publisher' = [publisher EXCEPT ![u] = [@ EXCEPT !.pc = "drop", !.at = d]]
          /\ UNCHANGED <<version, floor, subscribers, channel, dashboard, ticket, admitted>>
        BY <1>2 DEF Send
    <2> USE <2>0
    <2>1. TypeOK'
        BY DEF TypeOK, PublishRecord, PublishPC
    <2>2. TableInv'
        BY DEF TypeOK, TableInv, PublishRecord
    <2>3. PublishInv'
        BY DEF TypeOK, PublishInv, PublishRecord, PublishPC
    <2>4. NewsInv'
        <3>1. \A c \in Dashboards : Awaited(c) => Awaited(c)'
            BY DEF Awaited, TypeOK, PublishRecord
        <3> QED
            BY <3>1 DEF NewsInv, Latest
    <2> QED
        BY <2>1, <2>2, <2>3, <2>4, TicketFrame
<1> QED
    BY <1>1, <1>2

\* The third select, when another publisher may have taken the room.
LEMMA ResendInv ==
    ASSUME IndInv, NEW u \in Updaters, Resend(u) PROVE IndInv'
<1> DEFINE d == publisher[u].at
<1>1. d \in publisher[u].to /\ d \in Dashboards /\ channel[d] \in Seq(Versions)
    BY DEF IndInv, TypeOK, PublishInv, PublishRecord, Resend
<1>2. CASE Len(channel[d]) < Buffer
    <2>1. channel' = [channel EXCEPT ![d] = Append(@, publisher[u].state)]
        BY <1>1, <1>2 DEF Resend
    <2> QED
        BY <1>1, <1>2, <2>1, DeliverInv DEF Resend
<1>3. CASE ~(Len(channel[d]) < Buffer)
    <2>1. UNCHANGED channel
        BY <1>1, <1>3 DEF Resend, IndInv, TypeOK
    <2>2. Len(channel[d]) >= Buffer
        BY <1>1, <1>3, StreamConstants
    <2> QED
        BY <1>1, <2>1, <2>2, DeliverInv DEF Resend
<1> QED
    BY <1>2, <1>3

\* The second select: a snapshot goes, but its publisher has yet to send.
LEMMA DropOldestInv ==
    ASSUME IndInv, NEW u \in Updaters, DropOldest(u) PROVE IndInv'
<1> USE StreamConstants DEF IndInv
<1> DEFINE d == publisher[u].at
<1>1. /\ d \in publisher[u].to /\ d \in Dashboards /\ channel[d] \in Seq(Versions)
      /\ Len(channel[d]) \in Nat /\ Len(channel[d]) <= Buffer
    BY DEF TypeOK, PublishInv, PublishRecord, DropOldest
<1>2. /\ publisher' = [publisher EXCEPT ![u].pc = "resend"]
      /\ publisher[u].pc = "drop"
      /\ UNCHANGED <<version, floor, subscribers, dashboard, ticket, admitted>>
    BY DEF DropOldest
<1>3. /\ channel' \in [Dashboards -> Seq(Versions)]
      /\ \A c \in Dashboards \ {d} : channel'[c] = channel[c]
      /\ Len(channel'[d]) \in Nat /\ Len(channel'[d]) < Buffer
    <2>1. CASE channel[d] = <<>>
        BY <1>1, <2>1 DEF DropOldest, TypeOK
    <2>2. CASE channel[d] # <<>>
        <3>1. channel' = [channel EXCEPT ![d] = Tail(channel[d])]
            BY <2>2 DEF DropOldest
        <3>2. Tail(channel[d]) \in Seq(Versions) /\ Len(Tail(channel[d])) = Len(channel[d]) - 1
            BY <1>1, <2>2
        <3>3. Len(channel[d]) > 0
            BY <1>1, <2>2
        <3> QED
            BY <1>1, <3>1, <3>2, <3>3 DEF TypeOK
    <2> QED
        BY <2>1, <2>2
<1>4. TypeOK'
    <2>1. publisher' \in [Updaters -> PublishRecord]
        BY <1>2 DEF TypeOK, PublishRecord, PublishPC
    <2>2. ASSUME NEW c \in Dashboards PROVE Len(channel'[c]) <= Buffer
        <3>1. CASE c = d
            BY <1>3, <3>1
        <3>2. CASE c # d
            BY <1>3, <3>2 DEF TypeOK
        <3> QED
            BY <3>1, <3>2
    <2> QED
        BY <1>2, <1>3, <2>1, <2>2 DEF TypeOK
<1>5. /\ publisher'[u].pc = "resend" /\ publisher'[u].to = publisher[u].to
      /\ publisher'[u].at = d /\ publisher'[u].state = publisher[u].state
      /\ \A w \in Updaters \ {u} : publisher'[w] = publisher[w]
    BY <1>2 DEF TypeOK, PublishRecord
<1>6. TableInv'
    <2>1. dashboard[d].pc \notin {"none", "authorized"}
        BY <1>1 DEF TableInv
    <2>2. \A w \in Updaters : publisher'[w].to = publisher[w].to
        BY <1>5
    <2> QED
        BY <1>2, <1>3, <2>1, <2>2 DEF TableInv
<1>7. PublishInv'
    <2> SUFFICES ASSUME NEW w \in Updaters
                 PROVE /\ publisher'[w].pc \in {"idle", "list"} => publisher'[w].to = {}
                       /\ publisher'[w].pc \in {"send", "drop", "resend"} => publisher'[w].state >= floor
                       /\ publisher'[w].pc \in {"drop", "resend"} => publisher'[w].at \in publisher'[w].to
                       /\ publisher'[w].pc = "resend" =>
                            \/ Len(channel'[publisher'[w].at]) < Buffer
                            \/ channel'[publisher'[w].at][Len(channel'[publisher'[w].at])] >= floor
        BY <1>2 DEF PublishInv
    <2>1. CASE w = u
        BY <1>1, <1>2, <1>3, <1>5, <2>1 DEF PublishInv
    <2>2. CASE w # u /\ publisher[w].at = d
        BY <1>3, <1>5, <2>2 DEF PublishInv
    <2>3. CASE w # u /\ publisher[w].at # d
        <3>1. publisher[w].at \in publisher[w].to => publisher[w].at \in Dashboards
            BY DEF TypeOK, PublishRecord
        <3> QED
            BY <1>3, <1>5, <2>3, <3>1 DEF PublishInv
    <2> QED
        BY <2>1, <2>2, <2>3
<1>8. NewsInv'
    <2> SUFFICES ASSUME NEW c \in Dashboards, dashboard[c].pc \in Subscribed
                 PROVE Latest(c)' >= floor \/ Awaited(c)'
        BY <1>2 DEF NewsInv
    <2>1. CASE c = d
        BY <1>1, <1>5, <2>1 DEF Awaited
    <2>2. CASE c # d
        <3>1. Latest(c)' = Latest(c)
            BY <1>2, <1>3, <2>2 DEF Latest
        <3>2. Awaited(c) => Awaited(c)'
            BY <1>2, <1>5 DEF Awaited
        <3> QED
            BY <3>1, <3>2 DEF NewsInv
    <2> QED
        BY <2>1, <2>2
<1> QED
    BY <1>2, <1>4, <1>6, <1>7, <1>8, TicketFrame

-----------------------------------------------------------------------------
(* Tickets *)

\* A ticket that is consumed is gone, and it lets somebody in only if it was valid.
LEMMA ConsumeTicketInv ==
    ASSUME TypeOK, TicketInv, NEW k \in Tickets, ConsumeTicket(k)
    PROVE /\ TicketInv'
          /\ ticket' \in [Tickets -> {"none", "valid", "expired", "gone"}]
          /\ admitted' \in [Tickets -> Nat]
<1> USE DEF TypeOK
<1>1. ticket' \in [Tickets -> {"none", "valid", "expired", "gone"}]
    BY DEF ConsumeTicket, Purged
<1>2. admitted' \in [Tickets -> Nat]
    BY DEF ConsumeTicket
<1>3. ASSUME NEW j \in Tickets PROVE admitted'[j] <= 1 /\ (admitted'[j] = 1 => ticket'[j] = "gone")
    <2>1. admitted[j] \in Nat /\ admitted[j] <= 1 /\ (admitted[j] = 1 => ticket[j] = "gone")
        BY DEF TicketInv
    <2>2. CASE j = k
        BY <2>1, <2>2 DEF ConsumeTicket
    <2>3. CASE j # k
        BY <2>1, <2>3 DEF ConsumeTicket, Purged
    <2> QED
        BY <2>2, <2>3
<1> QED
    BY <1>1, <1>2, <1>3 DEF TicketInv

\* Issuing and expiring a ticket, and using one for the documentation page.
LEMMA TicketStepInv ==
    ASSUME IndInv, NEW k \in Tickets, IssueTicket(k) \/ ExpireTicket(k) \/ OpenDocs(k)
    PROVE IndInv'
<1> USE DEF IndInv
<1>1. CASE IssueTicket(k)
    <2>1. TypeOK' /\ TicketInv'
        BY <1>1 DEF IssueTicket, TypeOK, TicketInv, Purged
    <2> QED
        BY <1>1, <2>1, StreamFrame DEF IssueTicket
<1>2. CASE ExpireTicket(k)
    <2>1. TypeOK' /\ TicketInv'
        BY <1>2 DEF ExpireTicket, TypeOK, TicketInv
    <2> QED
        BY <1>2, <2>1, StreamFrame DEF ExpireTicket
<1>3. CASE OpenDocs(k)
    <2>1. TypeOK' /\ TicketInv'
        BY <1>3, ConsumeTicketInv DEF OpenDocs, TypeOK
    <2> QED
        BY <1>3, <2>1, StreamFrame DEF OpenDocs
<1> QED
    BY <1>1, <1>2, <1>3

-----------------------------------------------------------------------------
(* Dashboards *)

\* A step that only moves the connection of dashboard d, which is not in the table
\* and does not enter it.
LEMMA OutsideInv ==
    ASSUME IndInv, NEW d \in Dashboards, NEW pc \in {"authorized", "closed"},
           dashboard[d].pc = "none", dashboard' = [dashboard EXCEPT ![d].pc = pc],
           UNCHANGED <<version, floor, publisher, subscribers, channel>>
    PROVE /\ dashboard' \in [Dashboards -> DashboardRecord]
          /\ TableInv' /\ PublishInv' /\ NewsInv'
<1> USE DEF IndInv
<1>1. dashboard' \in [Dashboards -> DashboardRecord]
    BY DEF TypeOK, DashboardRecord, DashboardPC
<1>2. dashboard'[d].pc = pc /\ \A c \in Dashboards \ {d} : dashboard'[c] = dashboard[c]
    BY DEF TypeOK, DashboardRecord
<1>3. TableInv'
    BY <1>2 DEF TableInv, Subscribed
<1>4. PublishInv'
    BY DEF PublishInv
<1>5. NewsInv'
    BY <1>2 DEF NewsInv, Subscribed, Latest, Awaited
<1> QED
    BY <1>1, <1>3, <1>4, <1>5

\* A dashboard is let in or turned away.
LEMMA OpenInv ==
    ASSUME IndInv, NEW d \in Dashboards,
           OpenWithToken(d) \/ \E k \in Tickets : OpenDashboard(d, k)
    PROVE IndInv'
<1>1. CASE OpenWithToken(d)
    <2>1. /\ dashboard' \in [Dashboards -> DashboardRecord]
          /\ TableInv' /\ PublishInv' /\ NewsInv'
        BY <1>1, OutsideInv DEF OpenWithToken
    <2>2. TypeOK'
        BY <1>1, <2>1 DEF OpenWithToken, IndInv, TypeOK
    <2>3. TicketInv'
        BY <1>1, TicketFrame DEF OpenWithToken, IndInv
    <2> QED
        BY <2>1, <2>2, <2>3 DEF IndInv
<1>2. ASSUME NEW k \in Tickets, OpenDashboard(d, k) PROVE IndInv'
    <2>1. /\ TicketInv' /\ admitted' \in [Tickets -> Nat]
          /\ ticket' \in [Tickets -> {"none", "valid", "expired", "gone"}]
        BY <1>2, ConsumeTicketInv DEF OpenDashboard, IndInv
    <2>2. PICK pc \in {"authorized", "closed"} : dashboard' = [dashboard EXCEPT ![d].pc = pc]
        BY <1>2 DEF OpenDashboard
    <2>3. /\ dashboard' \in [Dashboards -> DashboardRecord]
          /\ TableInv' /\ PublishInv' /\ NewsInv'
        BY <1>2, <2>2, OutsideInv DEF OpenDashboard
    <2>4. TypeOK'
        BY <1>2, <2>1, <2>3 DEF OpenDashboard, IndInv, TypeOK
    <2> QED
        BY <2>1, <2>3, <2>4 DEF IndInv
<1> QED
    BY <1>1, <1>2

\* A dashboard that subscribes finds its channel empty and the floor ahead of it.
LEMMA SubscribeInv ==
    ASSUME IndInv, NEW d \in Dashboards, Subscribe(d) PROVE IndInv'
<1> USE StreamConstants DEF IndInv, Subscribe
<1>1. TypeOK'
    BY DEF TypeOK, DashboardRecord, DashboardPC
<1>2. dashboard'[d].pc = "subscribed" /\ \A c \in Dashboards \ {d} : dashboard'[c] = dashboard[c]
    BY DEF TypeOK, DashboardRecord
<1>3. TableInv'
    BY <1>2 DEF TableInv, Subscribed
<1>4. PublishInv'
    BY DEF PublishInv
<1>5. NewsInv'
    <2>1. Latest(d)' = version
        BY <1>2 DEF Latest, TableInv
    <2>2. \A c \in Dashboards \ {d} : Latest(c)' = Latest(c) /\ Awaited(c)' = Awaited(c)
        BY <1>2 DEF Latest, Awaited
    <2> QED
        BY <1>2, <2>1, <2>2 DEF NewsInv, TypeOK, Versions
<1> QED
    BY <1>1, <1>3, <1>4, <1>5, TicketFrame

\* The first snapshot, a snapshot received and one written: what the dashboard will
\* show last stays the same, or is the present version.
LEMMA ReadingInv ==
    ASSUME IndInv, NEW d \in Dashboards, FirstSnapshot(d) \/ Receive(d) \/ Write(d)
    PROVE IndInv'
<1> USE StreamConstants DEF IndInv
<1>1. /\ UNCHANGED <<version, floor, publisher, subscribers, ticket, admitted>>
      /\ dashboard[d].pc \in Subscribed /\ channel[d] \in Seq(Versions)
    BY DEF FirstSnapshot, Receive, Write, Subscribed, TypeOK
<1>2. /\ channel' \in [Dashboards -> Seq(Versions)]
      /\ \A c \in Dashboards \ {d} : channel'[c] = channel[c]
      /\ channel'[d] = channel[d] \/ Len(channel'[d]) < Len(channel[d])
    <2>1. CASE Receive(d)
        <3>1. channel' = [channel EXCEPT ![d] = Tail(channel[d])] /\ channel[d] # <<>>
            BY <2>1 DEF Receive
        <3>2. Tail(channel[d]) \in Seq(Versions) /\ Len(Tail(channel[d])) < Len(channel[d])
            BY <1>1, <3>1
        <3> QED
            BY <3>1, <3>2 DEF TypeOK
    <2>2. CASE FirstSnapshot(d) \/ Write(d)
        BY <2>2 DEF FirstSnapshot, Write, TypeOK
    <2> QED
        BY <2>1, <2>2
<1>3. /\ dashboard' \in [Dashboards -> DashboardRecord]
      /\ dashboard'[d].pc \in {"writing", "live"}
      /\ \A c \in Dashboards \ {d} : dashboard'[c] = dashboard[c]
    <2>1. CASE FirstSnapshot(d)
        BY <2>1 DEF FirstSnapshot, TypeOK, DashboardRecord, DashboardPC
    <2>2. CASE Receive(d)
        <3>1. Head(channel[d]) \in Versions
            BY <1>1, <2>2 DEF Receive
        <3> QED
            BY <2>2, <3>1 DEF Receive, TypeOK, DashboardRecord, DashboardPC
    <2>3. CASE Write(d)
        <3>1. 0 \in Versions
            BY DEF Versions
        <3> QED
            BY <2>3, <3>1 DEF Write, TypeOK, DashboardRecord, DashboardPC
    <2> QED
        BY <2>1, <2>2, <2>3
<1>4. Latest(d)' = Latest(d) \/ Latest(d)' >= floor
    <2>1. CASE FirstSnapshot(d)
        BY <2>1 DEF FirstSnapshot, Latest, NewsInv, TypeOK, DashboardRecord
    <2>2. CASE Receive(d)
        <3>1. /\ channel[d] # <<>> /\ channel'[d] = Tail(channel[d])
              /\ dashboard'[d].pc = "writing" /\ dashboard'[d].held = Head(channel[d])
            BY <2>2 DEF Receive, TypeOK, DashboardRecord
        <3>2. CASE Tail(channel[d]) = <<>>
            <4>1. Len(Tail(channel[d])) = Len(channel[d]) - 1 /\ Len(channel[d]) \in Nat
                BY <1>1, <3>1
            <4>2. Len(channel[d]) = 1
                <5>1. channel'[d] = <<>>
                    BY <3>1, <3>2
                <5>2. Len(channel'[d]) = 0
                    BY <5>1
                <5> QED
                    BY <3>1, <4>1, <5>2
            <4>3. Head(channel[d]) = channel[d][1]
                BY <1>1, <3>1
            <4> QED
                BY <3>1, <3>2, <4>2, <4>3 DEF Latest
        <3>3. CASE Tail(channel[d]) # <<>>
            <4>1. Tail(channel[d])[Len(Tail(channel[d]))] = channel[d][Len(channel[d])]
                BY <1>1, <3>1, <3>3
            <4> QED
                BY <3>1, <3>3, <4>1 DEF Latest
        <3> QED
            BY <3>2, <3>3
    <2>3. CASE Write(d)
        BY <2>3 DEF Write, Latest, TypeOK, DashboardRecord
    <2> QED
        BY <2>1, <2>2, <2>3
<1>5. TypeOK'
    <2>1. ASSUME NEW c \in Dashboards PROVE Len(channel'[c]) <= Buffer
        <3>1. Len(channel[d]) \in Nat /\ Len(channel'[d]) \in Nat /\ Len(channel[d]) <= Buffer
            BY <1>1, <1>2 DEF TypeOK
        <3>2. CASE c = d
            BY <1>2, <3>1, <3>2
        <3>3. CASE c # d
            BY <1>2, <3>3 DEF TypeOK
        <3> QED
            BY <3>2, <3>3
    <2> QED
        BY <1>1, <1>2, <1>3, <2>1 DEF TypeOK
<1>6. TableInv'
    BY <1>1, <1>2, <1>3 DEF TableInv, Subscribed
<1>7. PublishInv'
    <2> SUFFICES ASSUME NEW w \in Updaters, publisher[w].pc = "resend", publisher[w].at = d
                 PROVE Len(channel'[d]) < Buffer \/ channel'[d][Len(channel'[d])] >= floor
        <3>1. \A w \in Updaters : publisher[w].pc = "resend" => publisher[w].at \in Dashboards
            BY DEF PublishInv, TypeOK, PublishRecord
        <3> QED
            BY <1>1, <1>2, <3>1 DEF PublishInv
    <2>1. Len(channel[d]) \in Nat /\ Len(channel'[d]) \in Nat /\ Len(channel[d]) <= Buffer
        BY <1>1, <1>2 DEF TypeOK
    <2> QED
        BY <1>2, <2>1 DEF PublishInv
<1>8. NewsInv'
    <2>1. \A c \in Dashboards \ {d} : Latest(c)' = Latest(c)
        BY <1>1, <1>2, <1>3 DEF Latest
    <2>2. \A c \in Dashboards : Awaited(c)' = Awaited(c)
        BY <1>1 DEF Awaited
    <2> QED
        BY <1>1, <1>3, <1>4, <2>1, <2>2 DEF NewsInv
<1> QED
    BY <1>1, <1>5, <1>6, <1>7, <1>8, TicketFrame

\* A connection that closes leaves the table; a publisher may go on with its channel.
LEMMA CloseDashboardInv ==
    ASSUME IndInv, NEW d \in Dashboards, CloseDashboard(d) PROVE IndInv'
<1> USE StreamConstants DEF IndInv, CloseDashboard
<1>1. /\ dashboard' \in [Dashboards -> DashboardRecord] /\ dashboard'[d].pc = "closed"
      /\ \A c \in Dashboards \ {d} : dashboard'[c] = dashboard[c]
    BY DEF TypeOK, DashboardRecord, DashboardPC, Versions
<1>2. /\ channel' \in [Dashboards -> Seq(Versions)] /\ channel'[d] = <<>>
      /\ \A c \in Dashboards \ {d} : channel'[c] = channel[c]
    BY DEF TypeOK
<1>3. Len(channel'[d]) = 0
    BY <1>2
<1>4. TypeOK'
    BY <1>1, <1>2, <1>3 DEF TypeOK
<1>5. TableInv'
    BY <1>1, <1>2 DEF TableInv, Subscribed
<1>6. PublishInv'
    <2>1. \A w \in Updaters : publisher[w].pc = "resend" => publisher[w].at \in Dashboards
        BY DEF PublishInv, TypeOK, PublishRecord
    <2> QED
        BY <1>2, <1>3, <2>1 DEF PublishInv
<1>7. NewsInv'
    <2>1. \A c \in Dashboards \ {d} : Latest(c)' = Latest(c) /\ Awaited(c)' = Awaited(c)
        BY <1>1, <1>2 DEF Latest, Awaited
    <2> QED
        BY <1>1, <2>1 DEF NewsInv, Subscribed
<1> QED
    BY <1>4, <1>5, <1>6, <1>7, TicketFrame

-----------------------------------------------------------------------------
(* The theorems *)

\* Every step keeps the invariant.
LEMMA NextInv == IndInv /\ [Next]_vars => IndInv'
<1> SUFFICES ASSUME IndInv, [Next]_vars PROVE IndInv'
    OBVIOUS
<1>1. ASSUME NEW u \in Updaters, Update(u) \/ UpdateNotSaved(u) \/ PublishStep(u) PROVE IndInv'
    BY <1>1, UpdateInv, UpdateNotSavedInv, ListSubscribersInv, TakeSnapshotInv, SendInv,
       DropOldestInv, ResendInv DEF PublishStep
<1>2. ASSUME NEW d \in Dashboards, DashboardStep(d) PROVE IndInv'
    BY <1>2, OpenInv, SubscribeInv, ReadingInv, CloseDashboardInv DEF DashboardStep
<1>3. ASSUME NEW k \in Tickets, IssueTicket(k) \/ ExpireTicket(k) \/ OpenDocs(k) PROVE IndInv'
    BY <1>3, TicketStepInv
<1>4. CASE UNCHANGED vars
    <2>1. TypeOK'
        BY <1>4 DEF IndInv, TypeOK, vars
    <2> QED
        BY <1>4, <2>1, StreamFrame, TicketFrame DEF IndInv, vars
<1> QED
    BY <1>1, <1>2, <1>3, <1>4 DEF Next

\* The invariant holds in every state of a behaviour.
LEMMA Invariance == Spec => []IndInv
    BY InitInv, NextInv, PTL DEF Spec

\* The state has its types; no channel holds more than its capacity.
THEOREM StreamTypeCorrect == Spec => []TypeOK
<1>1. IndInv => TypeOK
    BY DEF IndInv
<1> QED
    BY <1>1, Invariance, PTL

\* A dashboard that has read everything, while nobody publishes, shows the last
\* update that was published on its own: handleAdminStateWS, publishAdminState and
\* sendLatestAdminState lose no news, whatever the number of publishers and
\* dashboards and however slow these are.
THEOREM StreamNeverBehind == Spec => []StreamCatchesUp
<1>1. IndInv => StreamCatchesUp
    <2> SUFFICES ASSUME IndInv, NEW d \in Dashboards,
                        dashboard[d].pc = "live", channel[d] = <<>>, Publishing = {}
                 PROVE dashboard[d].shown >= floor
        BY DEF StreamCatchesUp
    <2>1. \A u \in Updaters : publisher[u].pc = "idle" /\ publisher[u].to = {}
        BY DEF Publishing, IndInv, PublishInv
    <2>2. Latest(d) >= floor
        BY <2>1 DEF IndInv, NewsInv, Subscribed, Awaited
    <2> QED
        BY <2>2 DEF Latest
<1> QED
    BY <1>1, Invariance, PTL

\* A ticket admits one request, however often it is presented
\* (consumeAdminStateWSTicket).
THEOREM TicketSingleUse == Spec => []TicketAdmitsOnce
<1>1. IndInv => TicketAdmitsOnce
    BY DEF IndInv, TicketInv, TicketAdmitsOnce
<1> QED
    BY <1>1, Invariance, PTL
=============================================================================
