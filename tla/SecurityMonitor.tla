--------------------------- MODULE SecurityMonitor ---------------------------
(***************************************************************************)
(* Security events from the insert into security_events, through the        *)
(* broadcaster and the SSE handler, to the monitoring page, which takes a   *)
(* streamed event as the signal to fetch the history and the summary again. *)
(*                                                                          *)
(* Code: internal/service/security_monitor_service.go, internal/transport/  *)
(* http/security_monitor_handler.go, and the web client's hooks             *)
(* useSecurityMonitorStream.ts and useSecurityMonitoringPage.ts.            *)
(*                                                                          *)
(* One page is open, with no filter set; it may use several streams one     *)
(* after the other.  The broadcaster's operations hold its mutex, and each  *)
(* is one step.  What a fetch returns is the set of events it was read with.*)
(***************************************************************************)
EXTENDS Naturals, SequencesExt

CONSTANTS
    Events,     \* events that occur
    Streams,    \* stream requests, each with a subscription of its own
    Capacity,   \* of a subscriber's channel (64 in the code)
    MaxTroubles,\* bound on the user's moves and the failed fetches
    None        \* no event, no stream

ASSUME CapacityAssumption == Capacity \in Nat \ {0}
ASSUME BoundAssumption    == MaxTroubles \in Nat
ASSUME NoneAssumption     == None \notin Events \cup Streams

VARIABLES
    stored,     \* rows of security_events
    recording,  \* events in Record, between the insert and Publish
    log,        \* history: the events in the order of their publication
    closed,     \* securityEventBroadcaster.closed
    stream,     \* the handler of each stream and its channel
    page        \* the monitoring page

vars == <<stored, recording, log, closed, stream, page>>

\* closes counts how often the channel has been closed.
NoStream == [state |-> "new", queue |-> <<>>, closes |-> 0]

Idle == [state |-> "idle", got |-> {}]
Sent == [state |-> "sent", got |-> {}]

\* The page has two queries, for the first page of the history and for the
\* summary.  They do not affect each other, so a behaviour follows one of them:
\* fetch is its fetch, loaded whether one has succeeded, shown what it brought.
\* number is the page of the history looked at.  History: due holds what has been
\* published to the page's stream, missed whether the last refresh has been lost.
FirstPage(query) ==
    [query |-> query, fetch |-> Sent, loaded |-> FALSE, shown |-> {},
     stream |-> None, handled |-> None, timer |-> FALSE, number |-> 0,
     troubles |-> 0, due |-> {}, missed |-> FALSE]

Init ==
    /\ stored = {} /\ recording = {} /\ log = <<>>
    /\ closed = FALSE
    /\ stream = [k \in Streams |-> NoStream]
    /\ \E query \in {"history", "summary"} : page = FirstPage(query)

\* The channels in the broadcaster's map.
Subscribers == {k \in Streams : stream[k].state = "subscribed" /\ stream[k].closes = 0}

-----------------------------------------------------------------------------
(* SecurityMonitoringService.Record *)

Insert(e) ==
    /\ e \notin stored
    /\ stored' = stored \cup {e}
    /\ recording' = recording \cup {e}
    /\ UNCHANGED <<log, closed, stream, page>>

\* Faulty variant: a full channel loses the new event.
PushIfRoom(queue, e) == IF Len(queue) < Capacity THEN Append(queue, e) ELSE queue

\* A full channel loses its oldest event.
Push(queue, e) ==
    IF Len(queue) < Capacity THEN Append(queue, e) ELSE Append(Tail(queue), e)

Publish(e) ==
    /\ e \in recording
    /\ recording' = recording \ {e}
    /\ IF closed
       THEN UNCHANGED <<log, stream, page>>
       ELSE /\ log' = Append(log, e)
            /\ stream' = [k \in Streams |-> IF k \in Subscribers
                    THEN [stream[k] EXCEPT !.queue = Push(@, e)] ELSE stream[k]]
            /\ page' = IF page.stream \in Subscribers
                       THEN [page EXCEPT !.due = @ \cup {e}] ELSE page
    /\ UNCHANGED <<stored, closed>>

-----------------------------------------------------------------------------
(* The stream handler and the broadcaster *)

\* The handler subscribes after it has sent the response's headers, so the
\* page may be told "live" before; of a closed broadcaster it gets a channel
\* that is closed already.
Subscribe(k) ==
    /\ stream[k].state = "accepted"
    /\ stream' = [stream EXCEPT ![k].state = "subscribed",
                                ![k].closes = IF closed THEN 1 ELSE 0]
    /\ UNCHANGED <<stored, recording, log, closed, page>>

\* Faulty variant: whoever leaves closes it.
ClosedByAnyone(k) == stream[k].closes + 1

\* The channel is closed only by who finds it in the map.
ClosedBy(k) == IF k \in Subscribers THEN stream[k].closes + 1 ELSE stream[k].closes

Disconnected == [page EXCEPT !.stream = None, !.due = {}]

\* The handler returns: the request is cancelled, or the channel is closed.
Unsubscribe(k) ==
    /\ stream[k].state = "subscribed"
    /\ \/ page.stream /= k
       \/ stream[k].closes > 0 /\ stream[k].queue = <<>>
    /\ stream' = [stream EXCEPT ![k].state = "ended", ![k].queue = <<>>,
                                ![k].closes = ClosedBy(k)]
    /\ page' = IF page.stream = k THEN Disconnected ELSE page
    /\ UNCHANGED <<stored, recording, log, closed>>

\* A request whose client is gone before the handler subscribes.
Abandon(k) ==
    /\ stream[k].state = "accepted" /\ page.stream /= k
    /\ stream' = [stream EXCEPT ![k].state = "ended"]
    /\ UNCHANGED <<stored, recording, log, closed, page>>

Close ==
    /\ ~closed
    /\ closed' = TRUE
    /\ stream' = [k \in Streams |-> [stream[k] EXCEPT !.closes = ClosedBy(k)]]
    /\ UNCHANGED <<stored, recording, log, page>>

-----------------------------------------------------------------------------
(* useSecurityMonitorStream *)

\* connect, at first or two seconds after a stream has ended.
Connect(k) ==
    /\ page.stream = None
    /\ stream[k].state = "new"
    /\ stream' = [stream EXCEPT ![k].state = "accepted"]
    /\ page' = [page EXCEPT !.stream = k]
    /\ UNCHANGED <<stored, recording, log, closed>>

\* The connection breaks.
Disconnect ==
    /\ page.stream /= None
    /\ page' = Disconnected
    /\ UNCHANGED <<stored, recording, log, closed, stream>>

\* The effect of useSecurityMonitoringPage on an event it has not handled:
\* it puts off the refresh by another 250 ms.
Notice(e) ==
    IF e = page.handled THEN page
    ELSE [page EXCEPT !.handled = e, !.timer = TRUE]

\* The handler takes an event from the channel and the page receives it; if
\* the page has gone, the event is written to nobody.
Deliver(k) ==
    /\ stream[k].state = "subscribed"
    /\ stream[k].queue /= <<>>
    /\ stream' = [stream EXCEPT ![k].queue = Tail(@)]
    /\ page' = IF page.stream = k THEN Notice(Head(stream[k].queue)) ELSE page
    /\ UNCHANGED <<stored, recording, log, closed>>

-----------------------------------------------------------------------------
(* useSecurityMonitoringPage *)

\* refetch() starts anew when there are data to show already; without them it
\* waits for the fetch under way.
Refetch == IF page.fetch = Idle \/ page.loaded THEN Sent ELSE page.fetch

\* A query that comes into view is fetched unless a fetch is under way.
FetchInView == IF page.fetch = Idle THEN Sent ELSE page.fetch

\* A fetch that is waited for, and that was read before.
Overtaken(fetch) == page.fetch.state = "read" /\ fetch = page.fetch

\* The summary is fetched again, and the history from its first page; from
\* another page that one is gone to, and so comes into view.
Refreshed ==
    IF page.query = "history" /\ page.number /= 0 THEN FetchInView ELSE Refetch

\* Faulty variants: the summary is left alone; the timer repeats.
RefreshHistory ==
    /\ page.timer
    /\ page' = [page EXCEPT !.timer = FALSE, !.number = 0,
                            !.fetch = IF page.query = "history" THEN Refreshed ELSE @]
    /\ UNCHANGED <<stored, recording, log, closed, stream>>

RefreshRepeats ==
    /\ page.timer
    /\ page' = [page EXCEPT !.number = 0, !.fetch = Sent]
    /\ UNCHANGED <<stored, recording, log, closed, stream>>

\* The timer's callback.
RefreshDue ==
    /\ page.timer
    /\ page' = [page EXCEPT !.timer = FALSE, !.number = 0, !.fetch = Refreshed,
                            !.missed = Overtaken(Refreshed)]
    /\ UNCHANGED <<stored, recording, log, closed, stream>>

\* The user turns to a page.  The URL changes, and with it setPage, on which the
\* effect depends: React runs its cleanup, which clears the timer, and then
\* the effect, which finds the event handled.  Nothing refreshes the summary.
MoveTo(n) ==
    /\ page.troubles < MaxTroubles
    /\ n /= page.number
    /\ LET back == page.query = "history" /\ n = 0 IN
       page' = [page EXCEPT
            !.troubles = @ + 1, !.number = n, !.timer = FALSE,
            !.fetch = IF back THEN FetchInView ELSE @,
            !.missed = IF back THEN Overtaken(FetchInView)
                       ELSE @ \/ (page.query = "summary" /\ page.timer)]
    /\ UNCHANGED <<stored, recording, log, closed, stream>>

\* The queries of List and of Summary.
Read ==
    /\ page.fetch = Sent
    /\ page' = [page EXCEPT !.fetch = [state |-> "read", got |-> stored]]
    /\ UNCHANGED <<stored, recording, log, closed, stream>>

Show ==
    /\ page.fetch.state = "read"
    /\ page' = [page EXCEPT !.shown = page.fetch.got, !.loaded = TRUE, !.fetch = Idle]
    /\ UNCHANGED <<stored, recording, log, closed, stream>>

\* A fetch fails, and its retry too: what was shown stays.
FetchFails ==
    /\ page.troubles < MaxTroubles
    /\ page.fetch /= Idle
    /\ page' = [page EXCEPT !.troubles = @ + 1, !.fetch = Idle, !.missed = TRUE]
    /\ UNCHANGED <<stored, recording, log, closed, stream>>

Next ==
    \/ \E e \in Events : Insert(e) \/ Publish(e)
    \/ \E k \in Streams : Subscribe(k) \/ Unsubscribe(k) \/ Abandon(k)
                          \/ Connect(k) \/ Deliver(k)
    \/ \E n \in 0 .. 1 : MoveTo(n)
    \/ Close \/ Disconnect \/ RefreshDue \/ Read \/ Show \/ FetchFails

\* A running goroutine, timer or fetch goes on; nothing else is owed.
Fairness ==
    /\ \A e \in Events : WF_vars(Publish(e))
    /\ \A k \in Streams : WF_vars(Subscribe(k)) /\ WF_vars(Unsubscribe(k)) /\ WF_vars(Deliver(k))
    /\ WF_vars(RefreshDue) /\ WF_vars(Read) /\ WF_vars(Show)

Spec == Init /\ [][Next]_vars
FairSpec == Spec /\ Fairness

-----------------------------------------------------------------------------
(* Properties *)

Fetches == [state : {"idle", "sent", "read"}, got : SUBSET Events]

\* Types; a channel never holds more than its capacity, and it is closed once, by its handler
\* or by Close, whichever comes first: the second would panic.
TypeOK ==
    /\ stored \subseteq Events /\ recording \subseteq Events
    /\ log \in Seq(Events) /\ closed \in BOOLEAN
    /\ stream \in [Streams -> [state : {"new", "accepted", "subscribed", "ended"},
                               queue : UNION {[1 .. n -> Events] : n \in 0 .. Capacity},
                               closes : 0 .. 1]]
    /\ page \in [query : {"history", "summary"}, fetch : Fetches, loaded : BOOLEAN,
                 shown : SUBSET Events, stream : Streams \cup {None},
                 handled : Events \cup {None}, timer : BOOLEAN, number : 0 .. 1,
                 troubles : 0 .. MaxTroubles, due : SUBSET Events, missed : BOOLEAN]

\* A slow page loses old events only: a channel holds the latest publications,
\* in their order, with no gap.
QueueIsLatest ==
    \A k \in Subscribers : IsSuffix(stream[k].queue, log)

\* Nothing is under way that would change what the page shows.
AtRest ==
    /\ page.stream /= None => stream[page.stream].queue = <<>>
    /\ ~page.timer
    /\ page.fetch = Idle

\* Every event published to the page's stream is in the first page of the
\* history in the end, also one that the channel had to drop, unless the last
\* fetch has failed, or the last refresh waited for a fetch that was read before.
HistoryCatchesUp ==
    page.query = "history" /\ page.number = 0 /\ AtRest /\ ~page.missed =>
        page.due \subseteq page.shown

\* The same of the summary, on any page; here a move of the user within 250 ms
\* of an event is another way to lose the refresh.
SummaryCatchesUp ==
    page.query = "summary" /\ AtRest /\ ~page.missed => page.due \subseteq page.shown

\* Both queries of the page have every event they were told of, once nothing is under way.
CatchesUp == HistoryCatchesUp /\ SummaryCatchesUp

\* The page comes to rest when events stop: the refresh is not put off for ever,
\* and no fetch is left over.
ComesToRest == []<>AtRest
=============================================================================
