------------------------ MODULE SecurityMonitorProofs ------------------------
(***************************************************************************)
(* Proofs about SecurityMonitor for every number of events and streams and *)
(* every capacity of a channel: what a slow page can lose, and that the    *)
(* page shows in the end what it has been told of.                         *)
(***************************************************************************)
EXTENDS SecurityMonitor, SequenceTheorems, TLAPS

-----------------------------------------------------------------------------
(* Channels as sequences *)

Channel == {q \in Seq(Events) : Len(q) <= Capacity}

StreamType == [state : {"new", "accepted", "subscribed", "ended"}, queue : Channel, closes : 0 .. 1]

PageType == [query : {"history", "summary"}, fetch : Fetches, loaded : BOOLEAN,
             shown : SUBSET Events, stream : Streams \cup {None},
             handled : Events \cup {None}, timer : BOOLEAN, number : 0 .. 1,
             troubles : 0 .. MaxTroubles, due : SUBSET Events, missed : BOOLEAN]

\* The channels that TypeOK lists by their length.
LEMMA ChannelType == UNION {[1 .. n -> Events] : n \in 0 .. Capacity} = Channel
<1>1. ASSUME NEW q \in Channel PROVE q \in UNION {[1 .. n -> Events] : n \in 0 .. Capacity}
  <2>1. q \in [1 .. Len(q) -> Events] /\ Len(q) \in 0 .. Capacity
    BY <1>1, CapacityAssumption, LenProperties, ElementOfSeq DEF Channel
  <2>2. QED
    BY <2>1
<1>2. ASSUME NEW n \in 0 .. Capacity, NEW q \in [1 .. n -> Events] PROVE q \in Channel
  <2>1. q \in Seq(Events) /\ Len(q) = n
    BY <1>2, CapacityAssumption, SeqDef
  <2>2. QED
    BY <2>1, CapacityAssumption DEF Channel
<1>3. QED
  BY <1>1, <1>2

\* A suffix, element by element.
LEMMA SuffixMeans ==
    ASSUME NEW s \in Seq(Events), NEW t \in Seq(Events)
    PROVE  IsSuffix(s, t) <=>
               Len(s) <= Len(t) /\ \A i \in 1 .. Len(s) : s[i] = t[Len(t) - Len(s) + i]
<1> DEFINE r == Reverse(s)
           w == Reverse(t)
           d == Len(t) - Len(s)
<1>1. /\ Len(s) \in Nat /\ Len(t) \in Nat
      /\ r \in Seq(Events) /\ w \in Seq(Events) /\ Len(r) = Len(s) /\ Len(w) = Len(t)
      /\ \A i \in 1 .. Len(s) : r[i] = s[Len(s) - i + 1]
      /\ \A i \in 1 .. Len(t) : w[i] = t[Len(t) - i + 1]
  BY DEF Reverse
<1>2. Len(s) <= Len(t) =>
          (SubSeq(r, 1, Len(r)) = SubSeq(w, 1, Len(r)) <=> \A i \in 1 .. Len(s) : r[i] = w[i])
  <2> HIDE DEF r, w
  <2> SUFFICES ASSUME Len(s) <= Len(t)
               PROVE  SubSeq(r, 1, Len(r)) = SubSeq(w, 1, Len(r)) <=> \A i \in 1 .. Len(s) : r[i] = w[i]
    OBVIOUS
  <2>1. /\ SubSeq(r, 1, Len(s)) = [i \in 1 .. Len(s) |-> r[i]]
        /\ SubSeq(w, 1, Len(s)) = [i \in 1 .. Len(s) |-> w[i]]
    BY <1>1
  <2>2. QED
    BY <1>1, <2>1
<1>3. (\A i \in 1 .. Len(s) : s[Len(s) - i + 1] = t[Len(t) - i + 1])
      <=> \A i \in 1 .. Len(s) : s[i] = t[Len(t) - Len(s) + i]
  <2>1. ASSUME \A i \in 1 .. Len(s) : s[Len(s) - i + 1] = t[Len(t) - i + 1], NEW i \in 1 .. Len(s)
        PROVE  s[i] = t[Len(t) - Len(s) + i]
    <3>1. Len(s) - i + 1 \in 1 .. Len(s)
      BY <1>1
    <3>2. s[Len(s) - (Len(s) - i + 1) + 1] = t[Len(t) - (Len(s) - i + 1) + 1]
      BY <2>1, <3>1
    <3>3. Len(s) - (Len(s) - i + 1) + 1 = i /\ Len(t) - (Len(s) - i + 1) + 1 = Len(t) - Len(s) + i
      BY <1>1
    <3>4. QED
      BY <3>2, <3>3
  <2>2. ASSUME \A i \in 1 .. Len(s) : s[i] = t[Len(t) - Len(s) + i], NEW i \in 1 .. Len(s)
        PROVE  s[Len(s) - i + 1] = t[Len(t) - i + 1]
    <3>1. Len(s) - i + 1 \in 1 .. Len(s)
      BY <1>1
    <3>2. s[Len(s) - i + 1] = t[Len(t) - Len(s) + (Len(s) - i + 1)]
      BY <2>2, <3>1
    <3>3. Len(t) - Len(s) + (Len(s) - i + 1) = Len(t) - i + 1
      BY <1>1
    <3>4. QED
      BY <3>2, <3>3
  <2>3. QED
    BY <2>1, <2>2
<1>4. Len(s) <= Len(t) => \A i \in 1 .. Len(s) : i \in 1 .. Len(t)
  BY <1>1
<1>5. QED
  BY <1>1, <1>2, <1>3, <1>4 DEF IsSuffix, IsPrefix

LEMMA PushType ==
    ASSUME NEW q \in Channel, NEW e \in Events
    PROVE  Push(q, e) \in Channel /\ Push(q, e) # <<>>
<1>1. CASE Len(q) < Capacity
  BY <1>1, CapacityAssumption DEF Push, Channel
<1>2. CASE ~(Len(q) < Capacity)
  <2>1. q \in Seq(Events) /\ q # <<>> /\ Len(q) = Capacity
    BY <1>2, CapacityAssumption DEF Channel
  <2>2. Tail(q) \in Seq(Events) /\ Len(Tail(q)) = Capacity - 1
    BY <2>1
  <2>3. QED
    BY <1>2, <2>2, CapacityAssumption DEF Push, Channel
<1>3. QED
  BY <1>1, <1>2

\* s is the end of t, at each of its places.
AtEnd(s, t) ==
    /\ Len(s) <= Len(t)
    /\ \A i \in 1 .. Len(s) : s[i] = t[Len(t) - Len(s) + i]

LEMMA SuffixAtEnd ==
    ASSUME NEW s \in Seq(Events), NEW t \in Seq(Events)
    PROVE  IsSuffix(s, t) <=> AtEnd(s, t)
BY SuffixMeans DEF AtEnd

\* What a channel holds stays the end of what has been published.
LEMMA PushSuffix ==
    ASSUME NEW q \in Channel, NEW e \in Events, NEW l \in Seq(Events), IsSuffix(q, l)
    PROVE  IsSuffix(Push(q, e), Append(l, e))
<1> DEFINE p == Push(q, e)
           m == Append(l, e)
<1>1. /\ q \in Seq(Events) /\ Len(q) \in Nat /\ Len(l) \in Nat /\ Len(q) <= Len(l)
      /\ \A i \in 1 .. Len(q) : q[i] = l[Len(l) - Len(q) + i]
  BY SuffixAtEnd DEF Channel, AtEnd
<1>2. /\ p \in Seq(Events) /\ m \in Seq(Events) /\ Len(m) = Len(l) + 1
      /\ m[Len(l) + 1] = e /\ \A i \in 1 .. Len(l) : m[i] = l[i]
  BY PushType DEF Channel
<1>3. CASE Len(q) < Capacity
  <2>1. p = Append(q, e)
    BY <1>3 DEF Push
  <2>2. Len(p) = Len(q) + 1 /\ p[Len(q) + 1] = e /\ \A i \in 1 .. Len(q) : p[i] = q[i]
    BY <1>1, <2>1
  <2> HIDE DEF p, m
  <2>3. ASSUME NEW i \in 1 .. Len(p) PROVE p[i] = m[Len(m) - Len(p) + i]
    <3>1. Len(m) - Len(p) + i = Len(l) - Len(q) + i
      BY <1>1, <1>2, <2>2
    <3>2. CASE i = Len(q) + 1
      BY <1>1, <1>2, <2>2, <3>1, <3>2
    <3>3. CASE i \in 1 .. Len(q)
      <4>1. p[i] = l[Len(l) - Len(q) + i] /\ Len(l) - Len(q) + i \in 1 .. Len(l)
        BY <1>1, <2>2, <3>3
      <4>2. QED
        BY <1>2, <3>1, <4>1
    <3>4. QED
      BY <1>1, <2>2, <3>2, <3>3
  <2>4. AtEnd(p, m)
    BY <1>1, <1>2, <2>2, <2>3 DEF AtEnd
  <2>5. QED
    BY <1>2, <2>4, SuffixAtEnd DEF p, m
<1>4. CASE ~(Len(q) < Capacity)
  <2>1. p = Append(Tail(q), e) /\ q # <<>>
    BY <1>1, <1>4, CapacityAssumption DEF Push, Channel
  <2>2. /\ Tail(q) \in Seq(Events) /\ Len(Tail(q)) = Len(q) - 1
        /\ \A i \in 1 .. Len(q) - 1 : Tail(q)[i] = q[i + 1]
    BY <1>1, <2>1
  <2>3. Len(p) = Len(q) /\ p[Len(q)] = e /\ \A i \in 1 .. Len(q) - 1 : p[i] = q[i + 1]
    BY <1>1, <2>1, <2>2
  <2> HIDE DEF p, m
  <2>4. ASSUME NEW i \in 1 .. Len(p) PROVE p[i] = m[Len(m) - Len(p) + i]
    <3>1. Len(m) - Len(p) + i = Len(l) - Len(q) + (i + 1)
      BY <1>1, <1>2, <2>3
    <3>2. CASE i = Len(q)
      BY <1>1, <1>2, <2>3, <3>1, <3>2
    <3>3. CASE i \in 1 .. Len(q) - 1
      <4>1. p[i] = q[i + 1] /\ i + 1 \in 1 .. Len(q)
        BY <1>1, <2>3, <3>3
      <4>2. q[i + 1] = l[Len(l) - Len(q) + (i + 1)]
        BY <1>1, <4>1
      <4>3. Len(l) - Len(q) + (i + 1) \in 1 .. Len(l)
        BY <1>1, <4>1
      <4>4. QED
        BY <1>2, <3>1, <4>1, <4>2, <4>3
    <3>4. QED
      BY <1>1, <2>3, <3>2, <3>3
  <2>5. AtEnd(p, m)
    BY <1>1, <1>2, <2>3, <2>4 DEF AtEnd
  <2>6. QED
    BY <1>2, <2>5, SuffixAtEnd DEF p, m
<1>5. QED
  BY <1>3, <1>4

LEMMA TailSuffix ==
    ASSUME NEW q \in Channel, q # <<>>, NEW l \in Seq(Events), IsSuffix(q, l)
    PROVE  IsSuffix(Tail(q), l)
<1> DEFINE u == Tail(q)
<1>1. /\ q \in Seq(Events) /\ Len(q) \in Nat /\ Len(l) \in Nat /\ Len(q) <= Len(l)
      /\ \A i \in 1 .. Len(q) : q[i] = l[Len(l) - Len(q) + i]
  BY SuffixAtEnd DEF Channel, AtEnd
<1>2. /\ u \in Seq(Events) /\ Len(u) = Len(q) - 1 /\ \A i \in 1 .. Len(q) - 1 : u[i] = q[i + 1]
  BY <1>1
<1> HIDE DEF u
<1>3. ASSUME NEW i \in 1 .. Len(u) PROVE u[i] = l[Len(l) - Len(u) + i]
  <2>1. u[i] = q[i + 1] /\ i + 1 \in 1 .. Len(q)
    BY <1>1, <1>2
  <2>2. q[i + 1] = l[Len(l) - Len(q) + (i + 1)]
    BY <1>1, <2>1
  <2>3. Len(l) - Len(q) + (i + 1) = Len(l) - Len(u) + i
    BY <1>1, <1>2
  <2>4. QED
    BY <2>1, <2>2, <2>3
<1>4. AtEnd(u, l)
  BY <1>1, <1>2, <1>3 DEF AtEnd
<1>5. QED
  BY <1>2, <1>4, SuffixAtEnd DEF u

LEMMA EmptySuffix == ASSUME NEW l \in Seq(Events) PROVE IsSuffix(<<>>, l)
<1>1. <<>> \in Seq(Events) /\ Len(<<>>) = 0 /\ Len(l) \in Nat
  OBVIOUS
<1>2. AtEnd(<<>>, l)
  BY <1>1 DEF AtEnd
<1>3. QED
  BY <1>1, <1>2, SuffixAtEnd
-----------------------------------------------------------------------------
(* Types *)

Types ==
    /\ stored \subseteq Events /\ recording \subseteq Events
    /\ log \in Seq(Events) /\ closed \in BOOLEAN
    /\ stream \in [Streams -> StreamType]
    /\ page \in PageType

LEMMA TypesAreTypeOK == Types <=> TypeOK
BY ChannelType, Zenon DEF Types, TypeOK, StreamType, PageType

LEMMA InitTypes == Init => Types
<1> SUFFICES ASSUME Init PROVE Types
  OBVIOUS
<1>1. NoStream \in StreamType
  BY CapacityAssumption DEF NoStream, StreamType, Channel
<1>2. \A query \in {"history", "summary"} : FirstPage(query) \in PageType
  BY BoundAssumption DEF FirstPage, PageType, Fetches, Sent
<1>3. stream \in [Streams -> StreamType] /\ page \in PageType
  BY <1>1, <1>2 DEF Init
<1>4. stored \subseteq Events /\ recording \subseteq Events /\ log \in Seq(Events) /\ closed \in BOOLEAN
  <2>1. <<>> \in Seq(Events)
    OBVIOUS
  <2>2. stored = {} /\ recording = {} /\ log = <<>> /\ closed = FALSE
    BY DEF Init
  <2>3. QED
    BY <2>1, <2>2
<1>5. QED
  BY <1>3, <1>4 DEF Types

\* What Refreshed, FetchInView and Refetch leave of a fetch.
LEMMA FetchTypes ==
    ASSUME page \in PageType
    PROVE  /\ Refetch \in Fetches /\ FetchInView \in Fetches /\ Refreshed \in Fetches
           /\ Idle \in Fetches /\ Sent \in Fetches /\ page.fetch \in Fetches
BY DEF Refetch, FetchInView, Refreshed, PageType, Fetches, Idle, Sent

\* The page's own steps change the page alone.
LEMMA PageStepTypes ==
    ASSUME Types,
           (\E n \in 0 .. 1 : MoveTo(n)) \/ Disconnect \/ RefreshDue \/ Read \/ Show \/ FetchFails
    PROVE  Types'
<1>1. page \in PageType /\ stored \subseteq Events
  BY DEF Types
<1>2. UNCHANGED <<stored, recording, log, closed, stream>>
  BY DEF MoveTo, Disconnect, RefreshDue, Read, Show, FetchFails
<1>3. page' \in PageType
  <2>1. ASSUME NEW n \in 0 .. 1, MoveTo(n) PROVE page' \in PageType
    <3> DEFINE back == page.query = "history" /\ n = 0
               f == IF back THEN FetchInView ELSE page.fetch
               m == IF back THEN Overtaken(FetchInView)
                    ELSE page.missed \/ (page.query = "summary" /\ page.timer)
    <3>1. f \in Fetches
      BY <1>1, FetchTypes
    <3>2. m \in BOOLEAN
      BY <1>1 DEF Overtaken, PageType
    <3>3. page.troubles + 1 \in 0 .. MaxTroubles
      BY <1>1, <2>1, BoundAssumption DEF MoveTo, PageType
    <3>4. page' = [page EXCEPT !.troubles = page.troubles + 1, !.number = n, !.timer = FALSE,
                               !.fetch = f, !.missed = m]
      BY <2>1 DEF MoveTo
    <3> HIDE DEF f, m
    <3>5. QED
      BY <1>1, <3>1, <3>2, <3>3, <3>4 DEF PageType
  <2>2. CASE Disconnect
    BY <1>1, <2>2 DEF Disconnect, Disconnected, PageType
  <2>3. CASE RefreshDue
    <3> DEFINE f == Refreshed
               m == Overtaken(Refreshed)
    <3>1. f \in Fetches /\ m \in BOOLEAN /\ 0 \in 0 .. 1
      BY <1>1, FetchTypes DEF Overtaken
    <3>2. page' = [page EXCEPT !.timer = FALSE, !.number = 0, !.fetch = f, !.missed = m]
      BY <2>3 DEF RefreshDue
    <3> HIDE DEF f, m
    <3>3. QED
      BY <1>1, <3>1, <3>2 DEF PageType
  <2>4. CASE Read
    <3>1. [state |-> "read", got |-> stored] \in Fetches
      BY <1>1 DEF Fetches
    <3>2. QED
      BY <1>1, <2>4, <3>1 DEF Read, PageType
  <2>5. CASE Show
    <3>1. page.fetch.got \in SUBSET Events /\ Idle \in Fetches
      BY <1>1 DEF PageType, Fetches, Idle
    <3>2. QED
      BY <1>1, <2>5, <3>1 DEF Show, PageType
  <2>6. CASE FetchFails
    <3>1. page.troubles + 1 \in 0 .. MaxTroubles /\ Idle \in Fetches
      BY <1>1, <2>6, BoundAssumption, FetchTypes DEF FetchFails, PageType
    <3>2. QED
      BY <1>1, <2>6, <3>1 DEF FetchFails, PageType
  <2>7. QED
    BY <2>1, <2>2, <2>3, <2>4, <2>5, <2>6
<1>4. QED
  BY <1>2, <1>3 DEF Types

\* Nobody closes a channel that is closed.
LEMMA ClosedByType ==
    ASSUME Types, NEW k \in Streams
    PROVE  ClosedBy(k) \in 0 .. 1
BY DEF Types, StreamType, ClosedBy, Subscribers

LEMMA EventStepTypes ==
    ASSUME Types, NEW e \in Events, Insert(e) \/ Publish(e)
    PROVE  Types'
<1>1. CASE Insert(e)
  BY <1>1 DEF Insert, Types
<1>2. CASE Publish(e)
  <2>1. ASSUME NEW k \in Streams PROVE [stream[k] EXCEPT !.queue = Push(@, e)] \in StreamType
    <3>1. stream[k] \in StreamType /\ Push(stream[k].queue, e) \in Channel
      BY PushType DEF Types, StreamType
    <3>2. QED
      BY <3>1 DEF StreamType
  <2>2. stream' \in [Streams -> StreamType]
    BY <1>2, <2>1 DEF Publish, Types
  <2>3. [page EXCEPT !.due = @ \cup {e}] \in PageType
    BY DEF Types, PageType
  <2>4. page' \in PageType
    BY <1>2, <2>3 DEF Publish, Types
  <2>5. log' \in Seq(Events)
    BY <1>2 DEF Publish, Types
  <2>6. QED
    BY <1>2, <2>2, <2>4, <2>5 DEF Publish, Types
<1>3. QED
  BY <1>1, <1>2

LEMMA StreamStepTypes ==
    ASSUME Types, NEW k \in Streams,
           Subscribe(k) \/ Unsubscribe(k) \/ Abandon(k) \/ Connect(k) \/ Deliver(k)
    PROVE  Types'
<1>1. /\ stream \in [Streams -> StreamType] /\ stream[k] \in StreamType /\ page \in PageType
      /\ Disconnected \in PageType
  BY DEF Types, Disconnected, PageType
<1>2. stream' \in [Streams -> StreamType] /\ page' \in PageType
  <2>1. CASE Subscribe(k)
    <3> DEFINE c == IF closed THEN 1 ELSE 0
    <3>1. c \in 0 .. 1
      OBVIOUS
    <3>2. stream' = [stream EXCEPT ![k] = [stream[k] EXCEPT !.state = "subscribed", !.closes = c]]
      BY <1>1, <2>1 DEF Subscribe
    <3> HIDE DEF c
    <3>3. [stream[k] EXCEPT !.state = "subscribed", !.closes = c] \in StreamType
      BY <1>1, <3>1 DEF StreamType
    <3>4. QED
      BY <1>1, <2>1, <3>2, <3>3 DEF Subscribe
  <2>2. CASE Unsubscribe(k)
    <3> DEFINE c == ClosedBy(k)
    <3>1. c \in 0 .. 1 /\ <<>> \in Channel
      BY ClosedByType, CapacityAssumption DEF Channel
    <3>2. stream' = [stream EXCEPT ![k] = [stream[k] EXCEPT !.state = "ended", !.queue = <<>>,
                                                            !.closes = c]]
      BY <1>1, <2>2 DEF Unsubscribe
    <3> HIDE DEF c
    <3>3. [stream[k] EXCEPT !.state = "ended", !.queue = <<>>, !.closes = c] \in StreamType
      BY <1>1, <3>1 DEF StreamType
    <3>4. page' \in PageType
      BY <1>1, <2>2 DEF Unsubscribe
    <3>5. QED
      BY <1>1, <3>2, <3>3, <3>4
  <2>3. CASE Abandon(k)
    <3>1. [stream[k] EXCEPT !.state = "ended"] \in StreamType
      BY <1>1 DEF StreamType
    <3>2. QED
      BY <1>1, <2>3, <3>1 DEF Abandon
  <2>4. CASE Connect(k)
    <3>1. [stream[k] EXCEPT !.state = "accepted"] \in StreamType /\ [page EXCEPT !.stream = k] \in PageType
      BY <1>1 DEF StreamType, PageType
    <3>2. QED
      BY <1>1, <2>4, <3>1 DEF Connect
  <2>5. CASE Deliver(k)
    <3>1. /\ stream[k].queue \in Seq(Events) /\ stream[k].queue # <<>>
          /\ Len(stream[k].queue) <= Capacity
      BY <1>1, <2>5 DEF Deliver, StreamType, Channel
    <3>2. Head(stream[k].queue) \in Events /\ Tail(stream[k].queue) \in Channel
      BY <3>1, CapacityAssumption DEF Channel
    <3>3. [stream[k] EXCEPT !.queue = Tail(stream[k].queue)] \in StreamType
      BY <1>1, <3>2 DEF StreamType
    <3>4. stream' = [stream EXCEPT ![k] = [stream[k] EXCEPT !.queue = Tail(stream[k].queue)]]
      BY <1>1, <2>5 DEF Deliver
    <3>5. Notice(Head(stream[k].queue)) \in PageType
      BY <1>1, <3>2 DEF Notice, PageType
    <3>6. QED
      BY <1>1, <2>5, <3>3, <3>4, <3>5 DEF Deliver
  <2>6. QED
    BY <2>1, <2>2, <2>3, <2>4, <2>5
<1>3. UNCHANGED <<stored, recording, log, closed>>
  BY DEF Subscribe, Unsubscribe, Abandon, Connect, Deliver
<1>4. QED
  BY <1>2, <1>3 DEF Types

LEMMA StepTypes == Types /\ [Next]_vars => Types'
<1> SUFFICES ASSUME Types, [Next]_vars PROVE Types'
  OBVIOUS
<1>1. ASSUME NEW e \in Events, Insert(e) \/ Publish(e) PROVE Types'
  BY <1>1, EventStepTypes
<1>2. ASSUME NEW k \in Streams,
             Subscribe(k) \/ Unsubscribe(k) \/ Abandon(k) \/ Connect(k) \/ Deliver(k)
      PROVE  Types'
  BY <1>2, StreamStepTypes
<1>3. CASE (\E n \in 0 .. 1 : MoveTo(n)) \/ Disconnect \/ RefreshDue \/ Read \/ Show \/ FetchFails
  BY <1>3, PageStepTypes
<1>4. CASE Close
  <2>1. ASSUME NEW k \in Streams PROVE [stream[k] EXCEPT !.closes = ClosedBy(k)] \in StreamType
    <3> DEFINE c == ClosedBy(k)
    <3>1. stream[k] \in StreamType /\ c \in 0 .. 1
      BY ClosedByType DEF Types
    <3> HIDE DEF c
    <3>2. [stream[k] EXCEPT !.closes = c] \in StreamType
      BY <3>1 DEF StreamType
    <3>3. QED
      BY <3>2 DEF c
  <2>2. stream' \in [Streams -> StreamType]
    BY <1>4, <2>1 DEF Close
  <2>3. QED
    BY <1>4, <2>2 DEF Close, Types
<1>5. CASE UNCHANGED vars
  BY <1>5 DEF vars, Types
<1>6. QED
  BY <1>1, <1>2, <1>3, <1>4, <1>5 DEF Next

LEMMA TypesAlways == Spec => []Types
BY InitTypes, StepTypes, PTL DEF Spec

\* A channel never holds more than its capacity, and it is closed once, whoever of its
\* handler and Close comes first; the page's bounds hold.
THEOREM TypeCorrect == Spec => []TypeOK
BY TypesAlways, TypesAreTypeOK, PTL

-----------------------------------------------------------------------------
(* What a slow page loses *)

\* A channel has events only while its handler is subscribed; while it is in the
\* broadcaster's map, it holds the end of what has been published.
Latest ==
    /\ \A k \in Streams : stream[k].state # "subscribed" => stream[k].queue = <<>>
    /\ QueueIsLatest

LEMMA InitLatest == Init => Latest
BY DEF Init, NoStream, Latest, QueueIsLatest, Subscribers

LEMMA StepLatest == Types /\ Latest /\ [Next]_vars => Latest'
<1> SUFFICES ASSUME Types, Latest, [Next]_vars PROVE Latest'
  OBVIOUS
<1>1. ASSUME NEW j \in Streams
      PROVE  /\ stream[j] \in StreamType /\ stream[j].queue \in Channel
             /\ stream[j].state # "subscribed" => stream[j].queue = <<>>
             /\ j \in Subscribers => IsSuffix(stream[j].queue, log)
  BY DEF Types, StreamType, Latest, QueueIsLatest
<1>2. log \in Seq(Events) /\ stream \in [Streams -> StreamType]
  BY DEF Types
\* It is enough to look at one stream.
<1> DEFINE Fits(j) == /\ stream'[j].state # "subscribed" => stream'[j].queue = <<>>
                      /\ stream'[j].state = "subscribed" /\ stream'[j].closes = 0 =>
                             IsSuffix(stream'[j].queue, log')
<1>3. (\A j \in Streams : Fits(j)) => Latest'
  BY DEF Latest, QueueIsLatest, Subscribers
<1>4. ASSUME NEW j \in Streams PROVE stream[j].state = "subscribed" /\ stream[j].closes = 0 <=> j \in Subscribers
  BY DEF Subscribers
<1>5. UNCHANGED <<stream, log>> => \A j \in Streams : Fits(j)
  BY <1>1, <1>4
<1>6. ASSUME NEW e \in Events, Publish(e), ~closed, NEW j \in Streams PROVE Fits(j)
  <2>1. log' = Append(log, e)
    BY <1>6 DEF Publish
  <2>2. CASE j \in Subscribers
    <3>1. stream'[j] = [stream[j] EXCEPT !.queue = Push(stream[j].queue, e)]
      BY <1>6, <2>2 DEF Publish
    <3>2. stream'[j].queue = Push(stream[j].queue, e) /\ stream'[j].state = "subscribed"
      BY <1>1, <1>4, <2>2, <3>1 DEF StreamType
    <3>3. IsSuffix(Push(stream[j].queue, e), Append(log, e))
      BY <1>1, <1>2, <2>2, PushSuffix
    <3>4. QED
      BY <2>1, <3>2, <3>3
  <2>3. CASE j \notin Subscribers
    <3>1. stream'[j] = stream[j]
      BY <1>6, <2>3 DEF Publish
    <3>2. QED
      BY <1>1, <1>4, <2>3, <3>1
  <2>4. QED
    BY <2>2, <2>3
<1>7. ASSUME NEW k \in Streams,
             Subscribe(k) \/ Unsubscribe(k) \/ Abandon(k) \/ Connect(k) \/ Deliver(k),
             NEW j \in Streams
      PROVE  Fits(j)
  <2>1. log' = log
    BY <1>7 DEF Subscribe, Unsubscribe, Abandon, Connect, Deliver
  <2>2. CASE j # k
    <3>1. stream'[j] = stream[j]
      BY <1>2, <1>7, <2>2 DEF Subscribe, Unsubscribe, Abandon, Connect, Deliver
    <3>2. QED
      BY <1>1, <1>4, <2>1, <3>1
  <2>3. CASE j = k /\ ~Deliver(k)
    <3>1. stream'[j].queue = <<>>
      BY <1>1, <1>2, <1>7, <2>3 DEF Subscribe, Unsubscribe, Abandon, Connect, StreamType
    <3>2. QED
      BY <1>2, <2>1, <3>1, EmptySuffix
  <2>4. CASE j = k /\ Deliver(k)
    <3>1. /\ stream[k].queue # <<>> /\ stream[k].state = "subscribed"
          /\ stream'[k].queue = Tail(stream[k].queue)
          /\ stream'[k].state = "subscribed" /\ stream'[k].closes = stream[k].closes
      BY <1>1, <1>2, <2>4 DEF Deliver, StreamType
    <3>2. k \in Subscribers => IsSuffix(Tail(stream[k].queue), log)
      BY <1>1, <1>2, <3>1, TailSuffix
    <3>3. QED
      BY <1>4, <2>1, <2>4, <3>1, <3>2
  <2>5. QED
    BY <2>2, <2>3, <2>4
<1>8. ASSUME Close, NEW j \in Streams PROVE Fits(j)
  <2>1. stream'[j] = [stream[j] EXCEPT !.closes = ClosedBy(j)] /\ log' = log
    BY <1>8 DEF Close
  <2>2. /\ stream'[j].state = stream[j].state /\ stream'[j].queue = stream[j].queue
        /\ stream'[j].closes = ClosedBy(j)
    BY <1>1, <2>1 DEF StreamType
  <2>3. stream'[j].state = "subscribed" => stream'[j].closes # 0
    <3>1. stream[j].closes \in 0 .. 1
      BY <1>1 DEF StreamType
    <3>2. CASE j \in Subscribers
      BY <2>2, <3>1, <3>2 DEF ClosedBy
    <3>3. CASE j \notin Subscribers
      BY <1>4, <2>2, <3>3 DEF ClosedBy
    <3>4. QED
      BY <3>2, <3>3
  <2>4. QED
    BY <1>1, <2>2, <2>3
<1>9. CASE \E e \in Events : Insert(e) \/ (closed /\ Publish(e))
  BY <1>3, <1>5, <1>9 DEF Insert, Publish
<1>10. CASE (\E n \in 0 .. 1 : MoveTo(n)) \/ Disconnect \/ RefreshDue \/ Read \/ Show \/ FetchFails
  BY <1>3, <1>5, <1>10 DEF MoveTo, Disconnect, RefreshDue, Read, Show, FetchFails
<1>11. CASE UNCHANGED vars
  BY <1>3, <1>5, <1>11 DEF vars
<1> HIDE DEF Fits
<1>12. CASE \E e \in Events : Publish(e) /\ ~closed
  BY <1>3, <1>6, <1>12
<1>13. CASE \E k \in Streams : Subscribe(k) \/ Unsubscribe(k) \/ Abandon(k) \/ Connect(k) \/ Deliver(k)
  BY <1>3, <1>7, <1>13
<1>14. CASE Close
  BY <1>3, <1>8, <1>14
<1>15. QED
  BY <1>9, <1>10, <1>11, <1>12, <1>13, <1>14 DEF Next

LEMMA LatestAlways == Spec => []Latest
BY TypesAlways, InitLatest, StepLatest, PTL DEF Spec

\* A channel that the broadcaster knows holds the latest publications, in their order and
\* with no gap, whatever its capacity: a slow page loses the oldest events only.
THEOREM LatestQueued == Spec => []QueueIsLatest
BY LatestAlways, PTL DEF Latest

-----------------------------------------------------------------------------
(* What the page shows in the end *)

Absent(e, q) == \A i \in 1 .. Len(q) : q[i] # e

\* The elements of q are in S, and each is there once.
Once(q, S) ==
    \A i \in 1 .. Len(q) :
        q[i] \in S /\ \A j \in 1 .. Len(q) : q[i] = q[j] => i = j

LEMMA PushElements ==
    ASSUME NEW q \in Channel, NEW e \in Events
    PROVE  \E d \in 0 .. 1 : \A i \in 1 .. Len(Push(q, e)) :
               \/ i = Len(Push(q, e)) /\ Push(q, e)[i] = e
               \/ i + d \in 1 .. Len(q) /\ Push(q, e)[i] = q[i + d]
<1>1. q \in Seq(Events) /\ Len(q) \in Nat
  BY DEF Channel
<1>2. CASE Len(q) < Capacity
  <2>1. /\ Len(Push(q, e)) = Len(q) + 1 /\ Push(q, e)[Len(q) + 1] = e
        /\ \A i \in 1 .. Len(q) : Push(q, e)[i] = q[i]
    BY <1>1, <1>2 DEF Push
  <2>2. \A i \in 1 .. Len(Push(q, e)) :
            \/ i = Len(Push(q, e)) /\ Push(q, e)[i] = e
            \/ i + 0 \in 1 .. Len(q) /\ Push(q, e)[i] = q[i + 0]
    BY <1>1, <2>1
  <2>3. QED
    BY <2>2
<1>3. CASE ~(Len(q) < Capacity)
  <2>1. q # <<>>
    BY <1>1, <1>3, CapacityAssumption
  <2>2. /\ Tail(q) \in Seq(Events) /\ Len(Tail(q)) = Len(q) - 1
        /\ \A i \in 1 .. Len(q) - 1 : Tail(q)[i] = q[i + 1]
    BY <1>1, <2>1
  <2>3. /\ Len(Push(q, e)) = Len(q) /\ Push(q, e)[Len(q)] = e
        /\ \A i \in 1 .. Len(q) - 1 : Push(q, e)[i] = q[i + 1]
    BY <1>1, <1>3, <2>2 DEF Push
  <2>4. \A i \in 1 .. Len(Push(q, e)) :
            \/ i = Len(Push(q, e)) /\ Push(q, e)[i] = e
            \/ i + 1 \in 1 .. Len(q) /\ Push(q, e)[i] = q[i + 1]
    BY <1>1, <2>3
  <2>5. QED
    BY <2>4
<1>4. QED
  BY <1>2, <1>3

LEMMA PushOnce ==
    ASSUME NEW q \in Channel, NEW S, NEW e \in Events, Once(q, S), e \notin S
    PROVE  Once(Push(q, e), S \cup {e})
<1> DEFINE p == Push(q, e)
<1>1. Len(p) \in Nat /\ Len(q) \in Nat
  <2>1. p \in Channel
    BY PushType
  <2> HIDE DEF p
  <2>2. QED
    BY <2>1 DEF Channel
<1>2. PICK d \in 0 .. 1 : \A i \in 1 .. Len(p) :
               \/ i = Len(p) /\ p[i] = e
               \/ i + d \in 1 .. Len(q) /\ p[i] = q[i + d]
  BY PushElements
<1> HIDE DEF p
<1>3. ASSUME NEW i \in 1 .. Len(p) PROVE p[i] \in S \cup {e} /\ (p[i] \notin S <=> i = Len(p) /\ p[i] = e)
  <2>1. i + d \in 1 .. Len(q) /\ p[i] = q[i + d] => p[i] \in S
    BY DEF Once
  <2>2. QED
    BY <1>2, <2>1
<1>4. ASSUME NEW i \in 1 .. Len(p), NEW j \in 1 .. Len(p), p[i] = p[j] PROVE i = j
  <2>1. CASE p[i] \notin S
    BY <1>3, <1>4, <2>1
  <2>2. CASE p[i] \in S
    <3>1. /\ i + d \in 1 .. Len(q) /\ p[i] = q[i + d]
          /\ j + d \in 1 .. Len(q) /\ p[j] = q[j + d]
      BY <1>2, <1>4, <2>2
    <3>2. i + d = j + d
      BY <1>4, <3>1 DEF Once
    <3>3. QED
      BY <1>1, <3>2
  <2>3. QED
    BY <2>1, <2>2
<1>5. QED
  BY <1>3, <1>4 DEF Once, p

LEMMA PushAbsent ==
    ASSUME NEW q \in Channel, NEW e \in Events, NEW h, Absent(h, q), h # e
    PROVE  Absent(h, Push(q, e))
<1>1. PICK d \in 0 .. 1 : \A i \in 1 .. Len(Push(q, e)) :
               \/ i = Len(Push(q, e)) /\ Push(q, e)[i] = e
               \/ i + d \in 1 .. Len(q) /\ Push(q, e)[i] = q[i + d]
  BY PushElements
<1>2. QED
  BY <1>1 DEF Absent

LEMMA TailOnce ==
    ASSUME NEW q \in Channel, q # <<>>, NEW S, Once(q, S)
    PROVE  Once(Tail(q), S) /\ Head(q) \in S /\ Absent(Head(q), Tail(q))
<1>1. /\ q \in Seq(Events) /\ Len(q) \in Nat /\ 1 \in 1 .. Len(q) /\ Head(q) = q[1]
      /\ Len(Tail(q)) = Len(q) - 1 /\ \A i \in 1 .. Len(q) - 1 : Tail(q)[i] = q[i + 1]
  BY DEF Channel
<1>2. \A i \in 1 .. Len(Tail(q)) : Tail(q)[i] = q[i + 1] /\ i + 1 \in 1 .. Len(q) /\ i + 1 # 1
  BY <1>1
<1>3. Once(Tail(q), S)
  <2>1. ASSUME NEW i \in 1 .. Len(Tail(q)), NEW j \in 1 .. Len(Tail(q)), Tail(q)[i] = Tail(q)[j]
        PROVE  i = j
    <3>1. i + 1 = j + 1
      BY <1>2, <2>1 DEF Once
    <3>2. QED
      BY <1>1, <3>1
  <2>2. \A i \in 1 .. Len(Tail(q)) : Tail(q)[i] \in S
    BY <1>2 DEF Once
  <2>3. QED
    BY <2>1, <2>2 DEF Once
<1>4. Absent(Head(q), Tail(q))
  BY <1>1, <1>2 DEF Absent, Once
<1>5. QED
  BY <1>1, <1>3, <1>4 DEF Once

LEMMA EmptyOnce == ASSUME NEW S, NEW h PROVE Once(<<>>, S) /\ Absent(h, <<>>)
BY DEF Once, Absent

LEMMA OnceMonotone == ASSUME NEW q, NEW S, NEW U, Once(q, S), S \subseteq U PROVE Once(q, U)
BY DEF Once

\* What has been published.
Published == stored \ recording

\* An event is published after it is stored, and then at most once on each channel.
Queues ==
    /\ recording \subseteq stored
    /\ \A k \in Streams : Once(stream[k].queue, Published)

LEMMA InitQueues == Init => Queues
<1> SUFFICES ASSUME Init PROVE Queues
  OBVIOUS
<1>1. \A k \in Streams : stream[k].queue = <<>>
  BY DEF Init, NoStream
<1>2. QED
  BY <1>1, EmptyOnce DEF Init, Queues

LEMMA StepQueues == Types /\ Latest /\ Queues /\ [Next]_vars => Queues'
<1> SUFFICES ASSUME Types, Latest, Queues, [Next]_vars PROVE Queues'
  OBVIOUS
<1>1. ASSUME NEW j \in Streams
      PROVE  /\ stream[j] \in StreamType /\ stream[j].queue \in Channel
             /\ stream[j].state # "subscribed" => stream[j].queue = <<>>
             /\ Once(stream[j].queue, Published)
  BY DEF Types, StreamType, Latest, Queues
<1>2. recording \subseteq stored /\ stream \in [Streams -> StreamType]
  BY DEF Types, Queues
<1>3. UNCHANGED <<stored, recording, stream>> => Queues'
  BY DEF Queues, Published
<1>4. ASSUME NEW e \in Events, Insert(e) PROVE Queues'
  <2>1. Published' = Published /\ recording' \subseteq stored' /\ stream' = stream
    BY <1>2, <1>4 DEF Insert, Published
  <2>2. QED
    BY <1>1, <2>1 DEF Queues
<1>5. ASSUME NEW e \in Events, Publish(e) PROVE Queues'
  <2>1. /\ Published' = Published \cup {e} /\ e \notin Published
        /\ recording' \subseteq stored'
    BY <1>2, <1>5 DEF Publish, Published
  <2>2. ASSUME NEW j \in Streams PROVE Once(stream'[j].queue, Published \cup {e})
    <3>1. stream'[j] = stream[j] \/ stream'[j] = [stream[j] EXCEPT !.queue = Push(stream[j].queue, e)]
      BY <1>5 DEF Publish
    <3>2. stream'[j].queue = stream[j].queue \/ stream'[j].queue = Push(stream[j].queue, e)
      BY <1>1, <3>1 DEF StreamType
    <3>3. Once(stream[j].queue, Published \cup {e}) /\ Once(Push(stream[j].queue, e), Published \cup {e})
      BY <1>1, <2>1, OnceMonotone, PushOnce
    <3>4. QED
      BY <3>2, <3>3
  <2>3. QED
    BY <2>1, <2>2 DEF Queues
<1>6. ASSUME NEW k \in Streams,
             Subscribe(k) \/ Unsubscribe(k) \/ Abandon(k) \/ Connect(k) \/ Deliver(k)
      PROVE  Queues'
  <2>1. stored' = stored /\ recording' = recording
    BY <1>6 DEF Subscribe, Unsubscribe, Abandon, Connect, Deliver
  <2>2. ASSUME NEW j \in Streams PROVE Once(stream'[j].queue, Published)
    <3>1. CASE j # k
      <4>1. stream'[j] = stream[j]
        BY <1>2, <1>6, <3>1 DEF Subscribe, Unsubscribe, Abandon, Connect, Deliver
      <4>2. QED
        BY <1>1, <4>1
    <3>2. CASE j = k /\ ~Deliver(k)
      <4>1. stream'[j].queue = <<>>
        BY <1>1, <1>2, <1>6, <3>2 DEF Subscribe, Unsubscribe, Abandon, Connect, StreamType
      <4>2. QED
        BY <4>1, EmptyOnce
    <3>3. CASE j = k /\ Deliver(k)
      <4>1. stream[k].queue # <<>> /\ stream'[k].queue = Tail(stream[k].queue)
        BY <1>1, <1>2, <3>3 DEF Deliver, StreamType
      <4>2. QED
        BY <1>1, <3>3, <4>1, TailOnce
    <3>4. QED
      BY <3>1, <3>2, <3>3
  <2>3. Published' = Published /\ recording' \subseteq stored'
    BY <1>2, <2>1 DEF Published
  <2>4. QED
    BY <2>2, <2>3 DEF Queues
<1>7. CASE Close
  <2>1. ASSUME NEW j \in Streams PROVE stream'[j].queue = stream[j].queue
    <3>1. stream'[j] = [stream[j] EXCEPT !.closes = ClosedBy(j)]
      BY <1>7 DEF Close
    <3>2. QED
      BY <1>1, <3>1 DEF StreamType
  <2>2. Published' = Published /\ recording' \subseteq stored'
    BY <1>2, <1>7 DEF Close, Published
  <2>3. QED
    BY <1>1, <2>1, <2>2 DEF Queues
<1>8. CASE (\E n \in 0 .. 1 : MoveTo(n)) \/ Disconnect \/ RefreshDue \/ Read \/ Show \/ FetchFails
  BY <1>3, <1>8 DEF MoveTo, Disconnect, RefreshDue, Read, Show, FetchFails
<1>9. CASE UNCHANGED vars
  BY <1>3, <1>9 DEF vars
<1>10. QED
  BY <1>4, <1>5, <1>6, <1>7, <1>8, <1>9 DEF Next

-----------------------------------------------------------------------------

\* The page has been told of stored events only, the one it handled last is no longer in
\* its channel, and its fetch is one that the steps know.
Told ==
    /\ page.handled # None => page.handled \in Published
    /\ page.stream # None => Absent(page.handled, stream[page.stream].queue)
    /\ page.stream = None => page.due = {}
    /\ page.due \subseteq stored
    /\ page.fetch.state # "read" => page.fetch \in {Idle, Sent}

\* What makes up for an event that the page was told of and does not show.
Covered ==
    \/ stream[page.stream].queue # <<>>
    \/ page.timer
    \/ page.fetch = Sent
    \/ page.fetch.state = "read" /\ page.due \subseteq page.fetch.got
    \/ page.fetch = Idle /\ page.due \subseteq page.shown

Cover ==
    (page.query = "history" => page.number = 0) /\ ~page.missed /\ page.stream # None => Covered

LEMMA InitPage == Init => Told /\ Cover
BY DEF Init, FirstPage, Told, Cover, Sent

LEMMA PageStepTold ==
    ASSUME Types, Told,
           (\E n \in 0 .. 1 : MoveTo(n)) \/ Disconnect \/ RefreshDue \/ Read \/ Show \/ FetchFails
    PROVE  Told'
<1>1. page \in PageType /\ UNCHANGED <<stored, recording, stream>>
  BY DEF Types, MoveTo, Disconnect, RefreshDue, Read, Show, FetchFails
<1>2. /\ page'.handled = page.handled
      /\ \/ page'.stream = page.stream /\ page'.due = page.due
         \/ page'.stream = None /\ page'.due = {}
  BY <1>1 DEF PageType, MoveTo, Disconnect, Disconnected, RefreshDue, Read, Show, FetchFails
<1>3. page'.fetch.state # "read" => page'.fetch \in {Idle, Sent}
  <2>1. \A f \in {page.fetch, Refetch, FetchInView, Refreshed, Idle, Sent} :
            f.state # "read" => f \in {Idle, Sent}
    BY DEF Told, Refetch, FetchInView, Refreshed
  <2>2. page'.fetch \in {page.fetch, Refreshed, FetchInView, Idle} \/ page'.fetch.state = "read"
    <3>1. CASE (\E n \in 0 .. 1 : MoveTo(n)) \/ RefreshDue
      BY <1>1, <3>1 DEF PageType, MoveTo, RefreshDue
    <3>2. CASE Disconnect \/ Show \/ FetchFails
      BY <1>1, <3>2 DEF PageType, Disconnect, Disconnected, Show, FetchFails
    <3>3. CASE Read
      BY <1>1, <3>3 DEF PageType, Read
    <3>4. QED
      BY <3>1, <3>2, <3>3
  <2>3. QED
    BY <2>1, <2>2
<1>4. QED
  BY <1>1, <1>2, <1>3 DEF Told, Published

LEMMA PageStepCover ==
    ASSUME Types, Told, Cover,
           (\E n \in 0 .. 1 : MoveTo(n)) \/ Disconnect \/ RefreshDue \/ Read \/ Show \/ FetchFails
    PROVE  Cover'
<1>1. page \in PageType /\ UNCHANGED stream
  BY DEF Types, MoveTo, Disconnect, RefreshDue, Read, Show, FetchFails
\* A refresh that is not lost has sent a fetch.
<1>2. /\ ~Overtaken(Refreshed) => Refreshed = Sent
      /\ ~Overtaken(FetchInView) => FetchInView = Sent
  BY DEF Told, Overtaken, Refreshed, Refetch, FetchInView
<1>3. ASSUME NEW n \in 0 .. 1, MoveTo(n) PROVE Cover'
  <2>1. CASE page.query = "history" /\ n = 0
    <3>1. page'.fetch = FetchInView /\ page'.missed = Overtaken(FetchInView)
      BY <1>1, <1>3, <2>1 DEF MoveTo, PageType
    <3>2. QED
      BY <1>2, <3>1 DEF Cover, Covered
  <2>2. CASE page.query = "history" /\ n # 0
    <3>1. page'.number = n /\ page'.query = page.query
      BY <1>1, <1>3 DEF MoveTo, PageType
    <3>2. QED
      BY <2>2, <3>1 DEF Cover
  <2>3. CASE page.query # "history"
    <3>1. /\ page.query = "summary" /\ page'.query = page.query /\ page'.stream = page.stream
          /\ page'.fetch = page.fetch /\ page'.due = page.due /\ page'.shown = page.shown
          /\ ~page'.missed => ~page.missed /\ ~page.timer
      BY <1>1, <1>3, <2>3 DEF MoveTo, PageType
    <3>2. QED
      BY <1>1, <2>3, <3>1 DEF Cover, Covered
  <2>4. QED
    BY <2>1, <2>2, <2>3
<1>4. CASE Disconnect
  <2>1. page'.stream = None
    BY <1>1, <1>4 DEF Disconnect, Disconnected, PageType
  <2>2. QED
    BY <2>1 DEF Cover
<1>5. CASE RefreshDue
  <2>1. page'.fetch = Refreshed /\ page'.missed = Overtaken(Refreshed)
    BY <1>1, <1>5 DEF RefreshDue, PageType
  <2>2. QED
    BY <1>2, <2>1 DEF Cover, Covered
<1>6. CASE Read
  <2>1. page'.fetch = [state |-> "read", got |-> stored] /\ page'.due = page.due
    BY <1>1, <1>6 DEF Read, PageType
  <2>2. page'.fetch.state = "read" /\ page'.due \subseteq page'.fetch.got
    BY <2>1 DEF Told
  <2>3. QED
    BY <2>2 DEF Cover, Covered
<1>7. CASE Show
  <2>1. /\ page'.fetch = Idle /\ page'.shown = page.fetch.got /\ page.fetch.state = "read"
        /\ page'.due = page.due /\ page'.stream = page.stream /\ page'.timer = page.timer
        /\ page'.query = page.query /\ page'.number = page.number /\ page'.missed = page.missed
    BY <1>1, <1>7 DEF Show, PageType
  <2>2. QED
    BY <1>1, <2>1 DEF Cover, Covered, Sent, Idle
<1>8. CASE FetchFails
  <2>1. page'.missed
    BY <1>1, <1>8 DEF FetchFails, PageType
  <2>2. QED
    BY <2>1 DEF Cover
<1>9. QED
  BY <1>3, <1>4, <1>5, <1>6, <1>7, <1>8

LEMMA EventStepPage ==
    ASSUME Types, Latest, Queues, Told, Cover, NEW e \in Events, Insert(e) \/ Publish(e)
    PROVE  Told' /\ Cover'
<1>1. /\ page \in PageType /\ stream \in [Streams -> StreamType]
      /\ recording \subseteq stored
      /\ \A j \in Streams : stream[j] \in StreamType /\ stream[j].queue \in Channel
  BY DEF Types, StreamType, Queues
<1>2. CASE Insert(e)
  <2>1. /\ page' = page /\ stream' = stream /\ stored \subseteq stored' /\ Published' = Published
    BY <1>1, <1>2 DEF Insert, Published
  <2>2. QED
    BY <2>1 DEF Told, Cover, Covered
<1>3. CASE Publish(e)
  <2>1. Published' = Published \cup {e} /\ e \notin Published /\ stored' = stored /\ e \in stored
    BY <1>1, <1>3 DEF Publish, Published
  <2>2. e # page.handled
    BY <2>1, NoneAssumption DEF Told
  <2>3. CASE page.stream \notin Subscribers \/ closed
    <3>1. page' = page
      BY <1>3, <2>3 DEF Publish
    <3>2. page.stream # None => stream'[page.stream] = stream[page.stream]
      BY <1>1, <1>3, <2>3 DEF Publish, PageType
    <3>3. QED
      BY <2>1, <3>1, <3>2 DEF Told, Cover, Covered
  <2>4. CASE page.stream \in Subscribers /\ ~closed
    <3> DEFINE k == page.stream
    <3>1. k \in Streams /\ k # None
      BY <2>4, NoneAssumption DEF Subscribers
    <3>2. page' = [page EXCEPT !.due = page.due \cup {e}]
      BY <1>3, <2>4 DEF Publish
    <3>3. /\ page'.due = page.due \cup {e} /\ page'.stream = page.stream
          /\ page'.handled = page.handled /\ page'.fetch = page.fetch
      BY <1>1, <3>2 DEF PageType
    <3>4. stream'[k] = [stream[k] EXCEPT !.queue = Push(stream[k].queue, e)]
      BY <1>3, <2>4, <3>1 DEF Publish
    <3>5. stream'[k].queue = Push(stream[k].queue, e)
      BY <1>1, <3>1, <3>4 DEF StreamType
    <3>6. stream'[k].queue # <<>> /\ Absent(page.handled, stream'[k].queue)
      BY <1>1, <2>2, <3>1, <3>5, PushType, PushAbsent DEF Told
    <3>7. QED
      BY <2>1, <3>1, <3>3, <3>6 DEF Told, Cover, Covered
  <2>5. QED
    BY <2>3, <2>4
<1>4. QED
  BY <1>2, <1>3

LEMMA StreamStepPage ==
    ASSUME Types, Latest, Queues, Told, Cover, NEW k \in Streams,
           Subscribe(k) \/ Unsubscribe(k) \/ Abandon(k) \/ Connect(k) \/ Deliver(k)
    PROVE  Told' /\ Cover'
<1>1. /\ page \in PageType /\ stream \in [Streams -> StreamType] /\ k # None
      /\ \A j \in Streams : /\ stream[j] \in StreamType /\ stream[j].queue \in Channel
                            /\ stream[j].state # "subscribed" => stream[j].queue = <<>>
                            /\ Once(stream[j].queue, Published)
  BY NoneAssumption DEF Types, StreamType, Latest, Queues
<1>2. Published' = Published /\ stored' = stored
  BY DEF Published, Subscribe, Unsubscribe, Abandon, Connect, Deliver
<1>3. \A j \in Streams : j # k => stream'[j] = stream[j]
  BY <1>1 DEF Subscribe, Unsubscribe, Abandon, Connect, Deliver
<1>4. CASE Subscribe(k) \/ Abandon(k)
  <2>1. stream'[k].queue = stream[k].queue /\ page' = page
    BY <1>1, <1>4 DEF Subscribe, Abandon, StreamType
  <2>2. page.stream # None => stream'[page.stream].queue = stream[page.stream].queue
    BY <1>1, <1>3, <2>1 DEF PageType
  <2>3. QED
    BY <1>2, <2>1, <2>2 DEF Told, Cover, Covered
<1>5. CASE Unsubscribe(k)
  <2>1. CASE page.stream = k
    <3>1. /\ page'.stream = None /\ page'.due = {} /\ page'.handled = page.handled
          /\ page'.fetch = page.fetch
      BY <1>1, <1>5, <2>1 DEF Unsubscribe, Disconnected, PageType
    <3>2. QED
      BY <1>2, <3>1 DEF Told, Cover
  <2>2. CASE page.stream # k
    <3>1. page' = page /\ (page.stream # None => stream'[page.stream] = stream[page.stream])
      BY <1>1, <1>3, <1>5, <2>2 DEF Unsubscribe, PageType
    <3>2. QED
      BY <1>2, <3>1 DEF Told, Cover, Covered
  <2>3. QED
    BY <2>1, <2>2
<1>6. CASE Connect(k)
  <2>1. page.stream = None /\ stream[k].queue = <<>> /\ page.due = {}
    BY <1>1, <1>6 DEF Connect, Told
  <2>2. /\ stream'[k].queue = <<>>
        /\ page'.stream = k /\ page'.due = {} /\ page'.handled = page.handled
        /\ page'.fetch = page.fetch
    BY <1>1, <1>6, <2>1 DEF Connect, StreamType, PageType
  <2>3. page'.fetch.state = "read" \/ page'.fetch \in {Idle, Sent}
    BY <2>2 DEF Told
  <2>4. Cover'
    BY <2>2, <2>3 DEF Cover, Covered
  <2>5. Told'
    BY <1>1, <1>2, <2>2, EmptyOnce DEF Told
  <2>6. QED
    BY <2>4, <2>5
<1>7. CASE Deliver(k)
  <2>1. /\ stream[k].queue # <<>> /\ stream[k].queue \in Channel
        /\ stream'[k].queue = Tail(stream[k].queue)
    BY <1>1, <1>7 DEF Deliver, StreamType
  <2>2. CASE page.stream # k
    <3>1. page' = page /\ (page.stream # None => stream'[page.stream] = stream[page.stream])
      BY <1>1, <1>3, <1>7, <2>2 DEF Deliver, PageType
    <3>2. QED
      BY <1>2, <3>1 DEF Told, Cover, Covered
  <2>3. CASE page.stream = k
    <3> DEFINE e == Head(stream[k].queue)
    <3>1. e \in Published /\ Absent(e, Tail(stream[k].queue))
      BY <1>1, <2>1, TailOnce
    <3>2. e # page.handled
      <4>1. 1 \in 1 .. Len(stream[k].queue) /\ stream[k].queue[1] = e
        BY <2>1 DEF Channel
      <4>2. QED
        BY <1>1, <2>3, <4>1 DEF Told, Absent
    <3>3. page' = [page EXCEPT !.handled = e, !.timer = TRUE]
      BY <1>7, <2>3, <3>2 DEF Deliver, Notice
    <3> HIDE DEF e
    <3>4. /\ page'.handled = e /\ page'.timer /\ page'.stream = page.stream
          /\ page'.due = page.due /\ page'.fetch = page.fetch
      BY <1>1, <3>3 DEF PageType
    <3>5. Cover'
      BY <3>4 DEF Cover, Covered
    <3>6. Told'
      BY <1>1, <1>2, <2>1, <2>3, <3>1, <3>4 DEF Told
    <3>7. QED
      BY <3>5, <3>6
  <2>4. QED
    BY <2>2, <2>3
<1>8. QED
  BY <1>4, <1>5, <1>6, <1>7

LEMMA StepPage ==
    Types /\ Latest /\ Queues /\ Told /\ Cover /\ [Next]_vars => Told' /\ Cover'
<1> SUFFICES ASSUME Types, Latest, Queues, Told, Cover, [Next]_vars PROVE Told' /\ Cover'
  OBVIOUS
<1>1. ASSUME NEW e \in Events, Insert(e) \/ Publish(e) PROVE Told' /\ Cover'
  BY <1>1, EventStepPage
<1>2. ASSUME NEW k \in Streams,
             Subscribe(k) \/ Unsubscribe(k) \/ Abandon(k) \/ Connect(k) \/ Deliver(k)
      PROVE  Told' /\ Cover'
  BY <1>2, StreamStepPage
<1>3. CASE (\E n \in 0 .. 1 : MoveTo(n)) \/ Disconnect \/ RefreshDue \/ Read \/ Show \/ FetchFails
  BY <1>3, PageStepTold, PageStepCover
<1>4. CASE Close
  <2>1. page' = page /\ Published' = Published /\ stored' = stored
    BY <1>4 DEF Close, Published
  <2>2. ASSUME NEW j \in Streams PROVE stream'[j].queue = stream[j].queue
    <3>1. stream'[j] = [stream[j] EXCEPT !.closes = ClosedBy(j)] /\ stream[j] \in StreamType
      BY <1>4 DEF Close, Types
    <3>2. QED
      BY <3>1 DEF StreamType
  <2>3. page.stream # None => stream'[page.stream].queue = stream[page.stream].queue
    BY <2>2 DEF Types, PageType
  <2>4. QED
    BY <2>1, <2>3 DEF Told, Cover, Covered
<1>5. CASE UNCHANGED vars
  BY <1>5 DEF vars, Told, Cover, Covered, Published
<1>6. QED
  BY <1>1, <1>2, <1>3, <1>4, <1>5 DEF Next

LEMMA ShownAtRest == Types /\ Told /\ Cover => CatchesUp
<1> SUFFICES ASSUME Types, Told, Cover PROVE CatchesUp
  OBVIOUS
<1>1. ASSUME AtRest, ~page.missed, page.query = "history" => page.number = 0
      PROVE  page.due \subseteq page.shown
  <2>1. CASE page.stream = None
    BY <2>1 DEF Told
  <2>2. CASE page.stream # None
    BY <1>1, <2>2 DEF AtRest, Cover, Covered, Idle, Sent
  <2>3. QED
    BY <2>1, <2>2
<1>2. QED
  BY <1>1 DEF CatchesUp, HistoryCatchesUp, SummaryCatchesUp

\* Once nothing is under way, each query of the page shows every event that was published
\* to the page's stream, also those that a full channel dropped, unless the last refresh
\* was lost: the fetch it waited for had been read before, or it failed.
THEOREM PageCatchesUp == Spec => []CatchesUp
<1>1. Init => Queues /\ Told /\ Cover
  BY InitQueues, InitPage
<1>2. Spec => [](Queues /\ Told /\ Cover)
  BY <1>1, TypesAlways, LatestAlways, StepQueues, StepPage, PTL DEF Spec
<1>3. QED
  BY <1>2, TypesAlways, ShownAtRest, PTL

-----------------------------------------------------------------------------
(* Coming to rest *)

\* What is left to do with n events in the page's channel: an event that is delivered may
\* set the timer, which has the fetch sent.
WorkOf(n, timer, state) ==
    4 * n + (IF timer THEN 3 ELSE 0)
          + (IF state = "sent" THEN 2 ELSE IF state = "read" THEN 1 ELSE 0)

Waiting == IF page.stream = None THEN 0 ELSE Len(stream[page.stream].queue)

Work == WorkOf(Waiting, page.timer, page.fetch.state)

\* The steps that lead the page to rest, and their guards.
PageStep ==
    \/ RefreshDue \/ Read \/ Show
    \/ \E k \in Streams : page.stream = k /\ Deliver(k)

Moves ==
    \/ page.timer \/ page.fetch = Sent \/ page.fetch.state = "read"
    \/ \E k \in Streams : /\ page.stream = k
                          /\ stream[k].state = "subscribed" /\ stream[k].queue # <<>>

WorkIsRest ==
    /\ Work \in 0 .. 4 * Capacity + 5
    /\ Work = 0 <=> AtRest
    /\ Work # 0 => Moves

PublishToPage == page.stream \in Subscribers /\ \E e \in Events : Publish(e)

\* The user turns to a page, or a fetch fails.
Trouble == page'.troubles # page.troubles

WorkEnds ==
    [][/\ PageStep => Work' < Work
       /\ PublishToPage \/ Trouble \/ Work' <= Work]_vars

States == {"idle", "sent", "read"}

LEMMA WorkOfRange ==
    ASSUME NEW n \in Nat, NEW timer \in BOOLEAN, NEW state \in States
    PROVE  /\ WorkOf(n, timer, state) \in Nat
           /\ n <= Capacity => WorkOf(n, timer, state) \in 0 .. 4 * Capacity + 5
           /\ WorkOf(n, timer, state) = 0 <=> n = 0 /\ ~timer /\ state = "idle"
BY CapacityAssumption DEF WorkOf, States

LEMMA WorkOfLess ==
    ASSUME NEW n \in Nat, NEW timer \in BOOLEAN, NEW set \in BOOLEAN,
           NEW state \in States, NEW other \in States
    PROVE  /\ WorkOf(n, set, state) < WorkOf(n + 1, timer, state)
           /\ WorkOf(n, FALSE, other) < WorkOf(n, TRUE, state)
           /\ WorkOf(n, timer, "read") < WorkOf(n, timer, "sent")
           /\ WorkOf(n, timer, "idle") < WorkOf(n, timer, "read")
           /\ WorkOf(n, timer, state) <= WorkOf(n, timer, state)
           /\ WorkOf(0, timer, state) <= WorkOf(n, timer, state)
BY DEF WorkOf, States

\* The parts of what is left to do.
LEMMA WorkParts ==
    ASSUME Types
    PROVE  /\ Waiting \in Nat /\ Waiting <= Capacity
           /\ page.timer \in BOOLEAN /\ page.fetch.state \in States
           /\ \A k \in Streams : stream[k].queue \in Seq(Events)
<1>1. page \in PageType /\ stream \in [Streams -> StreamType]
  BY DEF Types
<1>2. \A k \in Streams : /\ stream[k].queue \in Seq(Events) /\ Len(stream[k].queue) \in Nat
                         /\ Len(stream[k].queue) <= Capacity
  BY <1>1 DEF StreamType, Channel
<1>3. page.timer \in BOOLEAN /\ page.fetch.state \in States /\ page.stream \in Streams \cup {None}
  BY <1>1 DEF PageType, Fetches, States
<1> QED
  BY <1>2, <1>3, CapacityAssumption DEF Waiting

\* What is left to do is bounded, and nothing is left exactly when the page is at rest.
LEMMA WorkMeans == Types /\ Latest /\ Told => WorkIsRest
<1> SUFFICES ASSUME Types, Latest, Told PROVE WorkIsRest
  OBVIOUS
<1>1. Work \in 0 .. 4 * Capacity + 5
  BY WorkParts, WorkOfRange DEF Work
<1>2. Work = 0 <=> Waiting = 0 /\ ~page.timer /\ page.fetch.state = "idle"
  BY WorkParts, WorkOfRange DEF Work
<1>3. page \in PageType /\ page.stream \in Streams \cup {None}
  BY DEF Types, PageType
<1>4. Waiting = 0 <=> (page.stream # None => stream[page.stream].queue = <<>>)
  <2>1. \A q \in Seq(Events) : Len(q) = 0 <=> q = <<>>
    OBVIOUS
  <2> QED
    BY <1>3, <2>1, WorkParts DEF Waiting
<1>5. page.fetch.state = "idle" <=> page.fetch = Idle
  BY <1>3 DEF Told, Idle, Sent
<1>6. page.fetch.state = "sent" => page.fetch = Sent
  BY <1>3 DEF Told, Idle, Sent
<1>7. Work = 0 <=> AtRest
  BY <1>2, <1>4, <1>5 DEF AtRest
<1>8. Work # 0 => Moves
  <2> SUFFICES ASSUME Waiting # 0 PROVE Moves
    BY <1>2, <1>6, WorkParts DEF Moves, States
  <2>1. page.stream \in Streams /\ stream[page.stream].queue # <<>>
    BY <1>3, <1>4
  <2> QED
    BY <2>1 DEF Latest, Moves
<1> QED
  BY <1>1, <1>7, <1>8 DEF WorkIsRest

\* The page's own steps leave less to do.
LEMMA WorkFalls ==
    ASSUME Types, PageStep PROVE Work' < Work
<1>1. page \in PageType /\ stream \in [Streams -> StreamType] /\ page.fetch \in Fetches
  BY DEF Types, PageType
<1>2. CASE RefreshDue
  <2>1. /\ page' = [page EXCEPT !.timer = FALSE, !.number = 0, !.fetch = Refreshed,
                                !.missed = Overtaken(Refreshed)]
        /\ page.timer /\ stream' = stream
    BY <1>2 DEF RefreshDue
  <2>2. Refreshed.state \in States
    BY <1>1, FetchTypes DEF Fetches, States
  <2>3. page'.stream = page.stream /\ page'.timer = FALSE /\ page'.fetch = Refreshed
    BY <1>1, <2>1 DEF PageType
  <2>4. Work' = WorkOf(Waiting, FALSE, Refreshed.state) /\ Work = WorkOf(Waiting, TRUE, page.fetch.state)
    BY <2>1, <2>3 DEF Work, Waiting
  <2> QED
    BY <2>2, <2>4, WorkParts, WorkOfLess
<1>3. CASE Read
  <2>1. page' = [page EXCEPT !.fetch = [state |-> "read", got |-> stored]] /\ stream' = stream
    BY <1>3 DEF Read
  <2>2. page'.stream = page.stream /\ page'.timer = page.timer /\ page'.fetch.state = "read"
    BY <1>1, <2>1 DEF PageType
  <2>3. Work' = WorkOf(Waiting, page.timer, "read") /\ Work = WorkOf(Waiting, page.timer, "sent")
    BY <1>3, <2>1, <2>2 DEF Work, Waiting, Read, Sent
  <2> QED
    BY <2>3, WorkParts, WorkOfLess
<1>4. CASE Show
  <2>1. /\ page' = [page EXCEPT !.shown = page.fetch.got, !.loaded = TRUE, !.fetch = Idle]
        /\ stream' = stream
    BY <1>4 DEF Show
  <2>2. page'.stream = page.stream /\ page'.timer = page.timer /\ page'.fetch.state = "idle"
    BY <1>1, <2>1 DEF PageType, Idle
  <2>3. Work' = WorkOf(Waiting, page.timer, "idle") /\ Work = WorkOf(Waiting, page.timer, "read")
    BY <1>4, <2>1, <2>2 DEF Work, Waiting, Show
  <2> QED
    BY <2>3, WorkParts, WorkOfLess
<1>5. ASSUME NEW k \in Streams, page.stream = k, Deliver(k) PROVE Work' < Work
  <2>1. k # None /\ stream[k].queue \in Seq(Events) /\ stream[k].queue # <<>>
    BY <1>5, NoneAssumption, WorkParts DEF Deliver
  <2>2. stream'[k].queue = Tail(stream[k].queue)
    BY <1>1, <1>5 DEF Deliver, StreamType
  <2>3. Len(stream[k].queue) \in Nat /\ Len(stream'[k].queue) \in Nat
        /\ Len(stream[k].queue) = Len(stream'[k].queue) + 1
    BY <2>1, <2>2
  <2>4. /\ page'.stream = k /\ page'.fetch = page.fetch
        /\ page'.timer \in BOOLEAN
    BY <1>1, <1>5 DEF Deliver, Notice, PageType
  <2>5. /\ Work' = WorkOf(Len(stream'[k].queue), page'.timer, page.fetch.state)
        /\ Work = WorkOf(Len(stream'[k].queue) + 1, page.timer, page.fetch.state)
    BY <1>5, <2>1, <2>3, <2>4 DEF Work, Waiting
  <2> QED
    BY <2>3, <2>4, <2>5, WorkParts, WorkOfLess
<1> QED
  BY <1>2, <1>3, <1>4, <1>5 DEF PageStep

\* Others leave the page more to do only by publishing to its channel, turning to another
\* page of the history, or failing its fetch.
LEMMA WorkKept ==
    ASSUME Types, Latest, [Next]_vars
    PROVE  PublishToPage \/ Trouble \/ Work' <= Work
<1>1. page \in PageType /\ stream \in [Streams -> StreamType]
  BY DEF Types
<1>a. \A j \in Streams : stream[j] \in StreamType
  BY <1>1
<1>b. page.stream \in Streams \cup {None}
  BY <1>1 DEF PageType
<1>2. ASSUME page' = page, page.stream # None => stream'[page.stream].queue = stream[page.stream].queue
      PROVE  Work' <= Work
  <2>1. Work' = Work /\ Work = WorkOf(Waiting, page.timer, page.fetch.state)
    BY <1>2 DEF Work, Waiting
  <2> QED
    BY <2>1, WorkParts, WorkOfLess
<1>3. ASSUME page'.stream = None \/ (page'.stream # None /\ stream'[page'.stream].queue = <<>>),
             page'.timer = page.timer, page'.fetch = page.fetch
      PROVE  Work' <= Work
  <2>1. Work' = WorkOf(0, page.timer, page.fetch.state)
    BY <1>3 DEF Work, Waiting
  <2>2. Work = WorkOf(Waiting, page.timer, page.fetch.state)
    BY DEF Work
  <2> QED
    BY <2>1, <2>2, WorkParts, WorkOfLess
<1>4. ASSUME NEW e \in Events, Insert(e) PROVE Work' <= Work
  BY <1>2, <1>4 DEF Insert
<1>5. ASSUME NEW e \in Events, Publish(e), ~PublishToPage PROVE Work' <= Work
  <2>1. page.stream \notin Subscribers
    BY <1>5 DEF PublishToPage
  <2> QED
    BY <1>2, <1>5, <1>b, <2>1, NoneAssumption DEF Publish
<1>6. ASSUME NEW k \in Streams, Subscribe(k) \/ Abandon(k) PROVE Work' <= Work
  <2>1. \A j \in Streams : stream'[j].queue = stream[j].queue
    BY <1>1, <1>a, <1>6 DEF Subscribe, Abandon, StreamType
  <2> QED
    BY <1>2, <1>6, <1>b, <2>1 DEF Subscribe, Abandon
<1>7. ASSUME NEW k \in Streams, Unsubscribe(k) PROVE Work' <= Work
  <2>1. CASE page.stream = k
    BY <1>1, <1>3, <1>7, <2>1 DEF Unsubscribe, Disconnected, PageType
  <2>2. CASE page.stream # k
    BY <1>1, <1>2, <1>7, <1>b, <2>2 DEF Unsubscribe
  <2> QED
    BY <2>1, <2>2
<1>8. ASSUME NEW k \in Streams, Connect(k) PROVE Work' <= Work
  <2>1. page'.stream = k /\ page'.timer = page.timer /\ page'.fetch = page.fetch
    BY <1>1, <1>8 DEF Connect, PageType
  <2>2. stream'[k].queue = stream[k].queue
    BY <1>1, <1>a, <1>8 DEF Connect, StreamType
  <2>3. stream[k].queue = <<>>
    BY <1>8 DEF Connect, Latest
  <2> QED
    BY <1>3, <2>1, <2>2, <2>3
<1>9. ASSUME NEW k \in Streams, Deliver(k) PROVE Work' <= Work
  <2>1. CASE page.stream = k
    <3>1. Work' < Work
      BY <1>9, <2>1, WorkFalls DEF PageStep
    <3>2. Work \in Nat
      BY WorkParts, WorkOfRange DEF Work
    <3>3. Work' \in Nat
      <4>1. page' \in PageType /\ stream' \in [Streams -> StreamType]
        BY <1>9, StreamStepTypes DEF Types
      <4>2. \A j \in Streams : Len(stream'[j].queue) \in Nat
        BY <4>1 DEF StreamType, Channel
      <4>3. page'.timer \in BOOLEAN /\ page'.fetch.state \in States /\ page'.stream \in Streams \cup {None}
        BY <4>1 DEF PageType, Fetches, States
      <4> QED
        BY <4>2, <4>3, WorkOfRange DEF Work, Waiting
    <3> QED
      BY <3>1, <3>2, <3>3
  <2>2. CASE page.stream # k
    BY <1>1, <1>2, <1>9, <1>b, <2>2 DEF Deliver
  <2> QED
    BY <2>1, <2>2
<1>10. ASSUME Close PROVE Work' <= Work
  <2>1. \A j \in Streams : stream'[j].queue = stream[j].queue
    BY <1>1, <1>a, <1>10 DEF Close, StreamType
  <2> QED
    BY <1>2, <1>10, <1>b, <2>1 DEF Close
<1>11. ASSUME Disconnect PROVE Work' <= Work
  BY <1>1, <1>3, <1>11 DEF Disconnect, Disconnected, PageType
<1>12. CASE RefreshDue \/ Read \/ Show
  <2>1. Work' < Work
    BY <1>12, WorkFalls DEF PageStep
  <2>2. Work \in Nat
    BY WorkParts, WorkOfRange DEF Work
  <2>3. Work' \in Nat
    <3>1. page' \in PageType /\ stream' \in [Streams -> StreamType]
      BY <1>12, PageStepTypes DEF Types
    <3>2. \A j \in Streams : Len(stream'[j].queue) \in Nat
      BY <3>1 DEF StreamType, Channel
    <3>3. page'.timer \in BOOLEAN /\ page'.fetch.state \in States /\ page'.stream \in Streams \cup {None}
      BY <3>1 DEF PageType, Fetches, States
    <3> QED
      BY <3>2, <3>3, WorkOfRange DEF Work, Waiting
  <2> QED
    BY <2>1, <2>2, <2>3
<1>13. ASSUME (\E n \in 0 .. 1 : MoveTo(n)) \/ FetchFails PROVE Trouble
  <2>1. page'.troubles = page.troubles + 1 /\ page.troubles \in Nat
    <3>1. page.troubles \in Nat
      BY <1>1, BoundAssumption DEF PageType
    <3>2. "troubles" \in DOMAIN page
      BY <1>1 DEF PageType
    <3>3. CASE \E n \in 0 .. 1 : MoveTo(n)
      <4>1. PICK n, f, m :
              page' = [page EXCEPT !.troubles = @ + 1, !.number = n, !.timer = FALSE,
                                   !.fetch = f, !.missed = m]
        BY <3>3 DEF MoveTo
      <4> QED
        BY <3>1, <3>2, <4>1
    <3>4. CASE FetchFails
      <4>1. page' = [page EXCEPT !.troubles = @ + 1, !.fetch = Idle, !.missed = TRUE]
        BY <3>4 DEF FetchFails
      <4> QED
        BY <3>1, <3>2, <4>1
    <3> QED
      BY <1>13, <3>3, <3>4
  <2> QED
    BY <2>1 DEF Trouble
<1>14. CASE UNCHANGED vars
  BY <1>2, <1>14 DEF vars
<1> QED
  BY <1>4, <1>5, <1>6, <1>7, <1>8, <1>9, <1>10, <1>11, <1>12, <1>13, <1>14 DEF Next

\* useSecurityMonitoringPage: from any state the page needs at most 4 * Capacity + 5 deliveries,
\* refreshes, reads and answers to rest, one of which can be taken while it does not rest; and
\* only an event published to it, the user or a failed fetch gives it more to do.
THEOREM PageComesToRest == Spec => []WorkIsRest /\ WorkEnds
<1>1. Init => Queues /\ Told /\ Cover
  BY InitQueues, InitPage
<1>2. Spec => [](Queues /\ Told /\ Cover)
  BY <1>1, TypesAlways, LatestAlways, StepQueues, StepPage, PTL DEF Spec
<1>3. Types /\ Latest /\ [Next]_vars =>
        [/\ PageStep => Work' < Work
         /\ PublishToPage \/ Trouble \/ Work' <= Work]_vars
  BY WorkFalls, WorkKept
<1> QED
  BY <1>2, <1>3, TypesAlways, LatestAlways, WorkMeans, PTL DEF Spec, WorkEnds
=============================================================================
