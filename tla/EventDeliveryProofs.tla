------------------------ MODULE EventDeliveryProofs ------------------------
(***************************************************************************)
(* What TLAPS proves of the delivery of events, for every set of desktops, *)
(* every size of claims, pages, queues and channels and every bound: its   *)
(* types, and, as long as no desktop that asks for a replay is further     *)
(* behind than a page, that an acknowledged event has reached every live   *)
(* connection and that the delivery implements the log (EventLog): every   *)
(* desktop applies the events in order, without gaps and without repeats,  *)
(* over lost connections and crashes of the server.                        *)
(***************************************************************************)
EXTENDS EventDelivery, SequenceTheorems, FiniteSetTheorems,
        WellFoundedInduction, TLAPS

-----------------------------------------------------------------------------
(***************************************************************************)
(* The first events of a set                                               *)
(***************************************************************************)

\* A set of events has a first one.
LEMMA FirstIsLeast ==
  ASSUME NEW S, S \subseteq Nat, S # {}
  PROVE  /\ First(S) \in S
         /\ \A s \in S : First(S) <= s
<1>1. PICK d \in S : \A e \in S : ~(<<e, d>> \in OpToRel(<, Nat))
  BY NatLessThanWellFounded, WFMin
<1>2. ASSUME NEW e \in S PROVE d <= e
  <2>1. ~(e < d)
    BY <1>1 DEF OpToRel
  <2>2. QED
    BY <2>1
<1>3. QED
  BY <1>1, <1>2 DEF First

\* Of the events after a given one, up to the last, the first n are all of them
\* when there are no more than n.
LEMMA ShortPageIsWhole ==
  ASSUME NEW a \in Nat, NEW b \in Nat, NEW n \in Nat, b - a <= n
  PROVE  FirstOnes((a + 1)..b, n) = (a + 1)..b
<1> DEFINE S == (a + 1)..b
<1>1. ASSUME NEW s \in S PROVE Cardinality({u \in S : u < s}) < n
  <2>1. {u \in S : u < s} = (a + 1)..(s - 1)
    OBVIOUS
  <2>2. Cardinality((a + 1)..(s - 1)) = s - 1 - a
    BY FS_Interval
  <2>3. s - 1 - a < n
    OBVIOUS
  <2>4. QED
    BY <2>1, <2>2, <2>3
<1>2. QED
  BY <1>1 DEF FirstOnes

\* Whoever is before one of the first n of a finite set is one of them.
LEMMA FirstOnesComeFirst ==
  ASSUME NEW S, S \subseteq Nat, IsFiniteSet(S), NEW n \in Nat,
         NEW s \in FirstOnes(S, n), NEW u \in S, u < s
  PROVE  u \in FirstOnes(S, n)
<1>1. {v \in S : v < u} \subseteq {v \in S : v < s}
  <2>1. s \in S /\ \A v \in S : v < u => v < s
    BY DEF FirstOnes
  <2>2. QED
    BY <2>1
<1>2. IsFiniteSet({v \in S : v < s})
  BY FS_Subset
<1>3. /\ Cardinality({v \in S : v < u}) \in Nat
      /\ Cardinality({v \in S : v < s}) \in Nat
      /\ Cardinality({v \in S : v < u}) <= Cardinality({v \in S : v < s})
  BY <1>1, <1>2, FS_Subset, FS_CardinalityType
<1>4. QED
  BY <1>3 DEF FirstOnes

-----------------------------------------------------------------------------
(***************************************************************************)
(* The inductive invariant                                                 *)
(***************************************************************************)

\* The rows that the dispatcher has in hand are claimed and not acknowledged, an
\* acknowledged row was claimed, and no row is claimed before an earlier one.
ClaimsInOrder ==
  /\ \A s \in batch : claimedIn[s] # None /\ s \notin delivered
  /\ \A s \in delivered : claimedIn[s] # None
  /\ \A s, u \in Rows : u < s /\ claimedIn[s] # None => claimedIn[u] # None
  /\ putting # {} => batch # {}
  /\ serverRun <= failures

\* What a connection holds is in the table.
WithinLog(conn) ==
  /\ conn.sent <= Len(claimedIn)
  /\ conn.page \subseteq Rows
  /\ \A i \in DOMAIN conn.queue : conn.queue[i] \in Rows
  /\ \A i \in DOMAIN conn.wire : conn.wire[i] \in Rows

\* And a handler that may be sending has its queue in the broker.
OnTheWay ==
  \A k \in DOMAIN conns :
    /\ WithinLog(conns[k])
    /\ conns[k].phase \in {"subscribed", "sending"} => k \in subscribers

\* A client is in no other's connection and has nothing that is not in the table.
ClientsWithinLog ==
  /\ \A c \in Clients :
       /\ lastSequence[c] <= Len(claimedIn)
       /\ \A i \in DOMAIN channel[c] : channel[c][i] \in Rows
       /\ link[c] \in DOMAIN conns \cup {None}
  /\ \A c, d \in Clients : link[c] # None /\ link[c] = link[d] => c = d

\* The part that does not depend on the size of a page.
DeliveryBase ==
  /\ DeliveryTypeOK
  /\ ClaimsInOrder
  /\ OnTheWay
  /\ ClientsWithinLog

\* A handler has event s: sent, in the rest of its page, or in its queue.
Holds(conn, s) ==
  \/ s <= conn.sent
  \/ s \in conn.page
  \/ \E i \in DOMAIN conn.queue : conn.queue[i] = s

\* The dispatcher has still to put event s to connection k.
StillToPut(k, s) ==
  \/ claimedIn[s] = None
  \/ s \in batch /\ (s # First(batch) \/ k \in putting)

\* A handler that sends has every event, or will be given it.
HandlersMissNothing ==
  \A k \in DOMAIN conns : conns[k].phase = "sending" =>
    \A s \in Rows : Holds(conns[k], s) \/ StillToPut(k, s)

\* A handler gets the events in order: the page goes on from what is sent, and
\* before each event in the queue comes the one before it.
SendsInOrder(conn) ==
  /\ \A s \in conn.page :
       /\ s > conn.sent
       /\ \A u \in (conn.sent + 1)..s : u \in conn.page
  /\ \A i \in DOMAIN conn.queue :
       LET u == conn.queue[i] - 1 IN
         \/ u <= conn.sent
         \/ u \in conn.page
         \/ \E j \in 1..(i - 1) : conn.queue[j] = u

HandlersSendInOrder ==
  \A k \in DOMAIN conns : conns[k].phase = "sending" => SendsInOrder(conns[k])

\* A client has event s: consumed, or in its channel.
AtClient(last, chan, s) ==
  \/ s <= last
  \/ \E i \in DOMAIN chan : chan[i] = s

\* Before each event in the channel comes the one before it.
ChannelInOrder(last, chan) ==
  \A i \in DOMAIN chan :
    chan[i] - 1 <= last \/ \E j \in 1..(i - 1) : chan[j] = chan[i] - 1

\* Before each event in the socket, too; and what is sent is at the client or on
\* its way.
WireInOrder(last, chan, conn) ==
  /\ \A i \in DOMAIN conn.wire :
       \/ AtClient(last, chan, conn.wire[i] - 1)
       \/ \E j \in 1..(i - 1) : conn.wire[j] = conn.wire[i] - 1
  /\ \/ AtClient(last, chan, conn.sent)
     \/ \E j \in DOMAIN conn.wire : conn.wire[j] = conn.sent

ClientsReceiveInOrder ==
  \A c \in Clients :
    /\ ChannelInOrder(lastSequence[c], channel[c])
    /\ link[c] # None => WireInOrder(lastSequence[c], channel[c], conns[link[c]])

DeliveryInv ==
  /\ DeliveryBase
  /\ HandlersMissNothing
  /\ HandlersSendInOrder
  /\ ClientsReceiveInOrder

\* No client that asks for a replay is further behind than a page.
NoneBehindAPage ==
  \A k \in DOMAIN conns :
    conns[k].phase = "subscribed" => Len(claimedIn) - conns[k].sent <= PageSize

-----------------------------------------------------------------------------
(***************************************************************************)
(* What the steps do to a connection                                       *)
(***************************************************************************)

\* Rows and connections are numbered from 1; None is no number of either.
LEMMA DeliveryTypes ==
  ASSUME DeliveryTypeOK
  PROVE  /\ Len(claimedIn) \in Nat /\ Rows = 1..Len(claimedIn)
         /\ Rows \subseteq Events /\ Len(claimedIn) <= MaxEvents
         /\ Len(conns) \in Nat /\ DOMAIN conns = 1..Len(conns)
         /\ MaxConns \in Nat
         /\ DOMAIN conns \subseteq ConnIds /\ None \notin ConnIds
         /\ \A k \in DOMAIN conns : conns[k] \in Connections
         /\ batch \subseteq Nat
<1>1. Len(claimedIn) \in Nat /\ Rows = 1..Len(claimedIn)
  BY LenProperties DEF DeliveryTypeOK, Rows
<1>2. Len(conns) \in Nat /\ DOMAIN conns = 1..Len(conns)
  BY LenProperties DEF DeliveryTypeOK
<1>3. MaxConns \in Nat
  <2>1. Cardinality(Clients) \in Nat
    BY DeliveryAssumption, FS_CardinalityType
  <2>2. QED
    BY <2>1, DeliveryAssumption DEF MaxConns
<1>4. \A k \in DOMAIN conns : conns[k] \in Connections
  BY DEF DeliveryTypeOK
<1>5. DOMAIN conns \subseteq ConnIds /\ None \notin ConnIds
  BY <1>2, <1>3, DeliveryAssumption DEF DeliveryTypeOK, ConnIds
<1>6. Rows \subseteq Events /\ batch \subseteq Nat /\ Len(claimedIn) <= MaxEvents
  BY <1>1, DeliveryAssumption DEF DeliveryTypeOK, Events
<1>7. QED
  BY <1>1, <1>2, <1>3, <1>4, <1>5, <1>6

\* A step changes no connection but k.
OnlyConn(k) ==
  /\ conns' \in Seq(Connections)
  /\ Len(conns') = Len(conns) /\ DOMAIN conns' = DOMAIN conns
  /\ conns'[k] \in Connections
  /\ \A j \in DOMAIN conns : j # k => conns'[j] = conns[j]

\* It does if it stores a connection at k.
LEMMA OneConnChanges ==
  ASSUME DeliveryTypeOK, NEW k \in DOMAIN conns, NEW row \in Connections,
         conns' = [conns EXCEPT ![k] = row]
  PROVE  OnlyConn(k) /\ conns'[k] = row
<1>1. DOMAIN conns' = DOMAIN conns /\ conns'[k] = row
      /\ \A j \in DOMAIN conns : j # k => conns'[j] = conns[j]
  OBVIOUS
<1>2. conns \in Seq(Connections) /\ k \in 1..Len(conns)
  BY DeliveryTypes DEF DeliveryTypeOK
<1>3. conns' \in Seq(Connections) /\ Len(conns') = Len(conns)
  BY <1>2, ExceptSeq
<1>4. QED
  BY <1>1, <1>3 DEF OnlyConn

\* The parts of connection k that a step leaves alone.
SameAt(k, fields) == \A f \in fields : conns'[k][f] = conns[k][f]

\* The dispatcher appends the first event of its batch to a queue.
LEMMA PutRow ==
  ASSUME DeliveryBase, NEW k \in DOMAIN conns, Put(k)
  PROVE  /\ OnlyConn(k) /\ SameAt(k, {"phase", "sent", "page", "wire"})
         /\ First(batch) \in batch /\ \A s \in batch : First(batch) <= s
         /\ conns'[k].queue = Append(conns[k].queue, First(batch))
<1> DEFINE s == First(batch)
           row == [conns[k] EXCEPT !.queue = Append(@, s)]
<1>1. s \in batch /\ \A u \in batch : s <= u
  <2>1. batch # {} /\ batch \subseteq Nat
    BY DeliveryTypes DEF Put, DeliveryBase, ClaimsInOrder
  <2>2. QED
    BY <2>1, FirstIsLeast
<1>2. s \in Events /\ conns[k] \in Connections
  BY <1>1, DeliveryTypes DEF DeliveryBase, DeliveryTypeOK
<1>3. conns' = [conns EXCEPT ![k] = row]
  BY DEF Put
<1> HIDE DEF s
<1>4. /\ row \in Connections
      /\ row.queue = Append(conns[k].queue, s)
      /\ row.phase = conns[k].phase /\ row.sent = conns[k].sent
      /\ row.page = conns[k].page /\ row.wire = conns[k].wire
  BY <1>2, AppendProperties DEF Connections
<1> HIDE DEF row
<1>5. OnlyConn(k) /\ conns'[k] = row
  BY <1>3, <1>4, OneConnChanges DEF DeliveryBase
<1>6. QED
  BY <1>1, <1>4, <1>5 DEF s, SameAt

\* The handler registers its queue.
LEMMA SubscribeRow ==
  ASSUME DeliveryTypeOK, NEW k \in DOMAIN conns, Subscribe(k)
  PROVE  /\ OnlyConn(k) /\ SameAt(k, {"sent", "page", "queue", "wire"})
         /\ conns'[k].phase = "subscribed"
<1> DEFINE row == [conns[k] EXCEPT !.phase = "subscribed"]
<1>1. conns[k] \in Connections
  BY DeliveryTypes
<1>2. conns' = [conns EXCEPT ![k] = row]
  BY DEF Subscribe
<1>3. /\ row \in Connections /\ row.phase = "subscribed"
      /\ row.sent = conns[k].sent /\ row.page = conns[k].page
      /\ row.queue = conns[k].queue /\ row.wire = conns[k].wire
  BY <1>1 DEF Connections
<1> HIDE DEF row
<1>4. OnlyConn(k) /\ conns'[k] = row
  BY <1>2, <1>3, OneConnChanges
<1>5. QED
  BY <1>3, <1>4 DEF SameAt

\* The handler takes its page.
LEMMA LoadRow ==
  ASSUME DeliveryTypeOK, NEW k \in DOMAIN conns, LoadPage(k)
  PROVE  /\ OnlyConn(k) /\ SameAt(k, {"sent", "queue", "wire"})
         /\ conns[k].phase = "subscribed" /\ conns'[k].phase = "sending"
         /\ conns'[k].page = FirstOnes({s \in Rows : s > conns[k].sent}, PageSize)
<1> DEFINE page == FirstOnes({s \in Rows : s > conns[k].sent}, PageSize)
           row == [conns[k] EXCEPT !.phase = "sending", !.page = page]
<1>1. conns[k] \in Connections
  BY DeliveryTypes
<1>2. conns' = [conns EXCEPT ![k] = row]
  BY DEF LoadPage
<1>3. page \subseteq Events
  BY DeliveryTypes DEF FirstOnes
<1> HIDE DEF page
<1>4. /\ row \in Connections /\ row.phase = "sending" /\ row.page = page
      /\ row.sent = conns[k].sent
      /\ row.queue = conns[k].queue /\ row.wire = conns[k].wire
  BY <1>1, <1>3 DEF Connections
<1> HIDE DEF row
<1>5. OnlyConn(k) /\ conns'[k] = row
  BY <1>2, <1>4, OneConnChanges
<1>6. QED
  BY <1>4, <1>5 DEF SameAt, LoadPage, page

\* The handler sends an event of the page.
LEMMA SendReplayRow ==
  ASSUME DeliveryTypeOK, NEW k \in DOMAIN conns, SendReplay(k)
  PROVE  /\ OnlyConn(k) /\ SameAt(k, {"phase", "queue"})
         /\ conns'[k].sent \in conns[k].page
         /\ \A s \in conns[k].page : conns'[k].sent <= s
         /\ conns'[k].page = conns[k].page \ {conns'[k].sent}
         /\ conns'[k].wire = IF Linked(k) THEN Append(conns[k].wire, conns'[k].sent)
                                          ELSE conns[k].wire
<1> DEFINE s == First(conns[k].page)
           wire == IF Linked(k) THEN Append(conns[k].wire, s) ELSE conns[k].wire
           row == [conns[k] EXCEPT !.page = @ \ {s}, !.sent = s, !.wire = wire]
<1>1. conns[k] \in Connections
  BY DeliveryTypes
<1>2. s \in conns[k].page /\ \A u \in conns[k].page : s <= u
  <2>1. conns[k].page # {} /\ conns[k].page \subseteq Nat
    BY <1>1, DeliveryAssumption DEF SendReplay, Connections, Events
  <2>2. QED
    BY <2>1, FirstIsLeast
<1>3. conns' = [conns EXCEPT ![k] = row]
  BY <1>1 DEF SendReplay, Sent, Linked, Connections
<1>4. s \in Events /\ s \in 0..MaxEvents
  BY <1>1, <1>2, DeliveryAssumption DEF Connections, Events
<1> HIDE DEF s
<1>5. wire \in Seq(Events)
  BY <1>1, <1>4, AppendProperties DEF Connections
<1> HIDE DEF wire
<1>6. /\ row \in Connections /\ row.sent = s
      /\ row.page = conns[k].page \ {s} /\ row.wire = wire
      /\ row.phase = conns[k].phase /\ row.queue = conns[k].queue
  BY <1>1, <1>4, <1>5 DEF Connections
<1> HIDE DEF row
<1>7. OnlyConn(k) /\ conns'[k] = row
  BY <1>3, <1>6, OneConnChanges
<1>8. QED
  BY <1>2, <1>6, <1>7 DEF SameAt, wire

\* The handler takes an event out of its queue, and sends it unless it is sent
\* already.
LEMMA SendLiveRow ==
  ASSUME DeliveryTypeOK, NEW k \in DOMAIN conns, SendLive(k)
  PROVE  LET s == Head(conns[k].queue) IN
         /\ OnlyConn(k) /\ SameAt(k, {"phase", "page"})
         /\ conns[k].page = {} /\ conns[k].queue # <<>>
         /\ conns'[k].queue = Tail(conns[k].queue)
         /\ \/ s <= conns[k].sent /\ SameAt(k, {"sent", "wire"})
            \/ /\ ~(s <= conns[k].sent)
               /\ conns'[k].sent = s
               /\ conns'[k].wire = IF Linked(k) THEN Append(conns[k].wire, s)
                                                ELSE conns[k].wire
<1> DEFINE s == Head(conns[k].queue)
           rest == Tail(conns[k].queue)
           wire == IF Linked(k) THEN Append(conns[k].wire, s) ELSE conns[k].wire
           old == [conns[k] EXCEPT !.queue = rest]
           new == [conns[k] EXCEPT !.queue = rest, !.sent = s, !.wire = wire]
<1>1. conns[k] \in Connections /\ conns[k].queue # <<>>
  BY DeliveryTypes DEF SendLive
<1>2. s \in Events /\ s \in 0..MaxEvents /\ rest \in Seq(Events)
  BY <1>1, HeadTailProperties, DeliveryAssumption DEF Connections, Events
<1>3. conns' = [conns EXCEPT ![k] = IF s <= conns[k].sent THEN old ELSE new]
  BY <1>1 DEF SendLive, Sent, Linked, Connections
<1>4. conns[k].page = {}
  BY DEF SendLive
<1> HIDE DEF s, rest
<1>5. wire \in Seq(Events)
  BY <1>1, <1>2, AppendProperties DEF Connections
<1> HIDE DEF wire
<1>6. /\ old \in Connections /\ old.queue = rest
      /\ old.phase = conns[k].phase /\ old.page = conns[k].page
      /\ old.sent = conns[k].sent /\ old.wire = conns[k].wire
  BY <1>1, <1>2 DEF Connections
<1>7. /\ new \in Connections /\ new.queue = rest
      /\ new.phase = conns[k].phase /\ new.page = conns[k].page
      /\ new.sent = s /\ new.wire = wire
  BY <1>1, <1>2, <1>5 DEF Connections
<1> HIDE DEF old, new
<1>8. CASE s <= conns[k].sent
  <2>1. OnlyConn(k) /\ conns'[k] = old
    BY <1>3, <1>6, <1>8, OneConnChanges
  <2>2. QED
    BY <1>1, <1>4, <1>6, <1>8, <2>1 DEF SameAt, s, rest
<1>9. CASE ~(s <= conns[k].sent)
  <2>1. OnlyConn(k) /\ conns'[k] = new
    BY <1>3, <1>7, <1>9, OneConnChanges
  <2>2. QED
    BY <1>1, <1>4, <1>7, <1>9, <2>1 DEF SameAt, s, rest, wire
<1>10. QED
  BY <1>8, <1>9

\* The handler ends; what it has sent stays in the socket.
LEMMA EndsRow ==
  ASSUME DeliveryTypeOK, NEW k \in DOMAIN conns, HandlerEnds(k)
  PROVE  /\ OnlyConn(k) /\ SameAt(k, {"sent", "wire"})
         /\ conns'[k].phase = "closed" /\ conns'[k].page = {}
         /\ conns'[k].queue \in {conns[k].queue, <<>>}
<1> DEFINE queue == IF conns[k].phase = "sending" /\ k \notin putting
                      THEN <<>> ELSE conns[k].queue
           row == [conns[k] EXCEPT !.phase = "closed", !.page = {}, !.queue = queue]
<1>1. conns[k] \in Connections
  BY DeliveryTypes
<1>2. conns' = [conns EXCEPT ![k] = row]
  BY DEF HandlerEnds
<1>3. queue \in Seq(Events) /\ queue \in {conns[k].queue, <<>>}
  BY <1>1, EmptySeq DEF Connections
<1> HIDE DEF queue
<1>4. /\ row \in Connections /\ row.phase = "closed" /\ row.page = {}
      /\ row.queue = queue
      /\ row.sent = conns[k].sent /\ row.wire = conns[k].wire
  BY <1>1, <1>3 DEF Connections
<1> HIDE DEF row
<1>5. OnlyConn(k) /\ conns'[k] = row
  BY <1>2, <1>4, OneConnChanges
<1>6. QED
  BY <1>3, <1>4, <1>5 DEF SameAt

\* A client takes an event out of the socket, or leaves its connection.
LEMMA WireRow ==
  ASSUME DeliveryTypeOK, NEW k \in DOMAIN conns, NEW wire \in Seq(Events),
         conns' = [conns EXCEPT ![k].wire = wire]
  PROVE  /\ OnlyConn(k) /\ SameAt(k, {"phase", "sent", "page", "queue"})
         /\ conns'[k].wire = wire
<1> DEFINE row == [conns[k] EXCEPT !.wire = wire]
<1>1. conns[k] \in Connections
  BY DeliveryTypes
<1>2. conns' = [conns EXCEPT ![k] = row]
  OBVIOUS
<1>3. /\ row \in Connections /\ row.wire = wire
      /\ row.phase = conns[k].phase /\ row.page = conns[k].page
      /\ row.sent = conns[k].sent /\ row.queue = conns[k].queue
  BY <1>1 DEF Connections
<1> HIDE DEF row
<1>4. OnlyConn(k) /\ conns'[k] = row
  BY <1>2, <1>3, OneConnChanges
<1>5. QED
  BY <1>3, <1>4 DEF SameAt

\* The event that a client receives goes into its channel, unless it is consumed.
LEMMA ReceiveRow ==
  ASSUME DeliveryBase, NEW c \in Clients, Receive(c)
  PROVE  LET k == link[c]
             s == Head(conns[k].wire) IN
         /\ k \in DOMAIN conns /\ conns[k].wire # <<>> /\ s \in Rows
         /\ OnlyConn(k) /\ SameAt(k, {"phase", "sent", "page", "queue"})
         /\ conns'[k].wire = Tail(conns[k].wire)
         /\ \/ s <= lastSequence[c] /\ channel' = channel
            \/ /\ ~(s <= lastSequence[c])
               /\ channel' = [channel EXCEPT ![c] = Append(@, s)]
<1> DEFINE k == link[c]
           wire == Tail(conns[k].wire)
           s == Head(conns[k].wire)
<1>1. k \in DOMAIN conns /\ conns[k].wire # <<>>
  BY DEF Receive, DeliveryBase, ClientsWithinLog
<1>2. conns[k].wire \in Seq(Events)
  BY <1>1, DeliveryTypes DEF Connections, DeliveryBase
<1>3. wire \in Seq(Events) /\ s = conns[k].wire[1] /\ 1 \in DOMAIN conns[k].wire
  BY <1>1, <1>2, HeadTailProperties, LenProperties, EmptySeq
<1>4. s \in Rows
  BY <1>1, <1>3 DEF DeliveryBase, OnTheWay, WithinLog
<1>5. conns' = [conns EXCEPT ![k].wire = wire]
  BY DEF Receive
<1>6. \/ s <= lastSequence[c] /\ channel' = channel
      \/ /\ ~(s <= lastSequence[c])
         /\ channel' = [channel EXCEPT ![c] = Append(@, s)]
  BY DEF Receive
<1> HIDE DEF k, wire, s
<1>7. /\ OnlyConn(k) /\ SameAt(k, {"phase", "sent", "page", "queue"})
      /\ conns'[k].wire = wire
  BY <1>1, <1>3, <1>5, WireRow DEF DeliveryBase
<1>8. QED
  BY <1>1, <1>4, <1>6, <1>7 DEF k, wire, s

\* A client leaves its connection.
LEMMA UnlinkRow ==
  ASSUME DeliveryBase, NEW c \in Clients, Unlink(c)
  PROVE  LET k == link[c] IN
         /\ k \in DOMAIN conns
         /\ OnlyConn(k) /\ SameAt(k, {"phase", "sent", "page", "queue"})
         /\ conns'[k].wire = <<>>
<1>1. link[c] \in DOMAIN conns
  BY DEF Unlink, DeliveryBase, ClientsWithinLog
<1>2. conns' = [conns EXCEPT ![link[c]].wire = <<>>] /\ <<>> \in Seq(Events)
  BY EmptySeq DEF Unlink
<1>3. QED
  BY <1>1, <1>2, WireRow DEF DeliveryBase

\* A client opens a connection and asks for what comes after the last event.
LEMMA ConnectRow ==
  ASSUME DeliveryTypeOK, NEW c \in Clients, Connect(c)
  PROVE  LET k == Len(conns) + 1 IN
         /\ conns' \in Seq(Connections) /\ Len(conns') = k /\ k \in ConnIds
         /\ DOMAIN conns' = 1..k /\ k \notin DOMAIN conns
         /\ \A j \in DOMAIN conns : conns'[j] = conns[j]
         /\ conns'[k] = [ phase |-> "accepted", sent |-> lastSequence[c],
                          page |-> {}, queue |-> <<>>, wire |-> <<>> ]
<1> DEFINE k == Len(conns) + 1
           row == [ phase |-> "accepted", sent |-> lastSequence[c],
                    page |-> {}, queue |-> <<>>, wire |-> <<>> ]
<1>1. row \in Connections
  BY EmptySeq DEF Connections, DeliveryTypeOK
<1>2. conns' = Append(conns, row) /\ Len(conns) < MaxConns
  BY DEF Connect
<1>3. /\ conns \in Seq(Connections) /\ Len(conns) \in Nat
      /\ DOMAIN conns = 1..Len(conns) /\ MaxConns \in Nat
  BY DeliveryTypes DEF DeliveryTypeOK
<1> HIDE DEF row
<1>4. /\ conns' \in Seq(Connections) /\ Len(conns') = k
      /\ \A j \in 1..Len(conns) : conns'[j] = conns[j]
      /\ conns'[k] = row
  BY <1>1, <1>2, <1>3, AppendProperties
<1>5. DOMAIN conns' = 1..k
  BY <1>4, LenProperties
<1>6. QED
  BY <1>2, <1>3, <1>4, <1>5 DEF ConnIds, row

\* The server starts again: nothing is sent, paged or queued any more.
LEMMA RestartRows ==
  ASSUME DeliveryTypeOK, Restart
  PROVE  /\ conns' \in Seq(Connections) /\ Len(conns') = Len(conns)
         /\ DOMAIN conns' = DOMAIN conns
         /\ \A k \in DOMAIN conns :
              /\ SameAt(k, {"sent", "wire"})
              /\ conns'[k].phase = "closed" /\ conns'[k].page = {}
              /\ conns'[k].queue = <<>>
<1> DEFINE e(k) == [conns[k] EXCEPT !.phase = "closed", !.page = {}, !.queue = <<>>]
           n == Len(conns)
<1>1. n \in Nat /\ DOMAIN conns = 1..n
  BY DeliveryTypes
<1>2. ASSUME NEW k \in 1..n
      PROVE  /\ e(k) \in Connections
             /\ e(k).phase = "closed" /\ e(k).page = {} /\ e(k).queue = <<>>
             /\ e(k).sent = conns[k].sent /\ e(k).wire = conns[k].wire
  <2>1. conns[k] \in Connections /\ <<>> \in Seq(Events)
    BY <1>1, DeliveryTypes, EmptySeq
  <2>2. QED
    BY <2>1 DEF Connections
<1>3. conns' = [k \in 1..n |-> e(k)]
  BY <1>1 DEF Restart
<1> HIDE DEF e, n
<1>4. conns' \in Seq(Connections)
  BY <1>1, <1>2, <1>3, IsASeq
<1>5. DOMAIN conns' = 1..n /\ Len(conns') = n
  <2>1. DOMAIN conns' = 1..n
    BY <1>3
  <2>2. Len(conns') \in Nat /\ DOMAIN conns' = 1..Len(conns')
    BY <1>4, LenProperties
  <2>3. QED
    BY <1>1, <2>1, <2>2
<1>6. QED
  BY <1>1, <1>2, <1>3, <1>4, <1>5 DEF SameAt, n

-----------------------------------------------------------------------------
(***************************************************************************)
(* The table and the dispatcher                                            *)
(***************************************************************************)

TableInv ==
  /\ claimedIn \in Seq(0..MaxFailures \cup {None})
  /\ Len(claimedIn) <= MaxEvents
  /\ delivered \subseteq Rows
  /\ serverRun \in 0..MaxFailures
  /\ staleBefore \in 0..serverRun
  /\ batch \subseteq Rows
  /\ failures \in 0..MaxFailures
  /\ ClaimsInOrder

\* What the handlers and the clients leave alone.
LEMMA TableKept ==
  ASSUME DeliveryBase, UNCHANGED <<tableVars, batch>>, putting' \subseteq putting,
         failures' \in {failures, failures + 1}, failures' <= MaxFailures
  PROVE  TableInv'
<1>1. UNCHANGED <<claimedIn, delivered, serverRun, staleBefore, batch>>
  BY DEF tableVars
<1>2. /\ claimedIn \in Seq(0..MaxFailures \cup {None}) /\ Len(claimedIn) <= MaxEvents
      /\ delivered \subseteq Rows /\ serverRun \in 0..MaxFailures
      /\ staleBefore \in 0..serverRun /\ batch \subseteq Rows
      /\ failures \in 0..MaxFailures /\ ClaimsInOrder
  BY DEF DeliveryBase, DeliveryTypeOK
<1>3. failures' \in 0..MaxFailures /\ serverRun <= failures'
  BY <1>2, DeliveryAssumption DEF ClaimsInOrder
<1>4. ClaimsInOrder'
  BY <1>1, <1>2, <1>3 DEF ClaimsInOrder, Rows
<1>5. QED
  BY <1>1, <1>2, <1>3, <1>4 DEF TableInv, Rows

\* New rows are the last ones and not claimed.
LEMMA AppendedRows ==
  ASSUME DeliveryTypeOK, NEW n \in 1..MaxEvents, AppendEvents(n)
  PROVE  /\ claimedIn' \in Seq(0..MaxFailures \cup {None})
         /\ Len(claimedIn') = Len(claimedIn) + n /\ Len(claimedIn') <= MaxEvents
         /\ Rows' = 1..(Len(claimedIn) + n) /\ Rows \subseteq Rows'
         /\ \A s \in Rows : claimedIn'[s] = claimedIn[s]
         /\ \A s \in Rows' \ Rows : claimedIn'[s] = None /\ \A u \in Rows : u < s
<1> DEFINE S == 0..MaxFailures \cup {None}
           e(i) == None
           new == [i \in 1..n |-> e(i)]
<1>1. n \in Nat /\ \A i \in 1..n : e(i) \in S
  BY DeliveryAssumption
<1>2. new \in Seq(S)
  <2> HIDE DEF e, S
  <2>1. QED
    BY <1>1, IsASeq
<1>3. Len(new) = n
  <2>1. Len(new) \in Nat /\ DOMAIN new = 1..Len(new)
    BY <1>2, LenProperties
  <2>2. DOMAIN new = 1..n
    OBVIOUS
  <2> HIDE DEF new
  <2>3. 1..Len(new) = 1..n
    BY <2>1, <2>2
  <2>4. Len(new) \in Nat /\ n \in Nat
    BY <1>1, <2>1
  <2>5. QED
    BY <2>3, <2>4
<1>4. \A i \in 1..n : new[i] = None
  OBVIOUS
<1>5. claimedIn' = claimedIn \o new /\ Len(claimedIn) + n <= MaxEvents
  BY DEF AppendEvents
<1>6. /\ claimedIn \in Seq(S) /\ Len(claimedIn) \in Nat
      /\ Rows = 1..Len(claimedIn)
  BY DeliveryTypes DEF DeliveryTypeOK
<1> HIDE DEF new, S
<1>7. /\ claimedIn \o new \in Seq(S)
      /\ Len(claimedIn \o new) = Len(claimedIn) + Len(new)
      /\ \A i \in 1..(Len(claimedIn) + Len(new)) : (claimedIn \o new)[i] =
           IF i <= Len(claimedIn) THEN claimedIn[i] ELSE new[i - Len(claimedIn)]
  BY <1>2, <1>6, ConcatProperties
<1>8. /\ claimedIn' \in Seq(S) /\ Len(claimedIn') = Len(claimedIn) + n
      /\ \A i \in 1..(Len(claimedIn) + n) : claimedIn'[i] =
           IF i <= Len(claimedIn) THEN claimedIn[i] ELSE new[i - Len(claimedIn)]
  BY <1>3, <1>5, <1>7
<1>9. Rows' = 1..(Len(claimedIn) + n)
  BY <1>8, LenProperties DEF Rows
<1>10. \A s \in Rows' \ Rows : claimedIn'[s] = None /\ \A u \in Rows : u < s
  <2> SUFFICES ASSUME NEW s \in Rows' \ Rows
               PROVE  claimedIn'[s] = None /\ \A u \in Rows : u < s
    OBVIOUS
  <2>1. s \in 1..(Len(claimedIn) + n) /\ ~(s <= Len(claimedIn))
    BY <1>1, <1>6, <1>9
  <2>2. s - Len(claimedIn) \in 1..n
    BY <1>1, <1>6, <2>1
  <2>3. QED
    BY <1>4, <1>6, <1>8, <2>1, <2>2
<1>11. QED
  BY <1>1, <1>5, <1>6, <1>8, <1>9, <1>10 DEF S

\* The rows that a claim takes: no row that it passes over comes before them.
LEMMA ClaimedRows ==
  ASSUME DeliveryBase, Claim
  PROVE  /\ batch = {} /\ batch' \subseteq Rows
         /\ claimedIn' \in Seq(0..MaxFailures \cup {None})
         /\ Len(claimedIn') = Len(claimedIn) /\ Rows' = Rows
         /\ \A s \in Rows : claimedIn'[s] = IF s \in batch' THEN serverRun
                                                            ELSE claimedIn[s]
         /\ serverRun # None
         /\ \A s \in batch' : s \notin delivered
         /\ \A s \in batch' : \A u \in Rows :
              u < s /\ claimedIn[u] = None => u \in batch'
<1> DEFINE C == {s \in Rows : Claimable(s)}
           claimed == FirstOnes(C, BatchSize)
           e(s) == IF s \in claimed THEN serverRun ELSE claimedIn[s]
           n == Len(claimedIn)
<1>1. /\ n \in Nat /\ Rows = 1..n
      /\ claimedIn \in Seq(0..MaxFailures \cup {None})
      /\ serverRun \in 0..MaxFailures
  BY DeliveryTypes DEF DeliveryBase, DeliveryTypeOK
<1>2. claimed \subseteq C
  BY DEF FirstOnes
<1>3. batch = {} /\ batch' = claimed
  BY DEF Claim
<1>4. claimedIn' = [s \in 1..n |-> e(s)]
  BY <1>1 DEF Claim
<1>5. C \subseteq Rows /\ \A s \in C : s \notin delivered
  BY DEF Claimable
<1>6. serverRun # None /\ BatchSize \in Nat
  BY <1>1, DeliveryAssumption
<1>7. \A s \in 1..n : claimedIn[s] \in 0..MaxFailures \cup {None}
  BY <1>1, ElementOfSeq
<1>8. \A s \in 1..n : e(s) \in 0..MaxFailures \cup {None}
  BY <1>1, <1>7
<1>9. ASSUME NEW s \in claimed, NEW u \in Rows, u < s, claimedIn[u] = None
      PROVE  u \in claimed
  <2>1. u \in C
    BY <1>9 DEF Claimable, DeliveryBase, ClaimsInOrder
  <2>2. C \subseteq Nat /\ IsFiniteSet(C)
    <3>1. C \subseteq 1..n /\ IsFiniteSet(1..n)
      BY <1>1, <1>5, FS_Interval
    <3>2. C \in SUBSET (1..n)
      BY <3>1
    <3>3. C \subseteq Nat
      BY <1>1, <3>1
    <3> HIDE DEF C
    <3>4. IsFiniteSet(C)
      BY <3>1, <3>2, FS_Subset
    <3>5. QED
      BY <3>3, <3>4
  <2> HIDE DEF C
  <2>3. QED
    BY <1>6, <1>9, <2>1, <2>2, FirstOnesComeFirst
<1> HIDE DEF C, claimed
<1>10. \A s \in 1..n : claimedIn'[s] = IF s \in claimed THEN serverRun
                                                        ELSE claimedIn[s]
  BY <1>4
<1> HIDE DEF e
<1>11. claimedIn' \in Seq(0..MaxFailures \cup {None})
  BY <1>1, <1>4, <1>8, IsASeq
<1>12. Rows' = 1..n /\ Len(claimedIn') = n
  <2>1. DOMAIN claimedIn' = 1..n
    BY <1>4
  <2>2. Len(claimedIn') \in Nat /\ DOMAIN claimedIn' = 1..Len(claimedIn')
    BY <1>11, LenProperties
  <2>3. QED
    BY <1>1, <2>1, <2>2 DEF Rows
<1>13. QED
  BY <1>1, <1>2, <1>3, <1>5, <1>6, <1>9, <1>10, <1>11, <1>12

\* The table only grows, and the claims stay in order.
LEMMA TableStep ==
  ASSUME DeliveryBase, [Next]_vars
  PROVE  TableInv' /\ Rows \subseteq Rows' /\ Len(claimedIn) <= Len(claimedIn')
<1>1. /\ claimedIn \in Seq(0..MaxFailures \cup {None}) /\ Len(claimedIn) <= MaxEvents
      /\ delivered \subseteq Rows /\ serverRun \in 0..MaxFailures
      /\ staleBefore \in 0..serverRun /\ batch \subseteq Rows
      /\ failures \in 0..MaxFailures /\ ClaimsInOrder
      /\ Len(claimedIn) \in Nat /\ Rows = 1..Len(claimedIn)
  BY DeliveryTypes DEF DeliveryBase, DeliveryTypeOK
<1>2. ASSUME NEW n \in 1..MaxEvents, AppendEvents(n)
      PROVE  TableInv' /\ Rows \subseteq Rows' /\ Len(claimedIn) <= Len(claimedIn')
  <2>1. /\ claimedIn' \in Seq(0..MaxFailures \cup {None})
        /\ Len(claimedIn') = Len(claimedIn) + n /\ Len(claimedIn') <= MaxEvents
        /\ Rows' = 1..(Len(claimedIn) + n) /\ Rows \subseteq Rows'
        /\ \A s \in Rows : claimedIn'[s] = claimedIn[s]
        /\ \A s \in Rows' \ Rows : claimedIn'[s] = None /\ \A u \in Rows : u < s
    BY <1>2, AppendedRows DEF DeliveryBase
  <2>2. UNCHANGED <<delivered, serverRun, staleBefore, batch, putting, failures>>
    BY <1>2 DEF AppendEvents, dispatcherVars
  <2>3. ClaimsInOrder'
    <3>1. ASSUME NEW s \in Rows', NEW u \in Rows', u < s, claimedIn'[s] # None
          PROVE  claimedIn'[u] # None
      <4>1. s \in Rows
        BY <2>1, <3>1
      <4>2. u \in Rows
        BY <1>1, <2>1, <3>1, <4>1
      <4>3. QED
        BY <1>1, <2>1, <3>1, <4>1, <4>2 DEF ClaimsInOrder
    <3>2. QED
      BY <1>1, <2>1, <2>2, <3>1 DEF ClaimsInOrder
  <2>4. Len(claimedIn) <= Len(claimedIn')
    BY <1>1, <2>1
  <2>5. QED
    BY <1>1, <2>1, <2>2, <2>3, <2>4 DEF TableInv
<1>3. CASE Claim
  <2>1. /\ batch' \subseteq Rows
        /\ claimedIn' \in Seq(0..MaxFailures \cup {None})
        /\ Len(claimedIn') = Len(claimedIn) /\ Rows' = Rows
        /\ \A s \in Rows : claimedIn'[s] = IF s \in batch' THEN serverRun
                                                           ELSE claimedIn[s]
        /\ serverRun # None /\ \A s \in batch' : s \notin delivered
        /\ \A s \in batch' : \A u \in Rows :
             u < s /\ claimedIn[u] = None => u \in batch'
    BY <1>3, ClaimedRows
  <2>2. /\ UNCHANGED <<delivered, serverRun, staleBefore, failures>>
        /\ batch' # {}
    BY <1>3 DEF Claim
  <2>3. ClaimsInOrder'
    <3>1. \A s \in batch' : claimedIn'[s] # None /\ s \notin delivered'
      BY <2>1, <2>2
    <3>2. \A s \in delivered' : claimedIn'[s] # None
      BY <1>1, <2>1, <2>2 DEF ClaimsInOrder
    <3>3. ASSUME NEW s \in Rows', NEW u \in Rows', u < s, claimedIn'[s] # None
          PROVE  claimedIn'[u] # None
      BY <1>1, <2>1, <3>3 DEF ClaimsInOrder
    <3>4. serverRun' <= failures'
      BY <1>1, <2>2 DEF ClaimsInOrder
    <3>5. QED
      BY <2>2, <3>1, <3>2, <3>3, <3>4 DEF ClaimsInOrder
  <2>4. Len(claimedIn) <= Len(claimedIn')
    BY <1>1, <2>1
  <2>5. QED
    BY <1>1, <2>1, <2>2, <2>3, <2>4 DEF TableInv
<1>4. CASE Acknowledge
  <2> DEFINE s == First(batch)
  <2>1. s \in batch
    <3>1. batch \subseteq Nat /\ batch # {}
      BY <1>1, <1>4 DEF Acknowledge
    <3>2. QED
      BY <3>1, FirstIsLeast
  <2>2. /\ delivered' = delivered \cup {s} /\ batch' = batch \ {s}
        /\ UNCHANGED <<claimedIn, serverRun, staleBefore, failures>>
        /\ putting' # {} => batch' # {}
    BY <1>4 DEF Acknowledge
  <2> HIDE DEF s
  <2>3. ClaimsInOrder'
    BY <1>1, <2>1, <2>2 DEF ClaimsInOrder, Rows
  <2>4. Rows' = Rows /\ Len(claimedIn) <= Len(claimedIn')
    BY <1>1, <2>2 DEF Rows
  <2>5. QED
    BY <1>1, <2>1, <2>2, <2>3, <2>4 DEF TableInv
<1>5. CASE ClaimsGetStale
  <2>1. /\ staleBefore' \in (staleBefore + 1)..serverRun
        /\ UNCHANGED <<claimedIn, delivered, serverRun, batch, putting, failures>>
    BY <1>5 DEF ClaimsGetStale, dispatcherVars
  <2>2. ClaimsInOrder' /\ Rows' = Rows
    BY <1>1, <2>1 DEF ClaimsInOrder, Rows
  <2>3. staleBefore' \in 0..serverRun'
    BY <1>1, <2>1
  <2>4. QED
    BY <1>1, <2>1, <2>2, <2>3 DEF TableInv
<1>6. CASE Restart
  <2>1. /\ failures < MaxFailures /\ failures' = failures + 1
        /\ serverRun' = serverRun + 1 /\ batch' = {} /\ putting' = {}
        /\ UNCHANGED <<claimedIn, delivered, staleBefore>>
    BY <1>6 DEF Restart
  <2>2. Rows' = Rows /\ Len(claimedIn) <= Len(claimedIn')
    BY <1>1, <2>1 DEF Rows
  <2>3. /\ failures' \in 0..MaxFailures /\ serverRun' \in 0..MaxFailures
        /\ serverRun' <= failures' /\ staleBefore' \in 0..serverRun'
    BY <1>1, <2>1, DeliveryAssumption DEF ClaimsInOrder
  <2>4. ClaimsInOrder'
    BY <1>1, <2>1, <2>2, <2>3 DEF ClaimsInOrder
  <2>5. QED
    BY <1>1, <2>1, <2>2, <2>3, <2>4 DEF TableInv
<1>7. ASSUME UNCHANGED <<tableVars, batch>>, putting' \subseteq putting,
             \/ failures' = failures
             \/ failures < MaxFailures /\ failures' = failures + 1
      PROVE  TableInv' /\ Rows \subseteq Rows' /\ Len(claimedIn) <= Len(claimedIn')
  <2>1. failures' \in {failures, failures + 1} /\ failures' <= MaxFailures
    BY <1>1, <1>7, DeliveryAssumption
  <2>2. TableInv'
    BY <1>7, <2>1, TableKept
  <2>3. Rows' = Rows /\ Len(claimedIn) <= Len(claimedIn')
    BY <1>1, <1>7 DEF Rows, tableVars
  <2>4. QED
    BY <2>2, <2>3
<1>8. ASSUME NEW k \in DOMAIN conns, Put(k) \/ HandlerStep(k) \/ BreakConnection(k)
      PROVE  TableInv' /\ Rows \subseteq Rows' /\ Len(claimedIn) <= Len(claimedIn')
  BY <1>7, <1>8 DEF Put, HandlerStep, Subscribe, LoadPage, SendReplay, SendLive,
     CloseHandler, BreakConnection, HandlerVars, dispatcherVars
<1>9. ASSUME NEW c \in Clients, ClientStep(c) \/ Disconnect(c)
      PROVE  TableInv' /\ Rows \subseteq Rows' /\ Len(claimedIn) <= Len(claimedIn')
  BY <1>7, <1>9 DEF ClientStep, Connect, Receive, Consume, NoticeClose, Disconnect,
     Unlink, dispatcherVars
<1>10. CASE UNCHANGED vars
  BY <1>7, <1>10 DEF vars, dispatcherVars
<1>11. QED
  BY <1>2, <1>3, <1>4, <1>5, <1>6, <1>8, <1>9, <1>10
     DEF Next, DispatcherStep, Failure

-----------------------------------------------------------------------------
(***************************************************************************)
(* The connections                                                         *)
(***************************************************************************)

ConnInv ==
  /\ conns \in Seq(Connections)
  /\ Len(conns) <= MaxConns
  /\ subscribers \subseteq DOMAIN conns
  /\ putting \subseteq DOMAIN conns
  /\ OnTheWay

\* The elements of an extended sequence, and of a shortened one.
LEMMA AppendElements ==
  ASSUME NEW S, NEW q \in Seq(S), NEW s \in S
  PROVE  /\ DOMAIN q = 1..Len(q) /\ Len(q) \in Nat
         /\ DOMAIN Append(q, s) = 1..(Len(q) + 1)
         /\ \A i \in DOMAIN q : Append(q, s)[i] = q[i]
         /\ Append(q, s)[Len(q) + 1] = s
BY AppendProperties, LenProperties

LEMMA TailElements ==
  ASSUME NEW S, NEW q \in Seq(S), q # <<>>
  PROVE  /\ DOMAIN q = 1..Len(q) /\ Len(q) \in Nat \ {0} /\ Head(q) = q[1]
         /\ DOMAIN Tail(q) = 1..(Len(q) - 1)
         /\ \A i \in DOMAIN Tail(q) : i + 1 \in DOMAIN q /\ Tail(q)[i] = q[i + 1]
<1>1. DOMAIN q = 1..Len(q) /\ Len(q) \in Nat \ {0} /\ Head(q) = q[1]
  BY LenProperties, EmptySeq
<1>2. /\ Len(Tail(q)) = Len(q) - 1 /\ Tail(q) \in Seq(S)
      /\ \A i \in 1..Len(Tail(q)) : Tail(q)[i] = q[i + 1]
  BY HeadTailProperties
<1>3. DOMAIN Tail(q) = 1..(Len(q) - 1)
  BY <1>2, LenProperties
<1>4. QED
  BY <1>1, <1>2, <1>3

\* A step that changes one connection to one that holds nothing new.
LEMMA ConnKept ==
  ASSUME DeliveryBase, NEW k \in DOMAIN conns, OnlyConn(k), UNCHANGED claimedIn,
         WithinLog(conns'[k]), putting' \subseteq putting,
         subscribers' \in {subscribers, subscribers \cup {k}, subscribers \ {k}},
         conns'[k].phase \in {"subscribed", "sending"} => k \in subscribers'
  PROVE  ConnInv'
<1>1. /\ subscribers \subseteq DOMAIN conns /\ putting \subseteq DOMAIN conns
      /\ OnTheWay /\ Len(conns) <= MaxConns
  BY DEF DeliveryBase, DeliveryTypeOK
<1>2. DOMAIN conns' = DOMAIN conns /\ conns' \in Seq(Connections)
      /\ Len(conns') = Len(conns) /\ \A j \in DOMAIN conns : j # k => conns'[j] = conns[j]
  BY DEF OnlyConn
<1>3. ASSUME NEW j \in DOMAIN conns
      PROVE  /\ WithinLog(conns[j])'
             /\ conns'[j].phase \in {"subscribed", "sending"} => j \in subscribers'
  BY <1>1, <1>2 DEF OnTheWay, WithinLog, Rows
<1>4. subscribers' \subseteq DOMAIN conns'
  BY <1>1, <1>2
<1>5. putting' \subseteq DOMAIN conns'
  BY <1>1, <1>2
<1>6. OnTheWay'
  BY <1>2, <1>3 DEF OnTheWay
<1>7. QED
  BY <1>1, <1>2, <1>4, <1>5, <1>6 DEF ConnInv, MaxConns

\* What is on its way stays in the table.
LEMMA ConnStep ==
  ASSUME DeliveryBase, [Next]_vars
  PROVE  ConnInv'
<1>1. /\ conns \in Seq(Connections) /\ Len(conns) <= MaxConns
      /\ subscribers \subseteq DOMAIN conns /\ putting \subseteq DOMAIN conns
      /\ OnTheWay /\ batch \subseteq Rows
      /\ Len(claimedIn) \in Nat /\ Rows = 1..Len(claimedIn)
  BY DeliveryTypes DEF DeliveryBase, DeliveryTypeOK
<1>2. \A k \in DOMAIN conns : conns[k] \in Connections /\ WithinLog(conns[k])
  BY <1>1 DEF OnTheWay
<1>3. ASSUME UNCHANGED <<conns, subscribers>>, putting' \subseteq putting \cup subscribers
      PROVE  ConnInv'
  <2>1. Rows \subseteq Rows' /\ Len(claimedIn) <= Len(claimedIn')
        /\ Len(claimedIn') \in Nat
    BY TableStep, LenProperties DEF TableInv
  <2>2. ASSUME NEW k \in DOMAIN conns PROVE WithinLog(conns[k])'
    <3>1. conns[k].sent <= Len(claimedIn')
      BY <1>1, <1>2, <2>1 DEF WithinLog, Connections
    <3>2. QED
      BY <1>2, <1>3, <2>1, <3>1 DEF WithinLog
  <2>3. OnTheWay'
    BY <1>1, <1>3, <2>2 DEF OnTheWay
  <2>4. QED
    BY <1>1, <1>3, <2>3 DEF ConnInv, MaxConns
<1>4. CASE \/ \E n \in 1..MaxEvents : AppendEvents(n)
           \/ ClaimsGetStale \/ Claim \/ Acknowledge \/ UNCHANGED vars
           \/ \E c \in Clients : Consume(c)
  BY <1>3, <1>4 DEF AppendEvents, ClaimsGetStale, Claim, Acknowledge, vars, Consume,
     dispatcherVars
<1>5. ASSUME NEW k \in DOMAIN conns, Put(k) PROVE ConnInv'
  <2>1. /\ OnlyConn(k) /\ SameAt(k, {"phase", "sent", "page", "wire"})
        /\ First(batch) \in batch
        /\ conns'[k].queue = Append(conns[k].queue, First(batch))
    BY <1>5, PutRow
  <2>2. UNCHANGED <<claimedIn, subscribers>> /\ putting' \subseteq putting
    BY <1>5 DEF Put, tableVars
  <2>3. WithinLog(conns'[k])
    <3>1. /\ conns'[k].sent = conns[k].sent /\ conns'[k].page = conns[k].page
          /\ conns'[k].wire = conns[k].wire
      BY <2>1 DEF SameAt
    <3>2. conns[k].queue \in Seq(Events) /\ First(batch) \in Events
      BY <1>1, <1>2, <2>1, DeliveryTypes DEF Connections, DeliveryBase
    <3>3. \A i \in DOMAIN conns'[k].queue : conns'[k].queue[i] \in Rows
      <4>1. \A i \in DOMAIN conns[k].queue : conns[k].queue[i] \in Rows
        BY <1>2 DEF WithinLog
      <4>2. First(batch) \in Rows
        BY <1>1, <2>1
      <4> DEFINE q == conns[k].queue
                 s == First(batch)
      <4> HIDE DEF q, s
      <4>3. \A i \in DOMAIN Append(q, s) : i \in DOMAIN q \/ i = Len(q) + 1
        BY <3>2, AppendElements DEF q, s
      <4>4. /\ \A i \in DOMAIN q : Append(q, s)[i] = q[i]
            /\ Append(q, s)[Len(q) + 1] = s
        BY <3>2, AppendElements DEF q, s
      <4>5. QED
        BY <2>1, <4>1, <4>2, <4>3, <4>4 DEF q, s
    <3>4. QED
      BY <1>2, <3>1, <3>3 DEF WithinLog
  <2>4. conns'[k].phase \in {"subscribed", "sending"} => k \in subscribers'
    BY <1>1, <2>1, <2>2 DEF SameAt, OnTheWay
  <2>5. QED
    BY <2>1, <2>2, <2>3, <2>4, ConnKept
<1>6. ASSUME NEW k \in DOMAIN conns, Subscribe(k) PROVE ConnInv'
  <2>1. OnlyConn(k) /\ SameAt(k, {"sent", "page", "queue", "wire"})
    BY <1>6, SubscribeRow DEF DeliveryBase
  <2>2. /\ UNCHANGED claimedIn /\ putting' = putting
        /\ subscribers' = subscribers \cup {k}
    BY <1>6 DEF Subscribe, HandlerVars, tableVars, dispatcherVars
  <2>3. WithinLog(conns'[k])
    BY <1>2, <2>1 DEF SameAt, WithinLog
  <2>4. QED
    BY <2>1, <2>2, <2>3, ConnKept
<1>7. ASSUME NEW k \in DOMAIN conns, LoadPage(k) PROVE ConnInv'
  <2>1. /\ OnlyConn(k) /\ SameAt(k, {"sent", "queue", "wire"})
        /\ conns[k].phase = "subscribed"
        /\ conns'[k].page = FirstOnes({s \in Rows : s > conns[k].sent}, PageSize)
    BY <1>7, LoadRow DEF DeliveryBase
  <2>2. UNCHANGED <<claimedIn, putting, subscribers>>
    BY <1>7 DEF LoadPage, HandlerVars, tableVars, dispatcherVars
  <2>3. conns'[k].page \subseteq Rows
    BY <2>1 DEF FirstOnes
  <2>4. WithinLog(conns'[k])
    BY <1>2, <2>1, <2>3 DEF SameAt, WithinLog
  <2>5. k \in subscribers'
    BY <1>1, <2>1, <2>2 DEF OnTheWay
  <2>6. QED
    BY <2>1, <2>2, <2>4, <2>5, ConnKept
<1>8. ASSUME NEW k \in DOMAIN conns, NEW wire, NEW s \in Rows,
             wire = IF Linked(k) THEN Append(conns[k].wire, s) ELSE conns[k].wire
      PROVE  \A i \in DOMAIN wire : wire[i] \in Rows
  <2>1. conns[k].wire \in Seq(Events) /\ s \in Events
        /\ \A i \in DOMAIN conns[k].wire : conns[k].wire[i] \in Rows
    BY <1>2, <1>8, DeliveryTypes DEF Connections, WithinLog, DeliveryBase
  <2> DEFINE q == conns[k].wire
  <2> HIDE DEF q
  <2>2. \A i \in DOMAIN Append(q, s) : i \in DOMAIN q \/ i = Len(q) + 1
    BY <2>1, AppendElements DEF q
  <2>3. /\ \A i \in DOMAIN q : Append(q, s)[i] = q[i]
        /\ Append(q, s)[Len(q) + 1] = s
    BY <2>1, AppendElements DEF q
  <2>4. QED
    BY <1>8, <2>1, <2>2, <2>3 DEF q
<1>9. ASSUME NEW k \in DOMAIN conns, SendReplay(k) PROVE ConnInv'
  <2>1. /\ OnlyConn(k) /\ SameAt(k, {"phase", "queue"})
        /\ conns'[k].sent \in conns[k].page
        /\ conns'[k].page = conns[k].page \ {conns'[k].sent}
        /\ conns'[k].wire = IF Linked(k) THEN Append(conns[k].wire, conns'[k].sent)
                                         ELSE conns[k].wire
    BY <1>9, SendReplayRow DEF DeliveryBase
  <2>2. UNCHANGED <<claimedIn, putting, subscribers>>
    BY <1>9 DEF SendReplay, HandlerVars, tableVars, dispatcherVars
  <2>3. conns'[k].sent \in Rows /\ conns'[k].sent <= Len(claimedIn)
    BY <1>1, <1>2, <2>1 DEF WithinLog
  <2>4. \A i \in DOMAIN conns'[k].wire : conns'[k].wire[i] \in Rows
    BY <1>8, <2>1, <2>3
  <2>5. WithinLog(conns'[k])
    BY <1>2, <2>1, <2>3, <2>4 DEF SameAt, WithinLog
  <2>6. conns'[k].phase \in {"subscribed", "sending"} => k \in subscribers'
    BY <1>1, <2>1, <2>2 DEF SameAt, OnTheWay
  <2>7. QED
    BY <2>1, <2>2, <2>5, <2>6, ConnKept
<1>10. ASSUME NEW k \in DOMAIN conns, SendLive(k) PROVE ConnInv'
  <2> DEFINE s == Head(conns[k].queue)
  <2>1. /\ OnlyConn(k) /\ SameAt(k, {"phase", "page"})
        /\ conns[k].queue # <<>> /\ conns'[k].queue = Tail(conns[k].queue)
        /\ \/ SameAt(k, {"sent", "wire"})
           \/ /\ conns'[k].sent = s
              /\ conns'[k].wire = IF Linked(k) THEN Append(conns[k].wire, s)
                                               ELSE conns[k].wire
    BY <1>10, SendLiveRow DEF DeliveryBase
  <2>2. UNCHANGED <<claimedIn, putting, subscribers>>
    BY <1>10 DEF SendLive, HandlerVars, tableVars, dispatcherVars
  <2>3. s \in Rows /\ s <= Len(claimedIn)
        /\ \A i \in DOMAIN Tail(conns[k].queue) : Tail(conns[k].queue)[i] \in Rows
    <3>1. conns[k].queue \in Seq(Events)
          /\ \A i \in DOMAIN conns[k].queue : conns[k].queue[i] \in Rows
      BY <1>2 DEF Connections, WithinLog
    <3> DEFINE q == conns[k].queue
    <3> HIDE DEF q
    <3>2. /\ Head(q) = q[1] /\ 1 \in DOMAIN q
          /\ \A i \in DOMAIN Tail(q) : i + 1 \in DOMAIN q /\ Tail(q)[i] = q[i + 1]
      <4>1. q \in Seq(Events) /\ q # <<>>
        BY <2>1, <3>1 DEF q
      <4>2. QED
        BY <4>1, TailElements
    <3>3. Head(q) \in Rows /\ \A i \in DOMAIN Tail(q) : Tail(q)[i] \in Rows
      BY <3>1, <3>2 DEF q
    <3>4. QED
      BY <1>1, <3>3 DEF q
  <2> HIDE DEF s
  <2>4. CASE SameAt(k, {"sent", "wire"})
    <3>1. WithinLog(conns'[k])
      BY <1>2, <2>1, <2>3, <2>4 DEF SameAt, WithinLog
    <3>2. conns'[k].phase \in {"subscribed", "sending"} => k \in subscribers'
      BY <1>1, <2>1, <2>2 DEF SameAt, OnTheWay
    <3>3. QED
      BY <2>1, <2>2, <3>1, <3>2, ConnKept
  <2>5. CASE /\ conns'[k].sent = s
             /\ conns'[k].wire = IF Linked(k) THEN Append(conns[k].wire, s)
                                              ELSE conns[k].wire
    <3>1. \A i \in DOMAIN conns'[k].wire : conns'[k].wire[i] \in Rows
      BY <1>8, <2>3, <2>5
    <3>2. WithinLog(conns'[k])
      BY <1>2, <2>1, <2>3, <2>5, <3>1 DEF SameAt, WithinLog
    <3>3. conns'[k].phase \in {"subscribed", "sending"} => k \in subscribers'
      BY <1>1, <2>1, <2>2 DEF SameAt, OnTheWay
    <3>4. QED
      BY <2>1, <2>2, <3>2, <3>3, ConnKept
  <2>6. QED
    BY <2>1, <2>4, <2>5
<1>11. ASSUME NEW k \in DOMAIN conns, HandlerEnds(k), UNCHANGED <<claimedIn, putting>>
       PROVE  ConnInv'
  <2>1. /\ OnlyConn(k) /\ SameAt(k, {"sent", "wire"})
        /\ conns'[k].phase = "closed" /\ conns'[k].page = {}
        /\ conns'[k].queue \in {conns[k].queue, <<>>}
    BY <1>11, EndsRow DEF DeliveryBase
  <2>2. subscribers' \in {subscribers, subscribers \ {k}}
    BY <1>11 DEF HandlerEnds
  <2>3. WithinLog(conns'[k])
    <3>1. \A i \in DOMAIN conns'[k].queue : conns'[k].queue[i] \in Rows
      BY <1>2, <2>1 DEF WithinLog
    <3>2. QED
      BY <1>2, <2>1, <3>1 DEF SameAt, WithinLog
  <2>4. QED
    BY <1>11, <2>1, <2>2, <2>3, ConnKept
<1>12. ASSUME NEW k \in DOMAIN conns, CloseHandler(k) \/ BreakConnection(k)
       PROVE  ConnInv'
  BY <1>11, <1>12 DEF CloseHandler, BreakConnection, HandlerVars, tableVars,
     dispatcherVars
<1>13. CASE Restart
  <2>1. /\ conns' \in Seq(Connections) /\ Len(conns') = Len(conns)
        /\ DOMAIN conns' = DOMAIN conns
        /\ \A k \in DOMAIN conns :
             /\ SameAt(k, {"sent", "wire"})
             /\ conns'[k].phase = "closed" /\ conns'[k].page = {}
             /\ conns'[k].queue = <<>>
    BY <1>13, RestartRows DEF DeliveryBase
  <2>2. UNCHANGED claimedIn /\ putting' = {} /\ subscribers' = {}
    BY <1>13 DEF Restart
  <2>3. ASSUME NEW k \in DOMAIN conns PROVE WithinLog(conns[k])'
    BY <1>2, <2>1, <2>2 DEF WithinLog, SameAt, Rows
  <2>4. OnTheWay'
    BY <2>1, <2>3 DEF OnTheWay
  <2>5. QED
    BY <1>1, <2>1, <2>2, <2>4 DEF ConnInv, MaxConns
<1>14. ASSUME NEW c \in Clients, Connect(c) PROVE ConnInv'
  <2> DEFINE k == Len(conns) + 1
  <2>1. /\ conns' \in Seq(Connections) /\ Len(conns') = k /\ k \in ConnIds
        /\ DOMAIN conns' = 1..k /\ DOMAIN conns = 1..Len(conns)
        /\ Len(conns) \in Nat /\ MaxConns \in Nat
        /\ \A j \in DOMAIN conns : conns'[j] = conns[j]
        /\ conns'[k] = [ phase |-> "accepted", sent |-> lastSequence[c],
                         page |-> {}, queue |-> <<>>, wire |-> <<>> ]
    BY <1>14, ConnectRow, DeliveryTypes DEF DeliveryBase
  <2>2. UNCHANGED <<claimedIn, putting, subscribers>>
    BY <1>14 DEF Connect, tableVars, dispatcherVars
  <2>3. lastSequence[c] <= Len(claimedIn)
    BY DEF DeliveryBase, ClientsWithinLog
  <2>4. WithinLog(conns'[k]) /\ conns'[k].phase = "accepted"
    BY <2>1, <2>3 DEF WithinLog
  <2> HIDE DEF k
  <2>5. ASSUME NEW j \in DOMAIN conns'
        PROVE  /\ WithinLog(conns[j])'
               /\ conns'[j].phase \in {"subscribed", "sending"} => j \in subscribers'
    <3>1. j \in DOMAIN conns \/ j = k
      BY <2>1 DEF k
    <3>2. QED
      BY <1>1, <2>1, <2>2, <2>4, <3>1 DEF OnTheWay, WithinLog, Rows
  <2>6. Len(conns') <= MaxConns
    BY <2>1 DEF ConnIds, k
  <2>7. DOMAIN conns \subseteq DOMAIN conns'
    BY <2>1 DEF k
  <2>8. OnTheWay'
    BY <2>5 DEF OnTheWay
  <2>9. QED
    BY <1>1, <2>1, <2>2, <2>6, <2>7, <2>8 DEF ConnInv, MaxConns
<1>15. ASSUME NEW c \in Clients, Receive(c) PROVE ConnInv'
  <2> DEFINE k == link[c]
             q == conns[k].wire
  <2>1. /\ k \in DOMAIN conns /\ q # <<>>
        /\ OnlyConn(k) /\ SameAt(k, {"phase", "sent", "page", "queue"})
        /\ conns'[k].wire = Tail(q)
    BY <1>15, ReceiveRow
  <2>2. UNCHANGED <<claimedIn, putting, subscribers>>
    BY <1>15 DEF Receive, tableVars, dispatcherVars
  <2>3. \A i \in DOMAIN conns'[k].wire : conns'[k].wire[i] \in Rows
    <3>1. q \in Seq(Events) /\ \A i \in DOMAIN q : q[i] \in Rows
      BY <1>2, <2>1 DEF Connections, WithinLog
    <3> HIDE DEF q
    <3>2. \A i \in DOMAIN Tail(q) : i + 1 \in DOMAIN q /\ Tail(q)[i] = q[i + 1]
      BY <2>1, <3>1, TailElements
    <3>3. QED
      BY <2>1, <3>1, <3>2
  <2> HIDE DEF k, q
  <2>4. WithinLog(conns'[k])
    BY <1>2, <2>1, <2>3 DEF SameAt, WithinLog
  <2>5. conns'[k].phase \in {"subscribed", "sending"} => k \in subscribers'
    BY <1>1, <2>1, <2>2 DEF SameAt, OnTheWay
  <2>6. QED
    BY <2>1, <2>2, <2>4, <2>5, ConnKept
<1>16. ASSUME NEW c \in Clients, Disconnect(c) \/ NoticeClose(c) PROVE ConnInv'
  <2> DEFINE k == link[c]
  <2>1. Unlink(c)
    BY <1>16 DEF Disconnect, NoticeClose
  <2>2. /\ k \in DOMAIN conns
        /\ OnlyConn(k) /\ SameAt(k, {"phase", "sent", "page", "queue"})
        /\ conns'[k].wire = <<>>
    BY <2>1, UnlinkRow
  <2>3. UNCHANGED <<claimedIn, putting, subscribers>>
    BY <2>1 DEF Unlink, tableVars, dispatcherVars
  <2> HIDE DEF k
  <2>4. WithinLog(conns'[k])
    BY <1>2, <2>2 DEF SameAt, WithinLog
  <2>5. conns'[k].phase \in {"subscribed", "sending"} => k \in subscribers'
    BY <1>1, <2>2, <2>3 DEF SameAt, OnTheWay
  <2>6. QED
    BY <2>2, <2>3, <2>4, <2>5, ConnKept
<1>17. QED
  BY <1>4, <1>5, <1>6, <1>7, <1>9, <1>10, <1>12, <1>13, <1>14, <1>15, <1>16
     DEF Next, DispatcherStep, HandlerStep, ClientStep, Failure

-----------------------------------------------------------------------------
(***************************************************************************)
(* The clients                                                             *)
(***************************************************************************)

ClientInv ==
  /\ link \in [Clients -> ConnIds \cup {None}]
  /\ channel \in [Clients -> Seq(Events)]
  /\ lastSequence \in [Clients -> 0..MaxEvents]
  /\ ClientsWithinLog

\* What a client holds is in the table, and no other client has its connection.
LEMMA ClientStepKeeps ==
  ASSUME DeliveryBase, [Next]_vars
  PROVE  ClientInv'
<1>1. /\ link \in [Clients -> ConnIds \cup {None}]
      /\ channel \in [Clients -> Seq(Events)]
      /\ lastSequence \in [Clients -> 0..MaxEvents]
      /\ ClientsWithinLog /\ None \notin ConnIds
      /\ Len(claimedIn) \in Nat /\ Rows = 1..Len(claimedIn) /\ Rows \subseteq Events
      /\ Len(claimedIn) <= MaxEvents /\ MaxEvents \in Nat
  BY DeliveryTypes, DeliveryAssumption DEF DeliveryBase, DeliveryTypeOK
<1>2. Rows \subseteq Rows' /\ Len(claimedIn) <= Len(claimedIn')
      /\ Len(claimedIn') \in Nat
  BY TableStep, LenProperties DEF TableInv
<1>3. ASSUME NEW c \in Clients
      PROVE  /\ lastSequence[c] <= Len(claimedIn')
             /\ \A i \in DOMAIN channel[c] : channel[c][i] \in Rows'
             /\ link[c] \in DOMAIN conns \cup {None}
  BY <1>1, <1>2 DEF ClientsWithinLog
<1>4. ASSUME UNCHANGED clientVars, DOMAIN conns \subseteq DOMAIN conns' PROVE ClientInv'
  BY <1>1, <1>3, <1>4 DEF ClientInv, ClientsWithinLog, clientVars, ConnIds, MaxConns, Events
<1>5. CASE \/ \E n \in 1..MaxEvents : AppendEvents(n)
           \/ ClaimsGetStale \/ Claim \/ Acknowledge \/ UNCHANGED vars
  BY <1>4, <1>5 DEF AppendEvents, ClaimsGetStale, Claim, Acknowledge, vars
<1>6. ASSUME NEW k \in DOMAIN conns, Put(k) \/ HandlerStep(k) \/ BreakConnection(k)
      PROVE  ClientInv'
  <2>1. UNCHANGED clientVars
    BY <1>6 DEF Put, HandlerStep, Subscribe, LoadPage, SendReplay, SendLive,
       CloseHandler, BreakConnection, HandlerVars
  <2>2. DOMAIN conns' = DOMAIN conns
    BY <1>6, PutRow, SubscribeRow, LoadRow, SendReplayRow, SendLiveRow, EndsRow
       DEF HandlerStep, CloseHandler, BreakConnection, OnlyConn, DeliveryBase
  <2>3. QED
    BY <1>4, <2>1, <2>2
<1>7. CASE Restart
  BY <1>4, <1>7, RestartRows DEF Restart, DeliveryBase
<1>8. ASSUME NEW c \in Clients, Connect(c) PROVE ClientInv'
  <2> DEFINE k == Len(conns) + 1
  <2>1. /\ k \in ConnIds /\ DOMAIN conns' = 1..k /\ DOMAIN conns = 1..Len(conns)
        /\ Len(conns) \in Nat /\ k \notin DOMAIN conns
    BY <1>8, ConnectRow, DeliveryTypes DEF DeliveryBase
  <2>2. /\ link' = [link EXCEPT ![c] = k]
        /\ UNCHANGED <<claimedIn, channel, lastSequence>>
    BY <1>8 DEF Connect, tableVars
  <2>3. DOMAIN conns \subseteq DOMAIN conns' /\ k \in DOMAIN conns'
    BY <2>1
  <2> HIDE DEF k
  <2>4. /\ link' \in [Clients -> ConnIds \cup {None}]
        /\ link'[c] = k /\ \A d \in Clients : d # c => link'[d] = link[d]
    BY <1>1, <2>1, <2>2
  <2>5. ASSUME NEW d \in Clients, NEW e \in Clients,
               link'[d] # None, link'[d] = link'[e]
        PROVE  d = e
    BY <1>1, <1>3, <2>1, <2>4, <2>5 DEF ClientsWithinLog
  <2>6. ClientsWithinLog'
    BY <1>3, <2>2, <2>3, <2>4, <2>5 DEF ClientsWithinLog
  <2>7. QED
    BY <1>1, <2>2, <2>4, <2>6 DEF ClientInv, ConnIds, MaxConns, Events
<1>9. ASSUME NEW c \in Clients, Receive(c) PROVE ClientInv'
  <2> DEFINE s == Head(conns[link[c]].wire)
  <2>1. /\ s \in Rows /\ OnlyConn(link[c])
        /\ channel' = channel \/ channel' = [channel EXCEPT ![c] = Append(@, s)]
    BY <1>9, ReceiveRow
  <2>2. UNCHANGED <<claimedIn, link, lastSequence>> /\ DOMAIN conns' = DOMAIN conns
    BY <1>9, <2>1 DEF Receive, tableVars, OnlyConn
  <2> HIDE DEF s
  <2>3. CASE channel' = channel
    BY <1>4, <2>2, <2>3 DEF clientVars
  <2>4. CASE channel' = [channel EXCEPT ![c] = Append(@, s)]
    <3>1. channel[c] \in Seq(Events) /\ s \in Events
      BY <1>1, <2>1
    <3>2. Append(channel[c], s) \in Seq(Events)
      BY <3>1, AppendProperties
    <3> DEFINE new == Append(channel[c], s)
    <3>3. \A i \in DOMAIN new : new[i] \in Rows
      <4>1. \A i \in DOMAIN new : i \in DOMAIN channel[c] \/ i = Len(channel[c]) + 1
        BY <3>1, AppendElements
      <4>2. /\ \A i \in DOMAIN channel[c] : new[i] = channel[c][i]
            /\ new[Len(channel[c]) + 1] = s
        BY <3>1, AppendElements
      <4> HIDE DEF new
      <4>3. \A i \in DOMAIN channel[c] : channel[c][i] \in Rows
        BY <1>1 DEF ClientsWithinLog
      <4>4. QED
        BY <2>1, <4>1, <4>2, <4>3
    <3> HIDE DEF new
    <3>4. /\ channel' \in [Clients -> Seq(Events)] /\ channel'[c] = new
          /\ \A d \in Clients : d # c => channel'[d] = channel[d]
      BY <1>1, <2>4, <3>2 DEF new
    <3>5. ClientsWithinLog'
      <4>1. \A d \in Clients : \A i \in DOMAIN channel'[d] : channel'[d][i] \in Rows
        BY <1>1, <3>3, <3>4 DEF ClientsWithinLog
      <4>2. QED
        BY <1>1, <2>2, <4>1 DEF ClientsWithinLog, Rows
    <3>6. QED
      BY <1>1, <2>2, <3>4, <3>5 DEF ClientInv, ConnIds, MaxConns, Events
  <2>5. QED
    BY <2>1, <2>3, <2>4
<1>10. ASSUME NEW c \in Clients, Consume(c) PROVE ClientInv'
  <2> DEFINE q == channel[c]
             s == Head(q)
  <2>1. /\ q # <<>> /\ channel' = [channel EXCEPT ![c] = Tail(q)]
        /\ \/ lastSequence' = lastSequence
           \/ lastSequence' = [lastSequence EXCEPT ![c] = s]
        /\ UNCHANGED <<claimedIn, link, conns>>
    BY <1>10 DEF Consume, tableVars
  <2>2. q \in Seq(Events) /\ \A i \in DOMAIN q : q[i] \in Rows
    BY <1>1 DEF ClientsWithinLog
  <2> HIDE DEF q
  <2>3. /\ s = q[1] /\ 1 \in DOMAIN q /\ Tail(q) \in Seq(Events)
        /\ \A i \in DOMAIN Tail(q) : i + 1 \in DOMAIN q /\ Tail(q)[i] = q[i + 1]
    BY <2>1, <2>2, TailElements, HeadTailProperties
  <2>4. s \in Rows /\ s \in 0..MaxEvents /\ s <= Len(claimedIn)
    BY <1>1, <2>2, <2>3
  <2> HIDE DEF s
  <2>5. /\ channel' \in [Clients -> Seq(Events)] /\ channel'[c] = Tail(q)
        /\ \A d \in Clients : d # c => channel'[d] = channel[d]
    BY <1>1, <2>1, <2>3
  <2>6. \A d \in Clients : \A i \in DOMAIN channel'[d] : channel'[d][i] \in Rows
    <3>1. \A i \in DOMAIN Tail(q) : Tail(q)[i] \in Rows
      BY <2>2, <2>3
    <3>2. QED
      BY <1>1, <2>5, <3>1 DEF ClientsWithinLog
  <2>7. /\ lastSequence' \in [Clients -> 0..MaxEvents]
        /\ \A d \in Clients : lastSequence'[d] <= Len(claimedIn)
    <3>1. \A d \in Clients : lastSequence[d] <= Len(claimedIn)
      BY <1>1 DEF ClientsWithinLog
    <3>2. CASE lastSequence' = lastSequence
      BY <1>1, <3>1, <3>2
    <3>3. CASE lastSequence' = [lastSequence EXCEPT ![c] = s]
      BY <1>1, <2>4, <3>1, <3>3
    <3>4. QED
      BY <2>1, <3>2, <3>3
  <2>8. ClientsWithinLog'
    BY <1>1, <2>1, <2>6, <2>7 DEF ClientsWithinLog, Rows
  <2>9. QED
    BY <1>1, <2>1, <2>5, <2>7, <2>8 DEF ClientInv, ConnIds, MaxConns, Events
<1>11. ASSUME NEW c \in Clients, Disconnect(c) \/ NoticeClose(c) PROVE ClientInv'
  <2>1. Unlink(c)
    BY <1>11 DEF Disconnect, NoticeClose
  <2>2. /\ link' = [link EXCEPT ![c] = None]
        /\ UNCHANGED <<claimedIn, channel, lastSequence>>
    BY <2>1 DEF Unlink, tableVars
  <2>3. DOMAIN conns' = DOMAIN conns
    BY <2>1, UnlinkRow DEF OnlyConn
  <2>4. /\ link' \in [Clients -> ConnIds \cup {None}] /\ link'[c] = None
        /\ \A d \in Clients : d # c => link'[d] = link[d]
    BY <1>1, <2>2
  <2>5. ClientsWithinLog'
    BY <1>1, <1>3, <2>2, <2>3, <2>4 DEF ClientsWithinLog
  <2>6. QED
    BY <1>1, <2>2, <2>4, <2>5 DEF ClientInv, ConnIds, MaxConns, Events
<1>12. QED
  BY <1>5, <1>6, <1>7, <1>8, <1>9, <1>10, <1>11
     DEF Next, DispatcherStep, ClientStep, Failure

\* The types and what they need hold of every behaviour.
LEMMA DeliveryBaseHolds == Spec => []DeliveryBase
<1>1. Init => DeliveryBase
  <2> SUFFICES ASSUME Init PROVE DeliveryBase
    OBVIOUS
  <2>1. MaxConns \in Nat
    <3>1. Cardinality(Clients) \in Nat
      BY DeliveryAssumption, FS_CardinalityType
    <3>2. QED
      BY <3>1, DeliveryAssumption DEF MaxConns
  <2>2. /\ claimedIn = <<>> /\ conns = <<>> /\ Rows = {} /\ DOMAIN conns = {}
        /\ Len(claimedIn) = 0 /\ Len(conns) = 0
    BY DEF Init, Rows
  <2>3. /\ claimedIn \in Seq(0..MaxFailures \cup {None})
        /\ conns \in Seq(Connections) /\ <<>> \in Seq(Events)
    BY <2>2, EmptySeq
  <2>4. DeliveryTypeOK
    BY <2>1, <2>2, <2>3, DeliveryAssumption DEF Init, DeliveryTypeOK
  <2>5. ClaimsInOrder
    BY <2>2 DEF Init, ClaimsInOrder
  <2>6. OnTheWay
    BY <2>2 DEF OnTheWay
  <2>7. ClientsWithinLog
    <3>1. ASSUME NEW c \in Clients
          PROVE  lastSequence[c] = 0 /\ channel[c] = <<>> /\ link[c] = None
      BY DEF Init
    <3>2. QED
      BY <2>2, <3>1 DEF ClientsWithinLog
  <2>8. QED
    BY <2>4, <2>5, <2>6, <2>7 DEF DeliveryBase
<1>2. DeliveryBase /\ [Next]_vars => DeliveryBase'
  BY TableStep, ConnStep, ClientStepKeeps
     DEF DeliveryBase, DeliveryTypeOK, TableInv, ConnInv, ClientInv
<1>3. QED
  BY <1>1, <1>2, PTL DEF Spec

\* The table, the dispatcher, the handlers and the clients keep their types, and a
\* restart, a claim or a lost connection leaves no reference to what is not there.
THEOREM DeliveryTypesHold == Spec => []DeliveryTypeOK
<1>1. DeliveryBase => DeliveryTypeOK
  BY DEF DeliveryBase
<1>2. QED
  BY <1>1, DeliveryBaseHolds, PTL

-----------------------------------------------------------------------------
(***************************************************************************)
(* What the handlers send                                                  *)
(***************************************************************************)

HandlersInv == HandlersMissNothing /\ HandlersSendInOrder

\* A sending handler is all right if it has, or is still to get, every event, and
\* sends in order.
HandlerIsRight(k) ==
  conns[k].phase = "sending" =>
    /\ \A s \in Rows : Holds(conns[k], s) \/ StillToPut(k, s)
    /\ SendsInOrder(conns[k])

LEMMA HandlersInvIsLocal == HandlersInv <=> \A k \in DOMAIN conns : HandlerIsRight(k)
BY DEF HandlersInv, HandlersMissNothing, HandlersSendInOrder, HandlerIsRight

\* What a handler has and how it sends depends on three parts of its connection.
LEMMA SameHandler ==
  ASSUME NEW conn, NEW other, other.sent = conn.sent, other.page = conn.page,
         other.queue = conn.queue
  PROVE  /\ \A s : Holds(other, s) <=> Holds(conn, s)
         /\ SendsInOrder(other) <=> SendsInOrder(conn)
BY DEF Holds, SendsInOrder

\* A step that changes one connection and not the dispatcher.
LEMMA HandlersKept ==
  ASSUME DeliveryTypeOK, HandlersInv, NEW k \in DOMAIN conns, OnlyConn(k),
         UNCHANGED <<claimedIn, batch, putting>>, HandlerIsRight(k)'
  PROVE  HandlersInv'
<1>1. ASSUME NEW j \in DOMAIN conns, j # k PROVE HandlerIsRight(j)'
  <2>1. HandlerIsRight(j) /\ conns'[j] = conns[j]
    BY <1>1, HandlersInvIsLocal DEF OnlyConn
  <2>2. QED
    BY <2>1 DEF HandlerIsRight, StillToPut, Rows
<1>2. \A j \in DOMAIN conns' : HandlerIsRight(j)'
  BY <1>1 DEF OnlyConn
<1>3. QED
  BY <1>2 DEF HandlersInv, HandlersMissNothing, HandlersSendInOrder, HandlerIsRight

\* A step that leaves the connections and their phases alone, and takes from no
\* handler what the dispatcher has still to give it.
LEMMA DispatcherKeepsHandlers ==
  ASSUME DeliveryBase, HandlersInv, UNCHANGED conns, Rows \subseteq Rows',
         \A k \in DOMAIN conns : conns[k].phase = "sending" =>
           /\ \A s \in Rows' \ Rows : StillToPut(k, s)'
           /\ \A s \in Rows : StillToPut(k, s) => StillToPut(k, s)' \/ Holds(conns[k], s)
  PROVE  HandlersInv'
<1>1. ASSUME NEW k \in DOMAIN conns PROVE HandlerIsRight(k)'
  <2>1. HandlerIsRight(k) /\ conns'[k] = conns[k]
    BY HandlersInvIsLocal
  <2>2. QED
    BY <2>1 DEF HandlerIsRight
<1>2. QED
  BY <1>1 DEF HandlersInv, HandlersMissNothing, HandlersSendInOrder, HandlerIsRight

\* The steps of the dispatcher: what it claims it puts to every subscriber before
\* it acknowledges.
LEMMA HandlersInvOnDispatch ==
  ASSUME DeliveryBase, HandlersInv, Claim \/ Acknowledge
  PROVE  HandlersInv'
<1>1. \A k \in DOMAIN conns : conns[k].phase = "sending" => k \in subscribers
  BY DEF DeliveryBase, OnTheWay
<1>2. CASE Claim
  <2>1. /\ batch = {} /\ Rows' = Rows
        /\ \A s \in Rows : claimedIn'[s] = IF s \in batch' THEN serverRun
                                                           ELSE claimedIn[s]
    BY <1>2, ClaimedRows
  <2>2. putting' = subscribers /\ UNCHANGED conns
    BY <1>2 DEF Claim
  <2>3. ASSUME NEW k \in DOMAIN conns, conns[k].phase = "sending",
               NEW s \in Rows, StillToPut(k, s)
        PROVE  StillToPut(k, s)'
    BY <1>1, <2>1, <2>2, <2>3 DEF StillToPut
  <2>4. QED
    BY <2>1, <2>2, <2>3, DispatcherKeepsHandlers
<1>3. CASE Acknowledge
  <2>1. /\ UNCHANGED <<claimedIn, conns>> /\ putting = {}
        /\ batch' = batch \ {First(batch)}
        /\ batch' # {} => putting' = subscribers
    BY <1>3 DEF Acknowledge
  <2>2. ASSUME NEW k \in DOMAIN conns, conns[k].phase = "sending",
               NEW s \in Rows, StillToPut(k, s)
        PROVE  StillToPut(k, s)'
    BY <1>1, <2>1, <2>2 DEF StillToPut
  <2>3. Rows' = Rows
    BY <2>1 DEF Rows
  <2>4. QED
    BY <2>1, <2>2, <2>3, DispatcherKeepsHandlers
<1>4. QED
  BY <1>2, <1>3

\* The steps that leave the connections alone.
LEMMA HandlersInvElsewhere ==
  ASSUME DeliveryBase, HandlersInv, UNCHANGED conns,
         \/ \E n \in 1..MaxEvents : AppendEvents(n)
         \/ UNCHANGED <<claimedIn, batch, putting>>
  PROVE  HandlersInv'
<1>1. ASSUME NEW n \in 1..MaxEvents, AppendEvents(n) PROVE HandlersInv'
  <2>1. /\ Rows \subseteq Rows' /\ \A s \in Rows : claimedIn'[s] = claimedIn[s]
        /\ \A s \in Rows' \ Rows : claimedIn'[s] = None
    BY <1>1, AppendedRows DEF DeliveryBase
  <2>2. UNCHANGED <<batch, putting>>
    BY <1>1 DEF AppendEvents, dispatcherVars
  <2>3. QED
    BY <2>1, <2>2, DispatcherKeepsHandlers DEF StillToPut
<1>2. CASE UNCHANGED <<claimedIn, batch, putting>>
  BY <1>2, DispatcherKeepsHandlers DEF StillToPut, Rows
<1>3. QED
  BY <1>1, <1>2

\* What is put to a queue comes after what the handler has: an earlier event is
\* claimed, not in the batch any more, and so was put to this connection.
LEMMA HandlersInvOnPut ==
  ASSUME DeliveryBase, HandlersInv, NEW k \in DOMAIN conns, Put(k)
  PROVE  HandlersInv'
<1> DEFINE s == First(batch)
           q == conns[k].queue
           new == Append(q, s)
<1>1. /\ OnlyConn(k) /\ SameAt(k, {"phase", "sent", "page", "wire"})
      /\ s \in batch /\ \A u \in batch : s <= u
      /\ conns'[k].queue = new
  BY PutRow
<1>2. UNCHANGED <<claimedIn, batch>> /\ putting' = putting \ {k}
  BY DEF Put, tableVars
<1>3. /\ Rows = 1..Len(claimedIn) /\ Len(claimedIn) \in Nat /\ s \in Rows
      /\ q \in Seq(Events) /\ s \in Events /\ conns[k].sent \in Nat
  <2>1. conns[k] \in Connections
    BY DeliveryTypes DEF DeliveryBase
  <2>2. q \in Seq(Events) /\ conns[k].sent \in Nat
    BY <2>1, DeliveryAssumption DEF Connections
  <2>3. Rows = 1..Len(claimedIn) /\ Len(claimedIn) \in Nat
    BY DeliveryTypes DEF DeliveryBase
  <2>4. s \in Rows /\ s \in Events
    BY <1>1, DeliveryTypes DEF DeliveryBase, DeliveryTypeOK
  <2>5. QED
    BY <2>2, <2>3, <2>4
<1>4. /\ DOMAIN q = 1..Len(q) /\ Len(q) \in Nat /\ DOMAIN new = 1..(Len(q) + 1)
      /\ \A i \in DOMAIN q : new[i] = q[i]
      /\ new[Len(q) + 1] = s
  BY <1>3, AppendElements
<1>5. /\ conns'[k].sent = conns[k].sent /\ conns'[k].page = conns[k].page
      /\ conns'[k].phase = conns[k].phase
  BY <1>1 DEF SameAt
<1> HIDE DEF s, q, new
<1>6. \A u : Holds(conns[k], u) => Holds(conns'[k], u)
  BY <1>1, <1>4, <1>5 DEF Holds, q
<1>7. Holds(conns'[k], s)
  BY <1>1, <1>4 DEF Holds
<1>8. ASSUME NEW j \in DOMAIN conns, j # k PROVE HandlerIsRight(j)'
  <2>1. HandlerIsRight(j) /\ conns'[j] = conns[j]
    BY <1>1, <1>8, HandlersInvIsLocal DEF OnlyConn
  <2>2. \A u \in Rows : StillToPut(j, u) => StillToPut(j, u)'
    BY <1>2, <1>8 DEF StillToPut
  <2>3. QED
    BY <1>2, <2>1, <2>2 DEF HandlerIsRight, Rows
<1>9. ASSUME conns[k].phase = "sending" PROVE HandlerIsRight(k)'
  <2>1. /\ SendsInOrder(conns[k])
        /\ \A u \in Rows : Holds(conns[k], u) \/ StillToPut(k, u)
    BY <1>9, HandlersInvIsLocal DEF HandlerIsRight
  <2>2. ASSUME NEW u \in Rows PROVE Holds(conns'[k], u) \/ StillToPut(k, u)'
    <3>1. CASE u = s
      BY <1>7, <3>1
    <3>2. CASE u # s
      BY <1>2, <1>6, <2>1, <3>2 DEF StillToPut, s
    <3>3. QED
      BY <3>1, <3>2
  <2>3. s - 1 <= conns[k].sent \/ Holds(conns[k], s - 1)
    <3>1. CASE s = 1
      BY <1>3, <3>1
    <3>2. CASE s # 1
      <4>1. s - 1 \in Rows /\ s - 1 < s
        BY <1>3, <3>2
      <4>2. claimedIn[s - 1] # None
        BY <1>1, <1>3, <4>1 DEF DeliveryBase, ClaimsInOrder
      <4>3. s - 1 \notin batch
        BY <1>1, <1>3
      <4>4. QED
        BY <2>1, <4>1, <4>2, <4>3 DEF StillToPut
    <3>3. QED
      BY <3>1, <3>2
  <2>4. ASSUME NEW i \in DOMAIN new
        PROVE  \/ new[i] - 1 <= conns[k].sent
               \/ new[i] - 1 \in conns[k].page
               \/ \E j \in 1..(i - 1) : new[j] = new[i] - 1
    <3>1. CASE i \in DOMAIN q
      <4>1. new[i] = q[i] /\ \A j \in 1..(i - 1) : new[j] = q[j]
        BY <1>4, <3>1
      <4>2. \/ q[i] - 1 <= conns[k].sent
            \/ q[i] - 1 \in conns[k].page
            \/ \E j \in 1..(i - 1) : q[j] = q[i] - 1
        BY <2>1, <3>1 DEF SendsInOrder, q
      <4>3. QED
        BY <4>1, <4>2
    <3>2. CASE i \notin DOMAIN q
      <4>1. i = Len(q) + 1 /\ new[i] = s
        BY <1>4, <3>2
      <4>2. \/ s - 1 <= conns[k].sent
            \/ s - 1 \in conns[k].page
            \/ \E j \in DOMAIN q : q[j] = s - 1
        BY <2>3 DEF Holds, q
      <4>3. \A j \in DOMAIN q : j \in 1..(i - 1) /\ new[j] = q[j]
        BY <1>4, <4>1
      <4>4. QED
        BY <4>1, <4>2, <4>3
    <3>3. QED
      BY <3>1, <3>2
  <2>5. SendsInOrder(conns'[k])
    BY <1>1, <1>5, <2>1, <2>4 DEF SendsInOrder
  <2>6. QED
    BY <1>2, <2>2, <2>5 DEF HandlerIsRight, Rows
<1>10. HandlerIsRight(k)'
  BY <1>5, <1>9 DEF HandlerIsRight
<1>11. DOMAIN conns' = DOMAIN conns
  BY <1>1 DEF OnlyConn
<1>12. \A j \in DOMAIN conns' : HandlerIsRight(j)'
  BY <1>8, <1>10, <1>11
<1>13. QED
  BY <1>12 DEF HandlersInv, HandlersMissNothing, HandlersSendInOrder, HandlerIsRight

\* A page that holds all there is after the last event sent: nothing is missed, and
\* the queue goes on from it.
LEMMA HandlersInvOnLoad ==
  ASSUME DeliveryBase, HandlersInv, NoneBehindAPage,
         NEW k \in DOMAIN conns, LoadPage(k)
  PROVE  HandlersInv'
<1> DEFINE old == conns[k]
           new == conns'[k]
           n == Len(claimedIn)
<1>1. /\ OnlyConn(k) /\ SameAt(k, {"sent", "queue", "wire"})
      /\ conns[k].phase = "subscribed"
      /\ new.page = FirstOnes({s \in Rows : s > old.sent}, PageSize)
  BY LoadRow DEF DeliveryBase
<1>2. UNCHANGED <<claimedIn, batch, putting>>
  BY DEF LoadPage, HandlerVars, tableVars, dispatcherVars
<1>3. /\ n \in Nat /\ Rows = 1..n /\ old \in Connections /\ PageSize \in Nat
      /\ old.sent \in Nat /\ old.sent <= n /\ n - old.sent <= PageSize
      /\ \A i \in DOMAIN old.queue : old.queue[i] \in Rows
  BY <1>1, DeliveryTypes, DeliveryAssumption
     DEF DeliveryBase, OnTheWay, WithinLog, Connections, NoneBehindAPage
<1>4. new.sent = old.sent /\ new.queue = old.queue
  BY <1>1 DEF SameAt
<1> HIDE DEF old, new, n
<1>5. new.page = (old.sent + 1)..n
  <2>1. {s \in Rows : s > old.sent} = (old.sent + 1)..n
    BY <1>3
  <2>2. QED
    BY <1>1, <1>3, <2>1, ShortPageIsWhole
<1>6. \A s \in Rows : Holds(new, s)
  BY <1>3, <1>4, <1>5 DEF Holds
<1>7. SendsInOrder(new)
  <2>1. ASSUME NEW s \in new.page
        PROVE  s > new.sent /\ \A u \in (new.sent + 1)..s : u \in new.page
    BY <1>3, <1>4, <1>5
  <2>2. ASSUME NEW i \in DOMAIN new.queue
        PROVE  new.queue[i] - 1 <= new.sent \/ new.queue[i] - 1 \in new.page
    <3>1. new.queue[i] \in 1..n
      BY <1>3, <1>4
    <3>2. QED
      BY <1>3, <1>4, <1>5, <3>1
  <2>3. QED
    BY <2>1, <2>2 DEF SendsInOrder
<1>8. HandlerIsRight(k)'
  BY <1>2, <1>6, <1>7 DEF HandlerIsRight, Rows, new
<1>9. QED
  BY <1>1, <1>2, <1>8, HandlersKept DEF DeliveryBase

\* The event sent from the page is the next one.
LEMMA ReplayedIsNext ==
  ASSUME DeliveryBase, HandlersInv, NEW k \in DOMAIN conns, SendReplay(k)
  PROVE  /\ conns'[k].sent = conns[k].sent + 1
         /\ HandlersInv'
<1> DEFINE old == conns[k]
           new == conns'[k]
           s == conns'[k].sent
<1>1. /\ OnlyConn(k) /\ SameAt(k, {"phase", "queue"})
      /\ s \in old.page /\ \A u \in old.page : s <= u
      /\ new.page = old.page \ {s}
  BY SendReplayRow DEF DeliveryBase
<1>2. UNCHANGED <<claimedIn, batch, putting>> /\ old.phase = "sending"
  BY DEF SendReplay, HandlerVars, tableVars, dispatcherVars
<1>3. /\ old.sent \in Nat /\ old.page \subseteq Nat /\ Rows \subseteq Nat
      /\ \A i \in DOMAIN old.queue : old.queue[i] \in Nat
  <2>1. old \in Connections /\ Rows = 1..Len(claimedIn) /\ WithinLog(old)
        /\ MaxEvents \in Nat
    BY DeliveryTypes, DeliveryAssumption DEF DeliveryBase, OnTheWay
  <2>2. QED
    BY <2>1 DEF Connections, Events, WithinLog
<1>4. SendsInOrder(old) /\ \A u \in Rows : Holds(old, u) \/ StillToPut(k, u)
  BY <1>2, HandlersInvIsLocal DEF HandlerIsRight
<1>5. new.queue = old.queue /\ new.phase = "sending" /\ new.sent = s
  BY <1>1, <1>2 DEF SameAt
<1> HIDE DEF old, new, s
<1>6. s = old.sent + 1
  <2>1. s > old.sent /\ \A u \in (old.sent + 1)..s : u \in old.page
    BY <1>1, <1>4 DEF SendsInOrder
  <2>2. old.sent + 1 \in (old.sent + 1)..s
    BY <1>1, <1>3, <2>1
  <2>3. QED
    BY <1>1, <1>3, <2>1, <2>2
<1>7. ASSUME NEW u \in Rows, Holds(old, u) PROVE Holds(new, u)
  BY <1>1, <1>3, <1>5, <1>6, <1>7 DEF Holds
<1>8. SendsInOrder(new)
  <2>1. ASSUME NEW u \in new.page
        PROVE  u > new.sent /\ \A v \in (new.sent + 1)..u : v \in new.page
    <3>1. u \in old.page /\ u # s /\ u \in Nat /\ u >= s
      BY <1>1, <1>3, <2>1
    <3>2. \A v \in (old.sent + 1)..u : v \in old.page
      BY <1>4, <3>1 DEF SendsInOrder
    <3>3. \A v \in (s + 1)..u : v \in old.page /\ v # s
      BY <1>3, <1>6, <3>1, <3>2
    <3>4. QED
      BY <1>1, <1>3, <1>5, <1>6, <3>1, <3>3
  <2>2. ASSUME NEW i \in DOMAIN new.queue
        PROVE  \/ new.queue[i] - 1 <= new.sent
               \/ new.queue[i] - 1 \in new.page
               \/ \E j \in 1..(i - 1) : new.queue[j] = new.queue[i] - 1
    <3>1. \/ old.queue[i] - 1 <= old.sent
          \/ old.queue[i] - 1 \in old.page
          \/ \E j \in 1..(i - 1) : old.queue[j] = old.queue[i] - 1
      BY <1>4, <1>5, <2>2 DEF SendsInOrder
    <3>2. old.queue[i] - 1 <= old.sent => old.queue[i] - 1 <= s
      BY <1>3, <1>5, <1>6, <2>2
    <3>3. old.queue[i] - 1 \in old.page =>
            old.queue[i] - 1 \in new.page \/ old.queue[i] - 1 <= s
      BY <1>1, <1>3, <1>5, <1>6, <2>2
    <3>4. QED
      BY <1>5, <3>1, <3>2, <3>3
  <2>3. QED
    BY <2>1, <2>2 DEF SendsInOrder
<1>9. HandlerIsRight(k)'
  BY <1>2, <1>4, <1>7, <1>8 DEF HandlerIsRight, StillToPut, Rows, new
<1>10. HandlersInv'
  BY <1>1, <1>2, <1>9, HandlersKept DEF DeliveryBase
<1>11. QED
  BY <1>6, <1>10 DEF s, old

\* The event sent from the queue is the next one, unless it is sent already.
LEMMA LiveIsNext ==
  ASSUME DeliveryBase, HandlersInv, NEW k \in DOMAIN conns, SendLive(k)
  PROVE  /\ conns'[k].sent \in {conns[k].sent, conns[k].sent + 1}
         /\ HandlersInv'
<1> DEFINE old == conns[k]
           new == conns'[k]
           q == conns[k].queue
           s == Head(q)
<1>1. /\ OnlyConn(k) /\ SameAt(k, {"phase", "page"})
      /\ old.page = {} /\ q # <<>> /\ new.queue = Tail(q)
      /\ \/ s <= old.sent /\ SameAt(k, {"sent", "wire"})
         \/ ~(s <= old.sent) /\ new.sent = s
  BY SendLiveRow DEF DeliveryBase
<1>2. UNCHANGED <<claimedIn, batch, putting>> /\ old.phase = "sending"
  BY DEF SendLive, HandlerVars, tableVars, dispatcherVars
<1>3. /\ old.sent \in Nat /\ Rows \subseteq Nat /\ q \in Seq(Events)
      /\ \A i \in DOMAIN q : q[i] \in Nat
  <2>1. old \in Connections /\ Rows = 1..Len(claimedIn) /\ WithinLog(old)
        /\ MaxEvents \in Nat
    BY DeliveryTypes, DeliveryAssumption DEF DeliveryBase, OnTheWay
  <2>2. QED
    BY <2>1 DEF Connections, Events, WithinLog
<1>4. SendsInOrder(old) /\ \A u \in Rows : Holds(old, u) \/ StillToPut(k, u)
  BY <1>2, HandlersInvIsLocal DEF HandlerIsRight
<1>5. /\ DOMAIN q = 1..Len(q) /\ Len(q) \in Nat \ {0} /\ s = q[1]
      /\ DOMAIN Tail(q) = 1..(Len(q) - 1)
      /\ \A i \in DOMAIN Tail(q) : i + 1 \in DOMAIN q /\ Tail(q)[i] = q[i + 1]
  BY <1>1, <1>3, TailElements
<1>6. new.page = {} /\ new.phase = "sending" /\ old.queue = q
      /\ (SameAt(k, {"sent", "wire"}) => new.sent = old.sent)
  BY <1>1, <1>2 DEF SameAt
<1> HIDE DEF old, new, q, s
<1>7. s \in Nat
  BY <1>3, <1>5
<1>8. \A i \in DOMAIN q :
        q[i] - 1 <= old.sent \/ \E j \in 1..(i - 1) : q[j] = q[i] - 1
  BY <1>1, <1>4, <1>6 DEF SendsInOrder
<1>9. new.sent \in {old.sent, old.sent + 1} /\ s <= new.sent /\ new.sent >= old.sent
      /\ new.sent \in Nat
  <2>1. s - 1 <= old.sent
    <3>1. s - 1 <= old.sent \/ \E j \in 1..(1 - 1) : q[j] = s - 1
      BY <1>5, <1>8
    <3>2. QED
      BY <3>1
  <2>2. QED
    BY <1>1, <1>3, <1>6, <1>7, <2>1
<1>10. ASSUME NEW u \in Rows, Holds(old, u) PROVE Holds(new, u)
  <2>1. u \in Nat
    BY <1>3
  <2>2. CASE u <= old.sent
    BY <1>3, <1>9, <2>1, <2>2 DEF Holds
  <2>3. ASSUME NEW i \in DOMAIN q, q[i] = u PROVE Holds(new, u)
    <3>1. CASE i = 1
      BY <1>5, <1>9, <2>3, <3>1 DEF Holds
    <3>2. CASE i # 1
      <4>1. i - 1 \in DOMAIN Tail(q) /\ (i - 1) + 1 = i
        BY <1>5, <3>2
      <4>2. Tail(q)[i - 1] = u
        BY <1>5, <2>3, <4>1
      <4>3. QED
        BY <1>1, <4>1, <4>2 DEF Holds
    <3>3. QED
      BY <3>1, <3>2
  <2>4. QED
    BY <1>1, <1>6, <1>10, <2>2, <2>3 DEF Holds
<1>11. SendsInOrder(new)
  <2>1. ASSUME NEW i \in DOMAIN Tail(q)
        PROVE  \/ Tail(q)[i] - 1 <= new.sent
               \/ \E j \in 1..(i - 1) : Tail(q)[j] = Tail(q)[i] - 1
    <3>1. i + 1 \in DOMAIN q /\ Tail(q)[i] = q[i + 1] /\ i \in Nat
      BY <1>5
    <3>2. CASE q[i + 1] - 1 <= old.sent
      BY <1>3, <1>9, <3>1, <3>2
    <3>3. ASSUME NEW j \in 1..((i + 1) - 1), q[j] = q[i + 1] - 1
          PROVE  \/ Tail(q)[i] - 1 <= new.sent
                 \/ \E m \in 1..(i - 1) : Tail(q)[m] = Tail(q)[i] - 1
      <4>1. CASE j = 1
        BY <1>5, <1>9, <3>1, <3>3, <4>1
      <4>2. CASE j # 1
        <5>1. j - 1 \in 1..(i - 1) /\ j - 1 \in DOMAIN Tail(q) /\ (j - 1) + 1 = j
          BY <1>5, <3>1, <4>2
        <5>2. Tail(q)[j - 1] = q[j]
          BY <1>5, <5>1
        <5>3. QED
          BY <3>1, <3>3, <5>1, <5>2
      <4>3. QED
        BY <4>1, <4>2
    <3>4. QED
      BY <1>8, <3>1, <3>2, <3>3
  <2>2. QED
    BY <1>1, <1>6, <2>1 DEF SendsInOrder
<1>12. HandlerIsRight(k)'
  BY <1>2, <1>4, <1>10, <1>11 DEF HandlerIsRight, StillToPut, Rows, new
<1>13. HandlersInv'
  BY <1>1, <1>2, <1>12, HandlersKept DEF DeliveryBase
<1>14. QED
  BY <1>9, <1>13 DEF new, old

\* Every step keeps it that no sending handler misses an event or sends one out of
\* its order.
LEMMA HandlersInvStep ==
  ASSUME DeliveryBase, HandlersInv, NoneBehindAPage, [Next]_vars
  PROVE  HandlersInv'
<1>1. CASE \/ \E n \in 1..MaxEvents : AppendEvents(n)
           \/ ClaimsGetStale \/ UNCHANGED vars
           \/ \E c \in Clients : Consume(c)
  BY <1>1, HandlersInvElsewhere DEF AppendEvents, ClaimsGetStale, vars, Consume,
     tableVars, dispatcherVars
<1>2. ASSUME NEW k \in DOMAIN conns, OnlyConn(k), conns'[k].phase # "sending",
             UNCHANGED <<claimedIn, batch, putting>>
      PROVE  HandlersInv'
  BY <1>2, HandlersKept DEF HandlerIsRight, DeliveryBase
<1>3. ASSUME NEW k \in DOMAIN conns, Subscribe(k) PROVE HandlersInv'
  BY <1>2, <1>3, SubscribeRow DEF Subscribe, HandlerVars, tableVars, dispatcherVars,
     DeliveryBase
<1>4. ASSUME NEW k \in DOMAIN conns, CloseHandler(k) \/ BreakConnection(k)
      PROVE  HandlersInv'
  <2>1. HandlerEnds(k) /\ UNCHANGED <<claimedIn, batch, putting>>
    BY <1>4 DEF CloseHandler, BreakConnection, HandlerVars, tableVars, dispatcherVars
  <2>2. OnlyConn(k) /\ conns'[k].phase = "closed"
    BY <2>1, EndsRow DEF DeliveryBase
  <2>3. QED
    BY <1>2, <2>1, <2>2
<1>5. ASSUME NEW k \in DOMAIN conns, OnlyConn(k),
             SameAt(k, {"phase", "sent", "page", "queue"}),
             UNCHANGED <<claimedIn, batch, putting>>
      PROVE  HandlersInv'
  <2>1. /\ conns'[k].sent = conns[k].sent /\ conns'[k].page = conns[k].page
        /\ conns'[k].queue = conns[k].queue /\ conns'[k].phase = conns[k].phase
    BY <1>5 DEF SameAt
  <2>2. /\ \A s : Holds(conns'[k], s) <=> Holds(conns[k], s)
        /\ SendsInOrder(conns'[k]) <=> SendsInOrder(conns[k])
    BY <2>1, SameHandler
  <2>3. HandlerIsRight(k)
    BY HandlersInvIsLocal
  <2>4. HandlerIsRight(k)'
    BY <1>5, <2>1, <2>2, <2>3 DEF HandlerIsRight, StillToPut, Rows
  <2>5. QED
    BY <1>5, <2>4, HandlersKept DEF DeliveryBase
<1>6. ASSUME NEW c \in Clients, Receive(c) PROVE HandlersInv'
  BY <1>5, <1>6, ReceiveRow DEF Receive, tableVars, dispatcherVars
<1>7. ASSUME NEW c \in Clients, Unlink(c) PROVE HandlersInv'
  BY <1>5, <1>7, UnlinkRow DEF Unlink, tableVars, dispatcherVars
<1>8. CASE Restart
  BY <1>8, RestartRows
     DEF HandlersInv, HandlersMissNothing, HandlersSendInOrder, DeliveryBase
<1>9. ASSUME NEW c \in Clients, Connect(c) PROVE HandlersInv'
  <2>1. /\ DOMAIN conns' = 1..(Len(conns) + 1) /\ DOMAIN conns = 1..Len(conns)
        /\ Len(conns) \in Nat
        /\ \A j \in DOMAIN conns : conns'[j] = conns[j]
        /\ conns'[Len(conns) + 1].phase = "accepted"
    <3>1. /\ DOMAIN conns' = 1..(Len(conns) + 1)
          /\ \A j \in DOMAIN conns : conns'[j] = conns[j]
          /\ conns'[Len(conns) + 1] =
               [ phase |-> "accepted", sent |-> lastSequence[c],
                 page |-> {}, queue |-> <<>>, wire |-> <<>> ]
      BY <1>9, ConnectRow DEF DeliveryBase
    <3>2. DOMAIN conns = 1..Len(conns) /\ Len(conns) \in Nat
      BY DeliveryTypes DEF DeliveryBase
    <3>3. conns'[Len(conns) + 1].phase = "accepted"
      BY <3>1
    <3>4. QED
      BY <3>1, <3>2, <3>3
  <2>2. UNCHANGED <<claimedIn, batch, putting>>
    BY <1>9 DEF Connect, tableVars, dispatcherVars
  <2>3. ASSUME NEW j \in DOMAIN conns' PROVE HandlerIsRight(j)'
    <3>1. CASE j \in DOMAIN conns
      <4>1. HandlerIsRight(j) /\ conns'[j] = conns[j]
        BY <2>1, <3>1, HandlersInvIsLocal
      <4>2. QED
        BY <2>2, <4>1 DEF HandlerIsRight, StillToPut, Rows
    <3>2. CASE j \notin DOMAIN conns
      <4>1. j = Len(conns) + 1
        BY <2>1, <3>2
      <4>2. QED
        BY <2>1, <4>1 DEF HandlerIsRight
    <3>3. QED
      BY <3>1, <3>2
  <2>4. QED
    BY <2>3 DEF HandlersInv, HandlersMissNothing, HandlersSendInOrder, HandlerIsRight
<1>10. QED
  BY <1>1, <1>3, <1>4, <1>6, <1>7, <1>8, <1>9, HandlersInvOnDispatch, HandlersInvOnPut,
     HandlersInvOnLoad, ReplayedIsNext, LiveIsNext
     DEF Next, DispatcherStep, HandlerStep, ClientStep, Failure, NoticeClose,
         Disconnect

-----------------------------------------------------------------------------
(***************************************************************************)
(* What the clients receive                                                *)
(***************************************************************************)

\* A client is all right if the events in its channel and in its socket go on from
\* the last one it consumed.
ClientIsRight(c) ==
  /\ ChannelInOrder(lastSequence[c], channel[c])
  /\ link[c] # None => WireInOrder(lastSequence[c], channel[c], conns[link[c]])

\* Numbers of events are numbers.
LEMMA ClientTypes ==
  ASSUME DeliveryBase, NEW c \in Clients
  PROVE  /\ lastSequence[c] \in Nat
         /\ channel[c] \in Seq(Events) /\ Events \subseteq Nat
         /\ link[c] # None =>
              /\ link[c] \in DOMAIN conns
              /\ conns[link[c]].wire \in Seq(Events) /\ conns[link[c]].sent \in Nat
<1>1. lastSequence[c] \in Nat /\ channel[c] \in Seq(Events) /\ Events \subseteq Nat
  BY DeliveryAssumption DEF DeliveryBase, DeliveryTypeOK, Events
<1>2. link[c] # None => link[c] \in DOMAIN conns
  BY DEF DeliveryBase, ClientsWithinLog
<1>3. \A k \in DOMAIN conns : conns[k].wire \in Seq(Events) /\ conns[k].sent \in Nat
  BY DeliveryTypes, DeliveryAssumption DEF DeliveryBase, Connections
<1>4. QED
  BY <1>1, <1>2, <1>3

\* The order in a socket depends on the events sent and on those in it.
LEMMA SameWire ==
  ASSUME NEW last, NEW chan, NEW conn, NEW other,
         other.sent = conn.sent, other.wire = conn.wire
  PROVE  WireInOrder(last, chan, other) <=> WireInOrder(last, chan, conn)
BY DEF WireInOrder

\* A client that has more is not told less.
LEMMA MoreAtClient ==
  ASSUME NEW last, NEW chan, NEW last2, NEW chan2, NEW conn,
         conn.wire \in Seq(Events), conn.sent \in Nat, Events \subseteq Nat,
         \A s \in Int : AtClient(last, chan, s) => AtClient(last2, chan2, s),
         WireInOrder(last, chan, conn)
  PROVE  WireInOrder(last2, chan2, conn)
<1>1. ASSUME NEW i \in DOMAIN conn.wire PROVE conn.wire[i] - 1 \in Int
  <2>1. conn.wire[i] \in Events
    BY ElementOfSeq, LenProperties
  <2>2. conn.wire[i] \in Nat
    BY <2>1
  <2>3. QED
    BY <2>2
<1>2. QED
  BY <1>1 DEF WireInOrder

\* A step that touches the client and its connection in nothing that counts.
LEMMA ClientUntouched ==
  ASSUME DeliveryBase, NEW c \in Clients, ClientIsRight(c),
         link'[c] = link[c], channel'[c] = channel[c],
         lastSequence'[c] = lastSequence[c],
         link[c] # None => /\ conns'[link[c]].sent = conns[link[c]].sent
                           /\ conns'[link[c]].wire = conns[link[c]].wire
  PROVE  ClientIsRight(c)'
<1>1. CASE link[c] = None
  BY <1>1 DEF ClientIsRight
<1>2. CASE link[c] # None
  <2>1. WireInOrder(lastSequence[c], channel[c], conns'[link[c]])
    BY <1>2, SameWire DEF ClientIsRight
  <2>2. QED
    BY <2>1 DEF ClientIsRight
<1>3. QED
  BY <1>1, <1>2

\* The next event is sent to the client, if it has not gone.
LEMMA SendingNextKeepsClients ==
  ASSUME DeliveryBase, ClientsReceiveInOrder, NEW k \in DOMAIN conns, OnlyConn(k),
         UNCHANGED clientVars, conns'[k].sent = conns[k].sent + 1,
         conns'[k].wire = IF Linked(k) THEN Append(conns[k].wire, conns'[k].sent)
                                       ELSE conns[k].wire
  PROVE  ClientsReceiveInOrder'
<1>1. UNCHANGED <<link, channel, lastSequence>>
  BY DEF clientVars
<1>2. ASSUME NEW c \in Clients PROVE ClientIsRight(c)'
  <2>1. ClientIsRight(c)
    BY DEF ClientsReceiveInOrder, ClientIsRight
  <2>2. CASE link[c] # k
    <3>1. link[c] # None => conns'[link[c]] = conns[link[c]]
      BY <2>2, ClientTypes DEF OnlyConn
    <3>2. QED
      BY <1>1, <2>1, <3>1, ClientUntouched
  <2>3. CASE link[c] = k
    <3> DEFINE last == lastSequence[c]
               chan == channel[c]
               w == conns[k].wire
               s == conns'[k].sent
               new == Append(w, s)
    <3>1. link[c] # None /\ Linked(k)
      BY <2>3, DeliveryTypes DEF DeliveryBase, Linked
    <3>2. w \in Seq(Events) /\ s - 1 = conns[k].sent /\ s \in Events
      <4>1. w \in Seq(Events) /\ conns[k].sent \in Nat
        BY <2>3, <3>1, ClientTypes
      <4>2. conns'[k] \in Connections /\ MaxEvents \in Nat
        BY DeliveryAssumption DEF OnlyConn
      <4>3. s \in 0..MaxEvents /\ s > 0
        <5>1. conns'[k].sent \in 0..MaxEvents
          BY <4>2 DEF Connections
        <5>2. QED
          BY <4>1, <4>2, <5>1
      <4>4. s \in Events
        <5>1. s \in 1..MaxEvents
          BY <4>2, <4>3
        <5>2. QED
          BY <5>1 DEF Events
      <4>5. s - 1 = conns[k].sent
        BY <4>1
      <4>6. QED
        BY <4>1, <4>4, <4>5
    <3>3. /\ DOMAIN w = 1..Len(w) /\ Len(w) \in Nat /\ DOMAIN new = 1..(Len(w) + 1)
          /\ \A i \in DOMAIN w : new[i] = w[i]
          /\ new[Len(w) + 1] = s
      BY <3>2, AppendElements
    <3>4. conns'[k].wire = new
      BY <3>1
    <3>5. /\ \A i \in DOMAIN w : \/ AtClient(last, chan, w[i] - 1)
                                 \/ \E j \in 1..(i - 1) : w[j] = w[i] - 1
          /\ AtClient(last, chan, s - 1) \/ \E j \in DOMAIN w : w[j] = s - 1
      BY <2>1, <2>3, <3>1, <3>2 DEF ClientIsRight, WireInOrder
    <3> HIDE DEF last, chan, w, s, new
    <3>6. ASSUME NEW i \in DOMAIN new
          PROVE  \/ AtClient(last, chan, new[i] - 1)
                 \/ \E j \in 1..(i - 1) : new[j] = new[i] - 1
      <4>1. CASE i \in DOMAIN w
        <5>1. new[i] = w[i] /\ \A j \in 1..(i - 1) : new[j] = w[j]
          BY <3>3, <4>1
        <5>2. QED
          BY <3>5, <4>1, <5>1
      <4>2. CASE i \notin DOMAIN w
        <5>1. i = Len(w) + 1 /\ new[i] = s
          BY <3>3, <4>2
        <5>2. \A j \in DOMAIN w : j \in 1..(i - 1) /\ new[j] = w[j]
          BY <3>3, <5>1
        <5>3. QED
          BY <3>5, <5>1, <5>2
      <4>3. QED
        BY <4>1, <4>2
    <3>7. \E j \in DOMAIN new : new[j] = s
      BY <3>3
    <3>8. WireInOrder(last, chan, conns'[k])
      BY <3>4, <3>6, <3>7 DEF WireInOrder, s
    <3>9. QED
      BY <1>1, <2>1, <2>3, <3>8 DEF ClientIsRight, last, chan
  <2>4. QED
    BY <2>2, <2>3
<1>3. QED
  BY <1>2 DEF ClientsReceiveInOrder, ClientIsRight

\* A client takes an event out of its socket.
LEMMA ReceivingKeepsClients ==
  ASSUME DeliveryBase, ClientsReceiveInOrder, NEW c \in Clients, Receive(c)
  PROVE  ClientsReceiveInOrder'
<1> DEFINE k == link[c]
           w == conns[k].wire
           s == Head(w)
           q == channel[c]
           last == lastSequence[c]
           conn == conns'[k]
<1>1. /\ k \in DOMAIN conns /\ w # <<>>
      /\ OnlyConn(k) /\ SameAt(k, {"phase", "sent", "page", "queue"})
      /\ conn.wire = Tail(w)
      /\ \/ s <= last /\ channel' = channel
         \/ ~(s <= last) /\ channel' = [channel EXCEPT ![c] = Append(@, s)]
  BY ReceiveRow
<1>2. UNCHANGED <<link, lastSequence>> /\ k # None
  BY DEF Receive
<1>3. ASSUME NEW d \in Clients, d # c PROVE ClientIsRight(d)'
  <2>1. ClientIsRight(d)
    BY DEF ClientsReceiveInOrder, ClientIsRight
  <2>2. link[d] # None => link[d] # k
    BY <1>2, <1>3 DEF DeliveryBase, ClientsWithinLog
  <2>3. link[d] # None => conns'[link[d]] = conns[link[d]]
    BY <1>1, <2>2, ClientTypes DEF OnlyConn
  <2>4. channel'[d] = channel[d]
    BY <1>1, <1>3 DEF DeliveryBase, DeliveryTypeOK
  <2>5. QED
    BY <1>2, <2>1, <2>3, <2>4, ClientUntouched
<1>4. /\ w \in Seq(Events) /\ q \in Seq(Events) /\ Events \subseteq Nat
      /\ last \in Nat /\ conns[k].sent \in Nat
  BY <1>2, ClientTypes
<1>5. /\ DOMAIN w = 1..Len(w) /\ Len(w) \in Nat \ {0} /\ s = w[1]
      /\ DOMAIN Tail(w) = 1..(Len(w) - 1)
      /\ \A i \in DOMAIN Tail(w) : i + 1 \in DOMAIN w /\ Tail(w)[i] = w[i + 1]
  BY <1>1, <1>4, TailElements
<1>6. s \in Events /\ Tail(w) \in Seq(Events)
  BY <1>1, <1>4, HeadTailProperties
<1>7. conn.sent = conns[k].sent
  BY <1>1 DEF SameAt
<1>8. /\ ChannelInOrder(last, q)
      /\ \A i \in DOMAIN w : \/ AtClient(last, q, w[i] - 1)
                             \/ \E j \in 1..(i - 1) : w[j] = w[i] - 1
      /\ AtClient(last, q, conn.sent) \/ \E j \in DOMAIN w : w[j] = conn.sent
  BY <1>2, <1>7 DEF ClientsReceiveInOrder, WireInOrder
<1>9. AtClient(last, q, s - 1)
  <2>1. AtClient(last, q, w[1] - 1) \/ \E j \in 1..(1 - 1) : w[j] = w[1] - 1
    BY <1>5, <1>8
  <2>2. QED
    BY <1>5, <2>1
<1> DEFINE q2 == channel'[c]
<1>10. \/ s <= last /\ q2 = q
       \/ ~(s <= last) /\ q2 = Append(q, s)
  BY <1>1 DEF DeliveryBase, DeliveryTypeOK
<1> HIDE DEF w, s, q, last, conn, q2
<1>11. /\ DOMAIN q = 1..Len(q) /\ Len(q) \in Nat
       /\ DOMAIN Append(q, s) = 1..(Len(q) + 1)
       /\ \A i \in DOMAIN q : Append(q, s)[i] = q[i]
       /\ Append(q, s)[Len(q) + 1] = s
  BY <1>4, <1>6, AppendElements
<1>12. AtClient(last, q2, s)
  <2>1. CASE s <= last
    BY <2>1 DEF AtClient
  <2>2. CASE ~(s <= last)
    BY <1>10, <1>11, <2>2 DEF AtClient
  <2>3. QED
    BY <2>1, <2>2
<1>13. ASSUME NEW u, AtClient(last, q, u) PROVE AtClient(last, q2, u)
  <2>1. CASE q2 = q
    BY <1>13, <2>1
  <2>2. CASE q2 = Append(q, s)
    BY <1>11, <1>13, <2>2 DEF AtClient
  <2>3. QED
    BY <1>10, <2>1, <2>2
<1>14. ChannelInOrder(last, q2)
  <2>1. CASE q2 = q
    BY <1>8, <2>1
  <2>2. CASE q2 = Append(q, s)
    <3>1. ASSUME NEW i \in DOMAIN q2
          PROVE  q2[i] - 1 <= last \/ \E j \in 1..(i - 1) : q2[j] = q2[i] - 1
      <4>1. CASE i \in DOMAIN q
        <5>1. q2[i] = q[i] /\ \A j \in 1..(i - 1) : q2[j] = q[j]
          BY <1>11, <2>2, <4>1
        <5>2. QED
          BY <1>8, <4>1, <5>1 DEF ChannelInOrder
      <4>2. CASE i \notin DOMAIN q
        <5>1. i = Len(q) + 1 /\ q2[i] = s
          BY <1>11, <2>2, <3>1, <4>2
        <5>2. \A j \in DOMAIN q : j \in 1..(i - 1) /\ q2[j] = q[j]
          BY <1>11, <2>2, <5>1
        <5>3. QED
          BY <1>9, <5>1, <5>2 DEF AtClient
      <4>3. QED
        BY <4>1, <4>2
    <3>2. QED
      BY <3>1 DEF ChannelInOrder
  <2>3. QED
    BY <1>10, <2>1, <2>2
<1>15. ASSUME NEW i \in DOMAIN Tail(w)
       PROVE  \/ AtClient(last, q2, Tail(w)[i] - 1)
              \/ \E j \in 1..(i - 1) : Tail(w)[j] = Tail(w)[i] - 1
  <2>1. i + 1 \in DOMAIN w /\ Tail(w)[i] = w[i + 1] /\ i \in Nat
    BY <1>5
  <2>2. CASE AtClient(last, q, w[i + 1] - 1)
    BY <1>13, <2>1, <2>2
  <2>3. ASSUME NEW j \in 1..((i + 1) - 1), w[j] = w[i + 1] - 1
        PROVE  \/ AtClient(last, q2, Tail(w)[i] - 1)
               \/ \E m \in 1..(i - 1) : Tail(w)[m] = Tail(w)[i] - 1
    <3>1. CASE j = 1
      BY <1>5, <1>12, <2>1, <2>3, <3>1
    <3>2. CASE j # 1
      <4>1. j - 1 \in 1..(i - 1) /\ j - 1 \in DOMAIN Tail(w) /\ (j - 1) + 1 = j
        BY <1>5, <2>1, <3>2
      <4>2. Tail(w)[j - 1] = w[j]
        BY <1>5, <4>1
      <4>3. QED
        BY <2>1, <2>3, <4>1, <4>2
    <3>3. QED
      BY <3>1, <3>2
  <2>4. QED
    BY <1>8, <2>1, <2>2, <2>3
<1>16. \/ AtClient(last, q2, conn.sent)
       \/ \E j \in DOMAIN Tail(w) : Tail(w)[j] = conn.sent
  <2>1. ASSUME NEW j \in DOMAIN w, w[j] = conn.sent
        PROVE  \/ AtClient(last, q2, conn.sent)
               \/ \E m \in DOMAIN Tail(w) : Tail(w)[m] = conn.sent
    <3>1. CASE j = 1
      BY <1>5, <1>12, <2>1, <3>1
    <3>2. CASE j # 1
      <4>1. j - 1 \in DOMAIN Tail(w) /\ (j - 1) + 1 = j
        BY <1>5, <3>2
      <4>2. Tail(w)[j - 1] = conn.sent
        BY <1>5, <2>1, <4>1
      <4>3. QED
        BY <4>1, <4>2
    <3>3. QED
      BY <3>1, <3>2
  <2>2. QED
    BY <1>8, <1>13, <2>1
<1>17. WireInOrder(last, q2, conn)
  BY <1>1, <1>15, <1>16 DEF WireInOrder, conn, w
<1>18. ClientIsRight(c)'
  BY <1>2, <1>14, <1>17 DEF ClientIsRight, last, q2, conn
<1>19. QED
  BY <1>3, <1>18 DEF ClientsReceiveInOrder, ClientIsRight

\* A client takes the next event out of its channel.
LEMMA ConsumedIsNext ==
  ASSUME DeliveryBase, ClientsReceiveInOrder, NEW c \in Clients, Consume(c)
  PROVE  /\ \/ lastSequence' = lastSequence
            \/ /\ lastSequence[c] < Len(claimedIn)
               /\ lastSequence' = [lastSequence EXCEPT ![c] = @ + 1]
         /\ ClientsReceiveInOrder'
<1> DEFINE q == channel[c]
           s == Head(q)
           last == lastSequence[c]
           last2 == IF s <= last THEN last ELSE s
<1>1. /\ q # <<>> /\ channel' = [channel EXCEPT ![c] = Tail(q)]
      /\ UNCHANGED <<link, conns>>
      /\ lastSequence' = IF s <= last THEN lastSequence
                                      ELSE [lastSequence EXCEPT ![c] = s]
  BY DEF Consume
<1>2. /\ last \in Nat /\ q \in Seq(Events) /\ Events \subseteq Nat
      /\ link[c] # None =>
           conns[link[c]].wire \in Seq(Events) /\ conns[link[c]].sent \in Nat
      /\ channel \in [Clients -> Seq(Events)]
      /\ lastSequence \in [Clients -> 0..MaxEvents]
      /\ Rows = 1..Len(claimedIn) /\ Len(claimedIn) \in Nat
  BY ClientTypes, DeliveryTypes DEF DeliveryBase, DeliveryTypeOK
<1>3. \A i \in DOMAIN q : q[i] \in Rows
  BY DEF DeliveryBase, ClientsWithinLog
<1>4. ASSUME NEW d \in Clients, d # c PROVE ClientIsRight(d)'
  <2>1. ClientIsRight(d)
    BY DEF ClientsReceiveInOrder, ClientIsRight
  <2>2. channel'[d] = channel[d] /\ lastSequence'[d] = lastSequence[d]
    BY <1>1, <1>2, <1>4
  <2>3. QED
    BY <1>1, <2>1, <2>2, ClientUntouched
<1>5. channel'[c] = Tail(q) /\ lastSequence'[c] = last2
  BY <1>1, <1>2
<1>6. /\ ChannelInOrder(last, q)
      /\ link[c] # None => WireInOrder(last, q, conns[link[c]])
  BY DEF ClientsReceiveInOrder
<1> HIDE DEF q, s, last
<1>7. /\ DOMAIN q = 1..Len(q) /\ Len(q) \in Nat \ {0} /\ s = q[1]
      /\ DOMAIN Tail(q) = 1..(Len(q) - 1)
      /\ \A i \in DOMAIN Tail(q) : i + 1 \in DOMAIN q /\ Tail(q)[i] = q[i + 1]
  BY <1>1, <1>2, TailElements DEF s
<1>8. s \in Rows /\ s \in Nat
  BY <1>2, <1>3, <1>7
<1>9. s - 1 <= last
  <2>1. q[1] - 1 <= last \/ \E j \in 1..(1 - 1) : q[j] = q[1] - 1
    BY <1>6, <1>7 DEF ChannelInOrder
  <2>2. QED
    BY <1>7, <2>1
<1>10. s <= last2 /\ last <= last2 /\ last2 \in Nat
  BY <1>2, <1>8
<1>11. \/ lastSequence' = lastSequence
       \/ /\ last < Len(claimedIn)
          /\ lastSequence' = [lastSequence EXCEPT ![c] = @ + 1]
  <2>1. CASE s <= last
    BY <1>1, <2>1
  <2>2. CASE ~(s <= last)
    <3>1. s = last + 1 /\ last < Len(claimedIn)
      BY <1>2, <1>8, <1>9, <2>2
    <3>2. QED
      BY <1>1, <2>2, <3>1 DEF last
  <2>3. QED
    BY <2>1, <2>2
<1> HIDE DEF last2
<1>12. ASSUME NEW u \in Int, AtClient(last, q, u) PROVE AtClient(last2, Tail(q), u)
  <2>1. CASE u <= last
    BY <1>2, <1>10, <2>1 DEF AtClient
  <2>2. ASSUME NEW i \in DOMAIN q, q[i] = u PROVE AtClient(last2, Tail(q), u)
    <3>1. CASE i = 1
      BY <1>7, <1>10, <2>2, <3>1 DEF AtClient
    <3>2. CASE i # 1
      <4>1. i - 1 \in DOMAIN Tail(q) /\ (i - 1) + 1 = i
        BY <1>7, <3>2
      <4>2. Tail(q)[i - 1] = u
        BY <1>7, <2>2, <4>1
      <4>3. QED
        BY <4>1, <4>2 DEF AtClient
    <3>3. QED
      BY <3>1, <3>2
  <2>3. QED
    BY <1>12, <2>1, <2>2 DEF AtClient
<1>13. ASSUME NEW i \in DOMAIN Tail(q)
       PROVE  \/ Tail(q)[i] - 1 <= last2
              \/ \E j \in 1..(i - 1) : Tail(q)[j] = Tail(q)[i] - 1
  <2>1. i + 1 \in DOMAIN q /\ Tail(q)[i] = q[i + 1] /\ i \in Nat
        /\ q[i + 1] \in Nat
    BY <1>2, <1>3, <1>7
  <2>2. CASE q[i + 1] - 1 <= last
    BY <1>2, <1>10, <2>1, <2>2
  <2>3. ASSUME NEW j \in 1..((i + 1) - 1), q[j] = q[i + 1] - 1
        PROVE  \/ Tail(q)[i] - 1 <= last2
               \/ \E m \in 1..(i - 1) : Tail(q)[m] = Tail(q)[i] - 1
    <3>1. CASE j = 1
      BY <1>7, <1>10, <2>1, <2>3, <3>1
    <3>2. CASE j # 1
      <4>1. j - 1 \in 1..(i - 1) /\ j - 1 \in DOMAIN Tail(q) /\ (j - 1) + 1 = j
        BY <1>7, <2>1, <3>2
      <4>2. Tail(q)[j - 1] = q[j]
        BY <1>7, <4>1
      <4>3. QED
        BY <2>1, <2>3, <4>1, <4>2
    <3>3. QED
      BY <3>1, <3>2
  <2>4. QED
    BY <1>6, <2>1, <2>2, <2>3 DEF ChannelInOrder
<1>14. ChannelInOrder(last2, Tail(q))
  BY <1>13 DEF ChannelInOrder
<1>15. link[c] # None => WireInOrder(last2, Tail(q), conns[link[c]])
  BY <1>2, <1>6, <1>12, MoreAtClient
<1>16. ClientIsRight(c)'
  BY <1>1, <1>5, <1>14, <1>15 DEF ClientIsRight
<1>17. ClientsReceiveInOrder'
  BY <1>4, <1>16 DEF ClientsReceiveInOrder, ClientIsRight
<1>18. QED
  BY <1>11, <1>17 DEF last

\* A client opens a connection: all that it asks not to be sent is consumed.
LEMMA ConnectingKeepsClients ==
  ASSUME DeliveryBase, ClientsReceiveInOrder, NEW c \in Clients, Connect(c)
  PROVE  ClientsReceiveInOrder'
<1> DEFINE k == Len(conns) + 1
<1>1. /\ \A j \in DOMAIN conns : conns'[j] = conns[j]
      /\ conns'[k] = [ phase |-> "accepted", sent |-> lastSequence[c],
                       page |-> {}, queue |-> <<>>, wire |-> <<>> ]
  BY ConnectRow DEF DeliveryBase
<1>2. /\ link' = [link EXCEPT ![c] = k] /\ UNCHANGED <<channel, lastSequence>>
      /\ link \in [Clients -> ConnIds \cup {None}]
  BY DEF Connect, DeliveryBase, DeliveryTypeOK
<1> HIDE DEF k
<1>3. \A d \in Clients : ClientIsRight(d)
  BY DEF ClientsReceiveInOrder, ClientIsRight
<1>4. ASSUME NEW d \in Clients, d # c PROVE ClientIsRight(d)'
  <2>1. link'[d] = link[d]
    BY <1>2, <1>4
  <2>2. link[d] # None => conns'[link[d]] = conns[link[d]]
    BY <1>1, ClientTypes
  <2>3. QED
    BY <1>2, <1>3, <2>1, <2>2, ClientUntouched
<1>5. ClientIsRight(c)'
  <2>1. conns'[k].wire = <<>> /\ conns'[k].sent = lastSequence[c]
    BY <1>1
  <2>2. lastSequence[c] <= lastSequence[c]
    BY ClientTypes
  <2>3. WireInOrder(lastSequence[c], channel[c], conns'[k])
    BY <2>1, <2>2 DEF WireInOrder, AtClient
  <2>4. link'[c] = k
    BY <1>2
  <2>5. QED
    BY <1>2, <1>3, <2>3, <2>4 DEF ClientIsRight
<1>6. QED
  BY <1>4, <1>5 DEF ClientsReceiveInOrder, ClientIsRight

\* A client leaves its connection and keeps its channel.
LEMMA LeavingKeepsClients ==
  ASSUME DeliveryBase, ClientsReceiveInOrder, NEW c \in Clients, Unlink(c)
  PROVE  ClientsReceiveInOrder'
<1>1. link[c] \in DOMAIN conns /\ OnlyConn(link[c])
  BY UnlinkRow
<1>2. /\ link' = [link EXCEPT ![c] = None] /\ UNCHANGED <<channel, lastSequence>>
      /\ link[c] # None
      /\ link \in [Clients -> ConnIds \cup {None}]
  BY DEF Unlink, DeliveryBase, DeliveryTypeOK
<1>3. \A d \in Clients : ClientIsRight(d)
  BY DEF ClientsReceiveInOrder, ClientIsRight
<1>4. ASSUME NEW d \in Clients, d # c PROVE ClientIsRight(d)'
  <2>1. link'[d] = link[d]
    BY <1>2, <1>4
  <2>2. link[d] # None => link[d] # link[c]
    BY <1>2, <1>4 DEF DeliveryBase, ClientsWithinLog
  <2>3. link[d] # None => conns'[link[d]] = conns[link[d]]
    BY <1>1, <2>2, ClientTypes DEF OnlyConn
  <2>4. QED
    BY <1>2, <1>3, <2>1, <2>3, ClientUntouched
<1>5. ClientIsRight(c)'
  BY <1>2, <1>3 DEF ClientIsRight
<1>6. QED
  BY <1>4, <1>5 DEF ClientsReceiveInOrder, ClientIsRight

\* Every step keeps it that each client gets the next event next.
LEMMA ClientsReceiveStep ==
  ASSUME DeliveryBase, HandlersInv, ClientsReceiveInOrder, [Next]_vars
  PROVE  ClientsReceiveInOrder'
<1>1. \A c \in Clients : ClientIsRight(c)
  BY DEF ClientsReceiveInOrder, ClientIsRight
<1>2. ASSUME UNCHANGED clientVars,
             \A k \in DOMAIN conns : SameAt(k, {"sent", "wire"})
      PROVE  ClientsReceiveInOrder'
  <2>1. ASSUME NEW c \in Clients PROVE ClientIsRight(c)'
    <3>1. link[c] # None => /\ conns'[link[c]].sent = conns[link[c]].sent
                            /\ conns'[link[c]].wire = conns[link[c]].wire
      BY <1>2, ClientTypes DEF SameAt
    <3>2. QED
      BY <1>1, <1>2, <3>1, ClientUntouched DEF clientVars
  <2>2. QED
    BY <2>1 DEF ClientsReceiveInOrder, ClientIsRight
<1>3. CASE \/ \E n \in 1..MaxEvents : AppendEvents(n)
           \/ ClaimsGetStale \/ Claim \/ Acknowledge \/ UNCHANGED vars
  BY <1>2, <1>3 DEF AppendEvents, ClaimsGetStale, Claim, Acknowledge, vars, SameAt
<1>4. CASE Restart
  BY <1>2, <1>4, RestartRows DEF Restart, SameAt, DeliveryBase
<1>5. ASSUME NEW k \in DOMAIN conns, OnlyConn(k), UNCHANGED clientVars,
             conns'[k].sent = conns[k].sent, conns'[k].wire = conns[k].wire
      PROVE  ClientsReceiveInOrder'
  BY <1>2, <1>5 DEF OnlyConn, SameAt
<1>6. ASSUME NEW k \in DOMAIN conns, Put(k) \/ Subscribe(k) \/ LoadPage(k)
      PROVE  ClientsReceiveInOrder'
  <2>1. UNCHANGED clientVars
    BY <1>6 DEF Put, Subscribe, LoadPage, HandlerVars
  <2>2. /\ OnlyConn(k)
        /\ conns'[k].sent = conns[k].sent /\ conns'[k].wire = conns[k].wire
    BY <1>6, PutRow, SubscribeRow, LoadRow DEF SameAt, DeliveryBase
  <2>3. QED
    BY <1>5, <2>1, <2>2
<1>7. ASSUME NEW k \in DOMAIN conns, CloseHandler(k) \/ BreakConnection(k)
      PROVE  ClientsReceiveInOrder'
  <2>1. UNCHANGED clientVars /\ HandlerEnds(k)
    BY <1>7 DEF CloseHandler, BreakConnection, HandlerVars
  <2>2. /\ OnlyConn(k)
        /\ conns'[k].sent = conns[k].sent /\ conns'[k].wire = conns[k].wire
    BY <2>1, EndsRow DEF SameAt, DeliveryBase
  <2>3. QED
    BY <1>5, <2>1, <2>2
<1>8. ASSUME NEW k \in DOMAIN conns, SendReplay(k) PROVE ClientsReceiveInOrder'
  <2>1. /\ OnlyConn(k)
        /\ conns'[k].wire = IF Linked(k) THEN Append(conns[k].wire, conns'[k].sent)
                                         ELSE conns[k].wire
    BY <1>8, SendReplayRow DEF DeliveryBase
  <2>2. conns'[k].sent = conns[k].sent + 1
    BY <1>8, ReplayedIsNext
  <2>3. UNCHANGED clientVars
    BY <1>8 DEF SendReplay, HandlerVars
  <2>4. QED
    BY <2>1, <2>2, <2>3, SendingNextKeepsClients
<1>9. ASSUME NEW k \in DOMAIN conns, SendLive(k) PROVE ClientsReceiveInOrder'
  <2> DEFINE s == Head(conns[k].queue)
  <2>1. /\ OnlyConn(k)
        /\ \/ s <= conns[k].sent /\ SameAt(k, {"sent", "wire"})
           \/ /\ ~(s <= conns[k].sent)
              /\ conns'[k].sent = s
              /\ conns'[k].wire = IF Linked(k) THEN Append(conns[k].wire, s)
                                               ELSE conns[k].wire
    BY <1>9, SendLiveRow DEF DeliveryBase
  <2>2. conns'[k].sent \in {conns[k].sent, conns[k].sent + 1}
    BY <1>9, LiveIsNext
  <2>3. UNCHANGED clientVars
    BY <1>9 DEF SendLive, HandlerVars
  <2> HIDE DEF s
  <2>4. CASE SameAt(k, {"sent", "wire"})
    BY <1>5, <2>1, <2>3, <2>4 DEF SameAt
  <2>5. CASE /\ ~(s <= conns[k].sent)
             /\ conns'[k].sent = s
             /\ conns'[k].wire = IF Linked(k) THEN Append(conns[k].wire, s)
                                              ELSE conns[k].wire
    <3>1. conns[k].sent \in Nat
      BY DeliveryTypes, DeliveryAssumption DEF DeliveryBase, Connections
    <3>2. conns'[k].sent = conns[k].sent + 1
      BY <2>2, <2>5, <3>1
    <3>3. QED
      BY <2>1, <2>3, <2>5, <3>2, SendingNextKeepsClients
  <2>6. QED
    BY <2>1, <2>4, <2>5
<1>10. QED
  BY <1>3, <1>4, <1>6, <1>7, <1>8, <1>9, ReceivingKeepsClients, ConsumedIsNext,
     ConnectingKeepsClients, LeavingKeepsClients
     DEF Next, DispatcherStep, HandlerStep, ClientStep, Failure, NoticeClose,
         Disconnect

-----------------------------------------------------------------------------
(***************************************************************************)
(* The theorems                                                            *)
(***************************************************************************)

\* As long as no client asks for more than a page, the whole invariant holds.
LEMMA DeliveryInvHolds == Spec /\ []NoneBehindAPage => []DeliveryInv
<1>1. Init => HandlersInv /\ ClientsReceiveInOrder
  <2> SUFFICES ASSUME Init PROVE HandlersInv /\ ClientsReceiveInOrder
    OBVIOUS
  <2>1. DOMAIN conns = {}
    BY DEF Init
  <2>2. ASSUME NEW c \in Clients PROVE DOMAIN channel[c] = {} /\ link[c] = None
    BY DEF Init
  <2>3. QED
    BY <2>1, <2>2 DEF HandlersInv, HandlersMissNothing, HandlersSendInOrder,
       ClientsReceiveInOrder, ChannelInOrder
<1>2. DeliveryBase /\ HandlersInv /\ ClientsReceiveInOrder /\ NoneBehindAPage
        /\ [Next]_vars => HandlersInv' /\ ClientsReceiveInOrder'
  BY HandlersInvStep, ClientsReceiveStep
<1>3. DeliveryBase /\ HandlersInv /\ ClientsReceiveInOrder <=> DeliveryInv
  BY DEF HandlersInv, DeliveryInv
<1>4. QED
  BY <1>1, <1>2, <1>3, DeliveryBaseHolds, PTL DEF Spec

\* An acknowledged event has reached every live connection, however late the
\* connection came, as long as no client asks for more than a page.
THEOREM AcknowledgedReachesConnectionsHolds ==
  Spec /\ []NoneBehindAPage => []AcknowledgedReachesConnections
<1>1. DeliveryInv => AcknowledgedReachesConnections
  <2> SUFFICES ASSUME DeliveryInv, NEW s \in delivered, NEW k \in subscribers,
                      conns[k].phase = "sending", s > conns[k].sent
               PROVE  \/ s \in conns[k].page
                      \/ \E i \in DOMAIN conns[k].queue : conns[k].queue[i] = s
    BY DEF AcknowledgedReachesConnections
  <2>1. s \in Rows /\ k \in DOMAIN conns /\ s \in Nat /\ conns[k].sent \in Nat
    <3>1. DeliveryTypeOK
      BY DEF DeliveryInv, DeliveryBase
    <3>2. s \in Rows /\ k \in DOMAIN conns
      BY <3>1 DEF DeliveryTypeOK
    <3>3. s \in Nat /\ conns[k] \in Connections
      BY <3>1, <3>2, DeliveryTypes
    <3>4. QED
      BY <3>2, <3>3, DeliveryAssumption DEF Connections
  <2>2. ~StillToPut(k, s)
    BY DEF StillToPut, DeliveryInv, DeliveryBase, ClaimsInOrder
  <2>3. Holds(conns[k], s)
    BY <2>1, <2>2 DEF DeliveryInv, HandlersMissNothing
  <2>4. QED
    BY <2>1, <2>3 DEF Holds
<1>2. QED
  BY <1>1, DeliveryInvHolds, PTL

\* Every step of the delivery is a step of the log or changes nothing of it.
LEMMA DeliveryStepsAreLogSteps ==
  ASSUME DeliveryBase, ClientsReceiveInOrder, [Next]_vars
  PROVE  [Log!Next]_<<Len(claimedIn), lastSequence>>
<1>1. ASSUME NEW n \in 1..MaxEvents, AppendEvents(n) PROVE Log!Append
  <2>1. /\ Len(claimedIn') = Len(claimedIn) + n /\ Len(claimedIn') <= MaxEvents
        /\ Len(claimedIn) \in Nat /\ n \in Nat /\ n >= 1 /\ MaxEvents \in Nat
    BY <1>1, AppendedRows, DeliveryTypes, DeliveryAssumption DEF DeliveryBase
  <2>2. Len(claimedIn') \in (Len(claimedIn) + 1)..MaxEvents
    BY <2>1
  <2>3. lastSequence' = lastSequence
    BY <1>1 DEF AppendEvents, clientVars
  <2>4. QED
    BY <2>2, <2>3 DEF Log!Append
<1>2. ASSUME NEW c \in Clients, Consume(c)
      PROVE  Log!Apply(c) \/ UNCHANGED <<Len(claimedIn), lastSequence>>
  <2>1. \/ lastSequence' = lastSequence
        \/ /\ lastSequence[c] < Len(claimedIn)
           /\ lastSequence' = [lastSequence EXCEPT ![c] = @ + 1]
    BY <1>2, ConsumedIsNext
  <2>2. claimedIn' = claimedIn
    BY <1>2 DEF Consume, tableVars
  <2>3. QED
    BY <2>1, <2>2 DEF Log!Apply
<1>3. CASE Claim
  <2>1. Len(claimedIn') = Len(claimedIn)
    BY <1>3, ClaimedRows
  <2>2. QED
    BY <1>3, <2>1 DEF Claim, clientVars
<1>4. CASE Acknowledge \/ ClaimsGetStale \/ Restart \/ UNCHANGED vars
  BY <1>4 DEF Acknowledge, ClaimsGetStale, Restart, vars, clientVars, tableVars
<1>5. ASSUME NEW k \in DOMAIN conns, Put(k) \/ HandlerStep(k) \/ BreakConnection(k)
      PROVE  UNCHANGED <<claimedIn, lastSequence>>
  BY <1>5 DEF Put, HandlerStep, Subscribe, LoadPage, SendReplay, SendLive,
     CloseHandler, BreakConnection, HandlerVars, tableVars, clientVars
<1>6. ASSUME NEW c \in Clients,
             Connect(c) \/ Receive(c) \/ NoticeClose(c) \/ Disconnect(c)
      PROVE  UNCHANGED <<claimedIn, lastSequence>>
  BY <1>6 DEF Connect, Receive, NoticeClose, Disconnect, Unlink, tableVars
<1>7. QED
  BY <1>1, <1>2, <1>3, <1>4, <1>5, <1>6
     DEF Log!Next, Next, DispatcherStep, ClientStep, Failure

\* Each desktop applies the log in order, without gaps and without repeats, over
\* lost connections and crashes of the server, as long as no desktop asks for more
\* than a page.
THEOREM DeliveryImplementsLog == Spec /\ []NoneBehindAPage => ImplementsLog
<1>1. Init => Log!Init
  BY DEF Init, Log!Init
<1>2. DeliveryInv /\ [Next]_vars => [Log!Next]_<<Len(claimedIn), lastSequence>>
  BY DeliveryStepsAreLogSteps DEF DeliveryInv
<1>3. QED
  BY <1>1, <1>2, DeliveryInvHolds, PTL DEF Spec, ImplementsLog, Log!Spec

\* In particular if a page holds all the events there may be.
COROLLARY WholePagesSuffice ==
  ASSUME PageSize >= MaxEvents
  PROVE  Spec => []AcknowledgedReachesConnections /\ ImplementsLog
<1>1. DeliveryBase => NoneBehindAPage
  <2> SUFFICES ASSUME DeliveryBase, NEW k \in DOMAIN conns
               PROVE  Len(claimedIn) - conns[k].sent <= PageSize
    BY DEF NoneBehindAPage
  <2>1. /\ Len(claimedIn) \in Nat /\ Len(claimedIn) <= MaxEvents
        /\ conns[k] \in Connections
    BY DeliveryTypes DEF DeliveryBase
  <2>2. conns[k].sent \in Nat
    BY <2>1, DeliveryAssumption DEF Connections
  <2>3. QED
    BY <2>1, <2>2, DeliveryAssumption
<1>2. QED
  BY <1>1, DeliveryBaseHolds, AcknowledgedReachesConnectionsHolds,
     DeliveryImplementsLog, PTL
=============================================================================
