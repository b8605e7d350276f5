--------------------------- MODULE EventDelivery ---------------------------
(***************************************************************************)
(* The way of a task event from the outbox to a desktop:                   *)
(*                                                                         *)
(*   event_outbox --claim--> dispatcher --publish--> subscriber queues     *)
(*      |                                                  |               *)
(*      +----------- list_after (replay) -----> WebSocket handler          *)
(*                                                         |               *)
(*                 EventStreamClient <---- socket ---------+               *)
(*                                                                         *)
(* (events/outbox.py, events/dispatcher.py, events/broker.py,              *)
(* api/routes/events.py, Networking/EventStreamClient.cs).  An event is    *)
(* its sequence, the rowid of its row.  The server runs on one event loop: *)
(* an action of it is what it does between two awaits.  Ping and Pong only *)
(* decide when a connection is given up, which Disconnect and CloseHandler *)
(* may do at any time; authentication is left out.                         *)
(***************************************************************************)
EXTENDS Integers, Sequences, FiniteSets

CONSTANTS
  Clients,         \* the desktops, each with one EventStreamClient
  None,            \* no claim, no connection
  BatchSize,       \* events per claim
  PageSize,        \* events per replay
  QueueCapacity,   \* of a subscriber's queue in the broker
  WireCapacity,    \* events that fit into the buffers of a socket
  ChannelCapacity, \* of the channel between receiver and consumer
  MaxEvents,       \* bound: rows of event_outbox
  MaxFailures      \* bound: restarts and lost connections

ASSUME DeliveryAssumption ==
  /\ IsFiniteSet(Clients)
  /\ BatchSize \in Nat \ {0}
  /\ PageSize \in Nat \ {0}
  /\ QueueCapacity \in Nat \ {0}
  /\ WireCapacity \in Nat \ {0}
  /\ ChannelCapacity \in Nat \ {0}
  /\ MaxEvents \in Nat
  /\ MaxFailures \in Nat
  /\ None \notin Nat

VARIABLES
  claimedIn,    \* event_outbox: by row, the run of the server that claimed it last
  delivered,    \* event_outbox: the rows with a delivered_at
  serverRun,    \* the runs of the server are numbered
  staleBefore,  \* claims of earlier runs than this one are older than a minute
  batch,        \* dispatcher: the claimed events it has still to acknowledge
  putting,      \* dispatcher: connections the first of them is not yet put to
  subscribers,  \* broker: connections with a queue in _subscribers
  conns,        \* connections, in the order they were accepted
  link,         \* by client: its connection, or None
  channel,      \* by client: received and not yet consumed
  lastSequence, \* by client: the last event consumed
  failures      \* how many failures there have been, for the bound

tableVars == <<claimedIn, delivered, serverRun, staleBefore>>
dispatcherVars == <<batch, putting>>
clientVars == <<link, channel, lastSequence>>
vars == <<tableVars, dispatcherVars, subscribers, conns, clientVars, failures>>

Events == 1..MaxEvents
Rows == DOMAIN claimedIn

\* A failure makes each client connect at most once more.
MaxConns == Cardinality(Clients) * (MaxFailures + 1)
ConnIds == 1..MaxConns

\* A connection: the state of its handler, last_sequence, the rest of the
\* replayed page, the queue in the broker and what is in the socket.
Connections ==
  [ phase : {"accepted", "subscribed", "sending", "closed"},
    sent  : 0..MaxEvents,
    page  : SUBSET Events,
    queue : Seq(Events),
    wire  : Seq(Events) ]

First(S) == CHOOSE s \in S : \A u \in S : s <= u

\* The n smallest of a set of events.
FirstOnes(S, n) == {s \in S : Cardinality({u \in S : u < s}) < n}

-----------------------------------------------------------------------------
(***************************************************************************)
(* The outbox and the dispatcher                                           *)
(***************************************************************************)

\* A transaction of the queue appends one or more events.
AppendEvents(n) ==
  /\ Len(claimedIn) + n <= MaxEvents
  /\ claimedIn' = claimedIn \o [i \in 1..n |-> None]
  /\ UNCHANGED <<delivered, serverRun, staleBefore, dispatcherVars, subscribers,
                 conns, clientVars, failures>>

\* Mutant: a claim that was never acknowledged is not given up.
NeverClaimed(s) == s \notin delivered /\ claimedIn[s] = None

\* Not delivered, and not claimed or claimed more than a minute ago.
Claimable(s) ==
  /\ s \notin delivered
  /\ claimedIn[s] = None \/ claimedIn[s] < staleBefore

\* claim, and the start of publish: the subscribers of the moment.
Claim ==
  LET claimed == FirstOnes({s \in Rows : Claimable(s)}, BatchSize) IN
  /\ batch = {}
  /\ claimed # {}
  /\ claimedIn' = [s \in Rows |-> IF s \in claimed THEN serverRun ELSE claimedIn[s]]
  /\ batch' = claimed
  /\ putting' = subscribers
  /\ UNCHANGED <<delivered, serverRun, staleBefore, subscribers, conns, clientVars,
                 failures>>

\* publish: one queue takes the event, or publish waits until it has room.
Put(k) ==
  /\ k \in putting
  /\ Len(conns[k].queue) < QueueCapacity
  /\ conns' = [conns EXCEPT ![k].queue = Append(@, First(batch))]
  /\ putting' = putting \ {k}
  /\ UNCHANGED <<tableVars, batch, subscribers, clientVars, failures>>

\* Mutant: the event is acknowledged while publish is still waiting.
AcknowledgeEarly ==
  /\ batch # {}
  /\ delivered' = delivered \cup {First(batch)}
  /\ batch' = batch \ {First(batch)}
  /\ putting' = IF batch' = {} THEN {} ELSE subscribers
  /\ UNCHANGED <<claimedIn, serverRun, staleBefore, subscribers, conns, clientVars,
                 failures>>

\* publish has returned: acknowledge, and start to publish the next event.
Acknowledge ==
  /\ batch # {}
  /\ putting = {}
  /\ delivered' = delivered \cup {First(batch)}
  /\ batch' = batch \ {First(batch)}
  /\ putting' = IF batch' = {} THEN {} ELSE subscribers
  /\ UNCHANGED <<claimedIn, serverRun, staleBefore, subscribers, conns, clientVars,
                 failures>>

\* A minute passes after the last claims of the runs before this one.
ClaimsGetStale ==
  /\ staleBefore < serverRun
  /\ staleBefore' \in (staleBefore + 1)..serverRun
  /\ UNCHANGED <<claimedIn, delivered, serverRun, dispatcherVars, subscribers, conns,
                 clientVars, failures>>

\* The server dies and starts again: the tables and the sockets' contents stay.
Restart ==
  /\ failures < MaxFailures
  /\ failures' = failures + 1
  /\ serverRun' = serverRun + 1
  /\ batch' = {}
  /\ putting' = {}
  /\ subscribers' = {}
  /\ conns' = [k \in DOMAIN conns |->
                 [conns[k] EXCEPT !.phase = "closed", !.page = {}, !.queue = <<>>]]
  /\ UNCHANGED <<claimedIn, delivered, staleBefore, clientVars>>

-----------------------------------------------------------------------------
(***************************************************************************)
(* The WebSocket handler                                                   *)
(***************************************************************************)

HandlerVars == <<tableVars, dispatcherVars, clientVars, failures>>

\* The handler has its queue before it reads the table, so that no event falls
\* between the replay and the live events.
Subscribe(k) ==
  /\ conns[k].phase = "accepted"
  /\ conns' = [conns EXCEPT ![k].phase = "subscribed"]
  /\ subscribers' = subscribers \cup {k}
  /\ UNCHANGED HandlerVars

\* Mutant: only what is not delivered yet is replayed.
LoadUndelivered(k) ==
  /\ conns[k].phase = "subscribed"
  /\ conns' = [conns EXCEPT ![k].phase = "sending",
                            ![k].page = FirstOnes({s \in Rows \ delivered :
                                                     s > conns[k].sent}, PageSize)]
  /\ UNCHANGED <<HandlerVars, subscribers>>

\* The frame "connected" is out; list_after: one page, of delivered rows and of
\* others.
LoadPage(k) ==
  /\ conns[k].phase = "subscribed"
  /\ conns' = [conns EXCEPT ![k].phase = "sending",
                            ![k].page = FirstOnes({s \in Rows : s > conns[k].sent},
                                                  PageSize)]
  /\ UNCHANGED <<HandlerVars, subscribers>>

Linked(k) == \E c \in Clients : link[c] = k

\* send_json waits as long as a client does not read what the socket holds.
Writable(k) == Linked(k) => Len(conns[k].wire) < WireCapacity

\* What is sent to a client that has gone is lost.
Sent(conn, k, s) ==
  [conn EXCEPT !.sent = s, !.wire = IF Linked(k) THEN Append(@, s) ELSE @]

SendReplay(k) ==
  /\ conns[k].phase = "sending"
  /\ conns[k].page # {}
  /\ Writable(k)
  /\ LET s    == First(conns[k].page)
         rest == [conns[k] EXCEPT !.page = @ \ {s}]
     IN  conns' = [conns EXCEPT ![k] = Sent(rest, k, s)]
  /\ UNCHANGED <<HandlerVars, subscribers>>

\* After the page, the queue: an event that is not after the last one sent is
\* dropped.
SendLive(k) ==
  /\ conns[k].phase = "sending"
  /\ conns[k].page = {}
  /\ conns[k].queue # <<>>
  /\ Writable(k) \/ Head(conns[k].queue) <= conns[k].sent
  /\ LET s    == Head(conns[k].queue)
         rest == [conns[k] EXCEPT !.queue = Tail(@)]
     IN  conns' = [conns EXCEPT ![k] = IF s <= conns[k].sent THEN rest
                                                             ELSE Sent(rest, k, s)]
  /\ UNCHANGED <<HandlerVars, subscribers>>

\* The end of the handler.  One that is sending gives up its queue, but a publish
\* that waits for room in it goes on waiting.  One that cannot send the frame
\* "connected" ends before its try statement: its queue stays with the broker and
\* is read by no one until the server starts again.
HandlerEnds(k) ==
  /\ conns[k].phase # "closed"
  /\ conns' = [conns EXCEPT ![k].phase = "closed", ![k].page = {},
                            ![k].queue = IF conns[k].phase = "sending" /\ k \notin putting
                                           THEN <<>> ELSE @]
  /\ subscribers' = IF conns[k].phase = "sending" THEN subscribers \ {k} ELSE subscribers

\* The handler finds its client gone.
CloseHandler(k) ==
  /\ ~Linked(k)
  /\ HandlerEnds(k)
  /\ UNCHANGED HandlerVars

\* The server gives up a connection its client still has.
BreakConnection(k) ==
  /\ failures < MaxFailures
  /\ failures' = failures + 1
  /\ Linked(k)
  /\ HandlerEnds(k)
  /\ UNCHANGED <<tableVars, dispatcherVars, clientVars>>

-----------------------------------------------------------------------------
(***************************************************************************)
(* EventStreamClient                                                       *)
(***************************************************************************)

\* Mutant: a client connects again without having given up its connection.
ConnectAnyway(c) ==
  /\ conns' = Append(conns, [ phase |-> "accepted", sent |-> lastSequence[c],
                              page |-> {}, queue |-> <<>>, wire |-> <<>> ])
  /\ link' = [link EXCEPT ![c] = Len(conns) + 1]
  /\ UNCHANGED <<tableVars, dispatcherVars, subscribers, channel, lastSequence,
                 failures>>

\* ReconnectLoopAsync: ask for what comes after the last event consumed.
Connect(c) ==
  /\ link[c] = None
  /\ Len(conns) < MaxConns
  /\ conns' = Append(conns, [ phase |-> "accepted", sent |-> lastSequence[c],
                              page |-> {}, queue |-> <<>>, wire |-> <<>> ])
  /\ link' = [link EXCEPT ![c] = Len(conns) + 1]
  /\ UNCHANGED <<tableVars, dispatcherVars, subscribers, channel, lastSequence,
                 failures>>

\* Mutant: a full channel drops the event instead of making the receiver wait.
ReceiveOrDrop(c) ==
  /\ link[c] # None
  /\ conns[link[c]].wire # <<>>
  /\ conns' = [conns EXCEPT ![link[c]].wire = Tail(@)]
  /\ channel' = IF Len(channel[c]) < ChannelCapacity
                   THEN [channel EXCEPT ![c] = Append(@, Head(conns[link[c]].wire))]
                   ELSE channel
  /\ UNCHANGED <<tableVars, dispatcherVars, subscribers, link, lastSequence, failures>>

\* ProcessMessageAsync: what is consumed already is dropped, the rest waits for
\* room in the channel.
Receive(c) ==
  /\ link[c] # None
  /\ conns[link[c]].wire # <<>>
  /\ LET s == Head(conns[link[c]].wire) IN
       IF s <= lastSequence[c]
         THEN UNCHANGED channel
         ELSE /\ Len(channel[c]) < ChannelCapacity
              /\ channel' = [channel EXCEPT ![c] = Append(@, s)]
  /\ conns' = [conns EXCEPT ![link[c]].wire = Tail(@)]
  /\ UNCHANGED <<tableVars, dispatcherVars, subscribers, link, lastSequence, failures>>

\* ConsumeAsync: an event that is not after the last one consumed is dropped.
Consume(c) ==
  /\ channel[c] # <<>>
  /\ channel' = [channel EXCEPT ![c] = Tail(@)]
  /\ lastSequence' = IF Head(channel[c]) <= lastSequence[c]
                       THEN lastSequence
                       ELSE [lastSequence EXCEPT ![c] = Head(channel[c])]
  /\ UNCHANGED <<tableVars, dispatcherVars, subscribers, conns, link, failures>>

\* The client is without its connection; the channel stays.
Unlink(c) ==
  /\ link[c] # None
  /\ link' = [link EXCEPT ![c] = None]
  /\ conns' = [conns EXCEPT ![link[c]].wire = <<>>]
  /\ UNCHANGED <<tableVars, dispatcherVars, subscribers, channel, lastSequence>>

\* The client gives up a connection: no Pong in time, or a broken socket.
Disconnect(c) ==
  /\ failures < MaxFailures
  /\ failures' = failures + 1
  /\ Unlink(c)

\* The client sees that the server has closed the connection.
NoticeClose(c) ==
  /\ link[c] # None
  /\ conns[link[c]].phase = "closed"
  /\ Unlink(c)
  /\ UNCHANGED failures

-----------------------------------------------------------------------------
Init ==
  /\ claimedIn = <<>>
  /\ delivered = {}
  /\ serverRun = 0
  /\ staleBefore = 0
  /\ batch = {}
  /\ putting = {}
  /\ subscribers = {}
  /\ conns = <<>>
  /\ link = [c \in Clients |-> None]
  /\ channel = [c \in Clients |-> <<>>]
  /\ lastSequence = [c \in Clients |-> 0]
  /\ failures = 0

DispatcherStep == Claim \/ Acknowledge \/ \E k \in DOMAIN conns : Put(k)

HandlerStep(k) ==
  \/ Subscribe(k) \/ LoadPage(k) \/ SendReplay(k) \/ SendLive(k) \/ CloseHandler(k)

ClientStep(c) == Connect(c) \/ Receive(c) \/ Consume(c) \/ NoticeClose(c)

Failure ==
  \/ Restart
  \/ \E k \in DOMAIN conns : BreakConnection(k)
  \/ \E c \in Clients : Disconnect(c)

Next ==
  \/ \E n \in 1..MaxEvents : AppendEvents(n)
  \/ ClaimsGetStale
  \/ DispatcherStep
  \/ \E k \in DOMAIN conns : HandlerStep(k)
  \/ \E c \in Clients : ClientStep(c)
  \/ Failure

Spec == Init /\ [][Next]_vars

\* The event loop runs every task that can go on, a client that is not connected
\* tries again, and a minute passes.  Nothing makes events or failures happen.
Fairness ==
  /\ WF_vars(ClaimsGetStale)
  /\ WF_vars(Claim) /\ WF_vars(Acknowledge)
  /\ \A k \in ConnIds : /\ WF_vars(k \in DOMAIN conns /\ Put(k))
                        /\ WF_vars(k \in DOMAIN conns /\ HandlerStep(k))
  /\ \A c \in Clients : /\ WF_vars(Connect(c))
                        /\ WF_vars(Receive(c))
                        /\ WF_vars(Consume(c))
                        /\ WF_vars(NoticeClose(c))

FairSpec == Spec /\ Fairness

-----------------------------------------------------------------------------
(***************************************************************************)
(* Properties                                                              *)
(***************************************************************************)

\* The types of the table, the dispatcher, the connections and the clients.
DeliveryTypeOK ==
  /\ claimedIn \in Seq(0..MaxFailures \cup {None})
  /\ Len(claimedIn) <= MaxEvents
  /\ delivered \subseteq Rows
  /\ serverRun \in 0..MaxFailures
  /\ staleBefore \in 0..serverRun
  /\ batch \subseteq Rows
  /\ conns \in Seq(Connections)
  /\ Len(conns) <= MaxConns
  /\ subscribers \subseteq DOMAIN conns
  /\ putting \subseteq DOMAIN conns
  /\ link \in [Clients -> ConnIds \cup {None}]
  /\ channel \in [Clients -> Seq(Events)]
  /\ lastSequence \in [Clients -> 0..MaxEvents]
  /\ failures \in 0..MaxFailures

\* An acknowledged event has reached every live connection: it was sent on it
\* or is on its way, however late the connection came and whatever the claims
\* of a dead server held back (dispatcher.py:33-35, events.py:49-62).
AcknowledgedReachesConnections ==
  \A s \in delivered, k \in subscribers :
    conns[k].phase = "sending" /\ s > conns[k].sent =>
      s \in conns[k].page \/ \E i \in DOMAIN conns[k].queue : conns[k].queue[i] = s

\* Every desktop applies the log in order, without gaps and without repeats,
\* over lost connections and server crashes.
Log == INSTANCE EventLog WITH length <- Len(claimedIn), applied <- lastSequence
ImplementsLog == Log!Spec

\* publish waits for room in a full queue whose handler has ended: it waits until
\* the server starts again.
WaitsForNobody ==
  \E k \in putting :
    conns[k].phase = "closed" /\ Len(conns[k].queue) = QueueCapacity

\* Every event reaches every desktop at last, unless publish waits for nobody:
\* queue, socket and channel may all be full at once, each holding the one before
\* it up, and yet go on (broker.py:32-38, events.py:58-66,
\* EventStreamClient.cs:190-217).
EventsReachClients ==
  <>[]WaitsForNobody \/ \A c \in Clients, s \in Events :
                           s \in Rows ~> lastSequence[c] >= s

\* Every event is delivered at last, also one that a dead server had claimed,
\* unless publish waits for nobody (outbox.py:102-134, dispatcher.py:29-52).
EventsAreDelivered ==
  <>[]WaitsForNobody \/ \A s \in Events : s \in Rows ~> s \in delivered

-----------------------------------------------------------------------------
(***************************************************************************)
(* What the documents say and the code does not do                         *)
(***************************************************************************)

\* No event is lost to a desktop that has been away: it gets the events it has
\* missed, each of them (phase 2 design:47, 98).
NothingIsSkipped ==
  [][\A c \in Clients : lastSequence'[c] <= lastSequence[c] + 1]_vars

\* However full the queues get, no event is lost to a desktop (broker.py:33).
EveryEventArrives ==
  \A c \in Clients, s \in Events : s \in Rows ~> lastSequence[c] >= s
=============================================================================
