----------------------------- MODULE ZmqTransport -----------------------------
(***************************************************************************)
(* transport/zmq_transport.py: one transport per node, all through the      *)
(* XSUB/XPUB broker that the hub's transport hosts.  Every start of a        *)
(* transport creates a new ZmqAsyncClient with an event loop on a thread of  *)
(* its own.  Sockets are used on the loop only: a send from another thread   *)
(* is scheduled there and waited for with a timeout.  The subscriber, and    *)
(* with it every handler, runs on the same loop, so a handler that sends     *)
(* waits for the loop it blocks, until the timeout.  The subscriber gives    *)
(* the loop back only when it finds no message waiting.                     *)
(*                                                                          *)
(* A stop that does not see the loop's thread end in time goes on without    *)
(* it, and a start after it runs a second client beside the old one.         *)
(* ZeroMQ delivers the messages of a socket in order or loses them; its      *)
(* sockets close without delay.  Topics are matched as a whole.              *)
(***************************************************************************)
EXTENDS Sequences, SequencesExt, FiniteSets, Integers

CONSTANTS Nodes, Hub,     \* the nodes, and the one that starts the broker
          Topics,
          MaxStarts,      \* bound on the starts of one transport
          MaxInputs       \* bound on registrations, starts, stops and sends together;
                          \* what nodes outside the model send is not bounded

ASSUME ZmqAssumptions == Hub \in Nodes /\ MaxStarts \in Nat /\ MaxInputs \in Nat

Threads == {"app", "worker"}   \* threads that call the transport of a node

VARIABLES
  brokerRunning,    \* ZmqBroker._running of the hub's broker
  handlers,         \* per node: ZmqTransport._handlers, the topics
  client,           \* per node: the number of its _client, 0 for None
  started,          \* per node: how many clients it has created
  calls,            \* per node and thread: the call it is in
  running,          \* per client from here: _running
  stage,            \* how far its _async_main is
  subscriber,       \* whether _subscriber_loop goes on
  topics,           \* _subscribed_topics
  subscribed,       \* what the SUB socket is subscribed to
  scheduled,        \* coroutines handed to its loop, in order
  inbound,          \* messages of these nodes at its SUB socket
  others,           \* whether one of other nodes waits there too
  handling,         \* the handler that runs on its loop, if any
  sends,            \* how many sends were handed to its loop
  delivered,        \* per client and sender: the last message a handler was called with
  inputs

nodeVars == <<brokerRunning, handlers, client, started, calls>>
loopVars == <<running, stage, subscriber, topics, subscribed, scheduled, inbound,
              others, handling, sends>>
histVars == <<delivered, inputs>>
vars == <<nodeVars, loopVars, histVars>>

Clients == Nodes \X (1..MaxStarts)
Of(n) == <<n, client[n]>>       \* the current client of a node, if it has one

Message == [from : Clients, number : 1..MaxInputs, topic : Topics]
Nothing == [op |-> "none"]

ZmqInit ==
  /\ brokerRunning = FALSE
  /\ handlers \in [Nodes -> SUBSET Topics]
  /\ client = [n \in Nodes |-> 0]
  /\ started = [n \in Nodes |-> 0]
  /\ calls = [n \in Nodes |-> [t \in Threads |-> Nothing]]
  /\ running = [c \in Clients |-> FALSE]
  /\ stage = [c \in Clients |-> "none"]
  /\ subscriber = [c \in Clients |-> FALSE]
  /\ topics = [c \in Clients |-> {}]
  /\ subscribed = [c \in Clients |-> {}]
  /\ scheduled = [c \in Clients |-> <<>>]
  /\ inbound = [c \in Clients |-> <<>>]
  /\ others = [c \in Clients |-> FALSE]
  /\ handling = [c \in Clients |-> Nothing]
  /\ sends = [c \in Clients |-> 0]
  /\ delivered = [c \in Clients |-> [d \in Clients |-> 0]]
  /\ inputs = 0

Input == inputs < MaxInputs /\ inputs' = inputs + 1

-----------------------------------------------------------------------------
\* Handlers and topics.

\* ZmqTransport.register_handler: the handler is kept, and a client that is there takes
\* the topic over.
RegisterHandler(n, t, topic) ==
  /\ Input
  /\ calls[n][t] = Nothing
  /\ handlers' = [handlers EXCEPT ![n] = @ \cup {topic}]
  /\ calls' = [calls EXCEPT ![n][t] =
       IF client[n] = 0 THEN Nothing
       ELSE [op |-> "register", topic |-> topic, client |-> client[n], added |-> FALSE]]
  /\ UNCHANGED <<brokerRunning, client, started, loopVars, delivered>>

\* ZmqAsyncClient.register_topic: into the set, where a new topic overtakes a loop that
\* iterates over it ...
RegisterTopic(n, t) ==
  /\ calls[n][t].op = "register" /\ ~calls[n][t].added
  /\ calls' = [calls EXCEPT ![n][t].added = TRUE]
  /\ LET c == <<n, calls[n][t].client>> IN
       /\ topics' = [topics EXCEPT ![c] = @ \cup {calls[n][t].topic}]
       /\ stage' = IF stage[c] = "subscribing" /\ calls[n][t].topic \notin topics[c]
                   THEN [stage EXCEPT ![c] = "overtaken"] ELSE stage
  /\ UNCHANGED <<brokerRunning, handlers, client, started, running, subscriber, subscribed,
                 scheduled, inbound, others, handling, sends, histVars>>

\* Mutant: a topic is subscribed late only once start has seen the loop ready.
HasSubSocketReady(c) == stage[c] = "open"

\* _sub_socket is set, on a loop that is not closed: on a closed one the call raises.
HasSubSocket(c) ==
  stage[c] \in {"socket", "subscribing", "overtaken", "connected", "open", "closing"}

\* ... and with a SUB socket the subscription is scheduled on the loop; before, the loop
\* will find the topic in the set.
SubscribeLate(n, t) ==
  /\ calls[n][t].op = "register" /\ calls[n][t].added
  /\ LET c == <<n, calls[n][t].client>> IN
       scheduled' = IF HasSubSocket(c) /\ running[c]
                    THEN [scheduled EXCEPT ![c] =
                            Append(@, [op |-> "subscribe", topic |-> calls[n][t].topic])]
                    ELSE scheduled
  /\ calls' = [calls EXCEPT ![n][t] = Nothing]
  /\ UNCHANGED <<brokerRunning, handlers, client, started, running, stage, subscriber, topics,
                 subscribed, inbound, others, handling, sends, histVars>>

-----------------------------------------------------------------------------
\* Starting and stopping a transport.

\* Mutant: a transport that is started starts again.
StartableAgain(n) == started[n] < MaxStarts

\* start does nothing to a transport that is _started: one whose start got as far as
\* the loop.  Its broker, each time a new one, cannot bind while an earlier one runs.
HasStarted(n) == client[n] # 0 /\ stage[Of(n)] # "none"
Startable(n) == ~HasStarted(n) /\ started[n] < MaxStarts /\ (n = Hub => ~brokerRunning)

\* ZmqBroker.start and stop, by the transport that hosts it.
BrokerStarts(n) == brokerRunning' = (brokerRunning \/ n = Hub)
BrokerStops(n) == brokerRunning' = (brokerRunning /\ n # Hub)

\* ZmqTransport.start: the broker, and a client; the topics so far are next.
Start(n) ==
  /\ Input
  /\ calls[n]["app"] = Nothing
  /\ Startable(n)
  /\ BrokerStarts(n)
  /\ started' = [started EXCEPT ![n] = @ + 1]
  /\ client' = [client EXCEPT ![n] = started[n] + 1]
  /\ calls' = [calls EXCEPT ![n]["app"] = [op |-> "copy", topics |-> handlers[n]]]
  /\ UNCHANGED <<handlers, loopVars, delivered>>

\* ZmqAsyncClient.start, once the topics are copied, with or without one that another
\* thread has registered meanwhile: the loop's thread begins, the caller waits for _ready.
StartClient(n) ==
  /\ calls[n]["app"].op = "copy"
  /\ \E copied \in {calls[n]["app"].topics, handlers[n]} :
       topics' = [topics EXCEPT ![Of(n)] = @ \cup copied]
  /\ running' = [running EXCEPT ![Of(n)] = TRUE]
  /\ stage' = [stage EXCEPT ![Of(n)] = "begun"]
  /\ calls' = [calls EXCEPT ![n]["app"] = [op |-> "start"]]
  /\ UNCHANGED <<brokerRunning, handlers, client, started, subscriber, subscribed, scheduled,
                 inbound, others, handling, sends, histVars>>

\* ... or the dictionary has grown while it was iterated, and start raises: the client
\* is there, but never started.
CopyFails(n) ==
  /\ calls[n]["app"].op = "copy" /\ calls[n]["app"].topics # handlers[n]
  /\ calls' = [calls EXCEPT ![n]["app"] = Nothing]
  /\ UNCHANGED <<brokerRunning, handlers, client, started, loopVars, histVars>>

\* A step of _async_main; what waits at the sockets is gone when the loop ends.
MainGoesOn(c, from, to) ==
  /\ stage[c] = from
  /\ stage' = [stage EXCEPT ![c] = to]
  /\ others' = [others EXCEPT ![c] = @ /\ to # "closed"]
  /\ UNCHANGED <<nodeVars, running, topics, handling, sends, histVars>>

\* _async_main: the SUB socket, from here on visible to register_topic ...
OpenSubSocket(c) ==
  MainGoesOn(c, "begun", "socket") /\ UNCHANGED <<subscriber, subscribed, scheduled, inbound>>

\* ... subscribed to the topics of the set, one by one ...
BeginSubscribing(c) ==
  MainGoesOn(c, "socket", "subscribing") /\ UNCHANGED <<subscriber, subscribed, scheduled, inbound>>

SubscribeNext(c) ==
  /\ MainGoesOn(c, "subscribing", "subscribing")
  /\ \E topic \in topics[c] \ subscribed[c] :
       subscribed' = [subscribed EXCEPT ![c] = @ \cup {topic}]
  /\ UNCHANGED <<subscriber, scheduled, inbound>>

EndSubscribing(c) ==
  /\ MainGoesOn(c, "subscribing", "connected")
  /\ topics[c] \subseteq subscribed[c]
  /\ UNCHANGED <<subscriber, subscribed, scheduled, inbound>>

\* ... unless the set has changed meanwhile ("Set changed size during iteration"): then
\* _run_loop closes the loop, with all that is scheduled, and _ready is never set.
BreakLoop(c) ==
  /\ MainGoesOn(c, "overtaken", "closed")
  /\ scheduled' = [scheduled EXCEPT ![c] = <<>>]
  /\ UNCHANGED <<subscriber, subscribed, inbound>>

\* Then the PUB socket and the subscriber's task, and _ready is set.
OpenPubSocket(c) ==
  /\ MainGoesOn(c, "connected", "open")
  /\ subscriber' = [subscriber EXCEPT ![c] = running[c]]
  /\ UNCHANGED <<subscribed, scheduled, inbound>>

\* start goes on: the sockets are ready, or five seconds are over.
StartReturns(n) ==
  /\ calls[n]["app"].op = "start"
  /\ calls' = [calls EXCEPT ![n]["app"] = Nothing]
  /\ UNCHANGED <<brokerRunning, handlers, client, started, loopVars, histVars>>

\* ZmqTransport.stop, into ZmqAsyncClient.stop: the loop is told to end.
Stop(n) ==
  /\ Input
  /\ calls[n]["app"] = Nothing
  /\ HasStarted(n)
  /\ running' = [running EXCEPT ![Of(n)] = FALSE]
  /\ calls' = [calls EXCEPT ![n]["app"] = [op |-> "stop"]]
  /\ UNCHANGED <<brokerRunning, handlers, client, started, stage, subscriber, topics, subscribed,
                 scheduled, inbound, others, handling, sends, delivered>>

\* The thread has ended, or is in a handler or still starting after two seconds.
StopReturns(n) ==
  /\ calls[n]["app"].op = "stop"
  /\ \/ stage[Of(n)] \in {"closed", "begun", "socket", "subscribing", "overtaken", "connected"}
     \/ handling[Of(n)] # Nothing
  /\ client' = [client EXCEPT ![n] = 0]
  /\ BrokerStops(n)
  /\ calls' = [calls EXCEPT ![n]["app"] = Nothing]
  /\ UNCHANGED <<handlers, started, loopVars, histVars>>

\* _async_main wakes up, sees the stop and cancels the subscriber.
BeginClosing(c) ==
  /\ ~running[c] /\ handling[c] = Nothing
  /\ MainGoesOn(c, "open", "closing")
  /\ subscriber' = [subscriber EXCEPT ![c] = FALSE]
  /\ UNCHANGED <<subscribed, scheduled, inbound>>

\* ... and closes the sockets: what is still scheduled is dropped with the loop.
EndClosing(c) ==
  /\ MainGoesOn(c, "closing", "closed")
  /\ scheduled' = [scheduled EXCEPT ![c] = <<>>]
  /\ inbound' = [inbound EXCEPT ![c] = <<>>]
  /\ UNCHANGED <<subscriber, subscribed>>

-----------------------------------------------------------------------------
\* Sends.

\* send, from a thread of its own: a transport without client raises.
Send(n, t, topic) ==
  /\ Input
  /\ calls[n][t] = Nothing
  /\ client[n] # 0
  /\ calls' = [calls EXCEPT ![n][t] = [op |-> "send", topic |-> topic]]
  /\ UNCHANGED <<brokerRunning, handlers, client, started, loopVars, delivered>>

NextMessage(c, topic) == [from |-> c, number |-> sends[c] + 1, topic |-> topic]

\* There is a client, told to run, and its loop is not closed.
CanSchedule(n) == client[n] # 0 /\ running[Of(n)] /\ stage[Of(n)] # "closed"

\* run_coroutine_threadsafe of _async_send
Schedule(c, topic) ==
  /\ sends' = [sends EXCEPT ![c] = @ + 1]
  /\ scheduled' = [scheduled EXCEPT ![c] = Append(@, [op |-> "send", message |-> NextMessage(c, topic)])]

\* send_message: the coroutine is scheduled and waited for.  The transport may have
\* been stopped in between, its thread may not have made the loop yet, or the loop is
\* closed: then the call raises or returns False at once.
SendMessage(n, t) ==
  /\ calls[n][t].op = "send"
  /\ \/ /\ CanSchedule(n)
        /\ Schedule(Of(n), calls[n][t].topic)
        /\ calls' = [calls EXCEPT ![n][t] =
             [op |-> "wait", message |-> NextMessage(Of(n), calls[n][t].topic), result |-> "none"]]
     \/ /\ CanSchedule(n) => stage[Of(n)] = "begun"
        /\ calls' = [calls EXCEPT ![n][t] = Nothing]
        /\ UNCHANGED <<sends, scheduled>>
  /\ UNCHANGED <<brokerRunning, handlers, client, started, running, stage, subscriber, topics,
                 subscribed, inbound, others, handling, histVars>>

\* future.result: True if the coroutine has run.
SendReturns(n, t) ==
  /\ calls[n][t].op = "wait" /\ calls[n][t].result # "none"
  /\ calls' = [calls EXCEPT ![n][t] = Nothing]
  /\ UNCHANGED <<brokerRunning, handlers, client, started, loopVars, histVars>>

\* ... or False after the timeout; what was scheduled stays scheduled.
SendTimesOut(n, t) ==
  /\ calls[n][t].op = "wait" /\ calls[n][t].result = "none"
  /\ calls' = [calls EXCEPT ![n][t] = Nothing]
  /\ UNCHANGED <<brokerRunning, handlers, client, started, loopVars, histVars>>

\* Who waits for the future of m finds it done, whether the message was sent or not.
Resolved(m, result) ==
  [n \in Nodes |-> [t \in Threads |->
     IF calls[n][t].op = "wait" /\ calls[n][t].message = m
     THEN [calls[n][t] EXCEPT !.result = result] ELSE calls[n][t]]]

LoopFree(c) == stage[c] \in {"begun", "connected", "open", "closing"} /\ handling[c] = Nothing

\* _subscribe, on the loop
RunSubscribe(c) ==
  /\ LoopFree(c) /\ scheduled[c] # <<>>
  /\ Head(scheduled[c]).op = "subscribe"
  /\ subscribed' = [subscribed EXCEPT ![c] = @ \cup {Head(scheduled[c]).topic}]
  /\ scheduled' = [scheduled EXCEPT ![c] = Tail(@)]
  /\ UNCHANGED <<nodeVars, running, stage, subscriber, topics, inbound, others, handling, sends, histVars>>

HasPubSocket(c) == stage[c] \in {"open", "closing"}

\* The broker's proxy and the sockets: who is subscribed gets the message, or not.
Publish(m) ==
  \E receivers \in SUBSET {c \in Clients : /\ brokerRunning
                                           /\ stage[c] \in {"connected", "open"}
                                           /\ m.topic \in subscribed[c]} :
    inbound' = [c \in Clients |-> IF c \in receivers THEN Append(inbound[c], m) ELSE inbound[c]]

\* _async_send, on the loop: it does nothing as long as there is no PUB socket.
RunSend(c) ==
  /\ LoopFree(c) /\ scheduled[c] # <<>>
  /\ Head(scheduled[c]).op = "send"
  /\ scheduled' = [scheduled EXCEPT ![c] = Tail(@)]
  /\ LET m == Head(scheduled[c]).message IN
       /\ calls' = Resolved(m, IF HasPubSocket(c) THEN "sent" ELSE "unsent")
       /\ IF HasPubSocket(c) THEN Publish(m) ELSE UNCHANGED inbound
  /\ UNCHANGED <<brokerRunning, handlers, client, started, running, stage, subscriber, topics,
                 subscribed, others, handling, sends, delivered, inputs>>

-----------------------------------------------------------------------------
\* Handlers, on the loop.

\* Other nodes send, as long as they like; the next message takes the place of one that
\* the subscriber has taken.
OthersPublish(c) ==
  /\ brokerRunning /\ stage[c] \in {"connected", "open"} /\ subscribed[c] # {}
  /\ ~others[c]
  /\ others' = [others EXCEPT ![c] = TRUE]
  /\ UNCHANGED <<nodeVars, running, stage, subscriber, topics, subscribed,
                 scheduled, inbound, handling, sends, histVars>>

\* A message is taken from the socket, and its handler begins.
TakeMessage(c) ==
  /\ \/ /\ inbound[c] # <<>>
        /\ inbound' = [inbound EXCEPT ![c] = Tail(@)]
        /\ delivered' = [delivered EXCEPT ![c][Head(inbound[c]).from] = Head(inbound[c]).number]
        /\ UNCHANGED others
     \/ /\ others[c]
        /\ others' = [others EXCEPT ![c] = FALSE]
        /\ UNCHANGED <<inbound, delivered>>
  /\ handling' = [handling EXCEPT ![c] = [op |-> "handle"]]

\* _subscriber_loop, awake again with a message.
Receive(c) ==
  /\ LoopFree(c) /\ subscriber[c]
  /\ TakeMessage(c)
  /\ UNCHANGED <<nodeVars, running, stage, subscriber, topics, subscribed,
                 scheduled, sends, inputs>>

\* Mutant: a send from the loop's own thread goes to the socket directly.
HandlerSendsNow(c, topic) ==
  /\ Input
  /\ handling[c].op = "handle"
  /\ client[c[1]] = c[2] /\ running[c]
  /\ sends' = [sends EXCEPT ![c] = @ + 1]
  /\ Publish(NextMessage(c, topic))
  /\ UNCHANGED <<nodeVars, running, stage, subscriber, topics, subscribed, scheduled,
                 others, handling, delivered>>

\* A handler sends.  On its own loop the coroutine cannot run before the handler has
\* given up waiting; send_async does not wait at all.
HandlerSends(c, topic) ==
  /\ Input
  /\ handling[c].op = "handle"
  /\ CanSchedule(c[1])
  /\ Schedule(Of(c[1]), topic)
  /\ \E waits \in BOOLEAN :
       handling' = [handling EXCEPT ![c].op = IF waits THEN "wait" ELSE "handle"]
  /\ UNCHANGED <<nodeVars, running, stage, subscriber, topics, subscribed, inbound, others,
                 delivered>>

\* Mutant: the send is waited for without a timeout.
HandlerSendWaits(c) ==
  /\ handling[c].op = "wait" /\ client[c[1]] # c[2]
  /\ handling' = [handling EXCEPT ![c].op = "handle"]
  /\ UNCHANGED <<nodeVars, running, stage, subscriber, topics, subscribed,
                 scheduled, inbound, others, sends, histVars>>

\* send_message in a handler returns: False after the timeout if the loop is its own.
HandlerSendReturns(c) ==
  /\ handling[c].op = "wait"
  /\ handling' = [handling EXCEPT ![c].op = "handle"]
  /\ UNCHANGED <<nodeVars, running, stage, subscriber, topics, subscribed,
                 scheduled, inbound, others, sends, histVars>>

\* Mutant: the subscriber goes on until it is cancelled.
HandlerReturnsAndGoesOn(c) ==
  /\ handling[c].op = "handle"
  /\ handling' = [handling EXCEPT ![c] = Nothing]
  /\ UNCHANGED <<nodeVars, running, stage, subscriber, topics, subscribed,
                 scheduled, inbound, others, sends, histVars>>

\* The handler returns, and the subscriber goes on unless the client was stopped: it
\* gives the loop back while it waits for a message ...
HandlerReturns(c) ==
  /\ handling[c].op = "handle"
  /\ handling' = [handling EXCEPT ![c] = Nothing]
  /\ subscriber' = [subscriber EXCEPT ![c] = running[c]]
  /\ UNCHANGED <<nodeVars, running, stage, topics, subscribed,
                 scheduled, inbound, others, sends, histVars>>

\* ... but neither the poll, whose future counts as true, nor the receipt of a message
\* that is there suspends it: then the next handler follows, and nothing else has run.
HandlerFollows(c) ==
  /\ handling[c].op = "handle" /\ running[c]
  /\ TakeMessage(c)
  /\ UNCHANGED <<nodeVars, running, stage, subscriber, topics, subscribed,
                 scheduled, sends, inputs>>

-----------------------------------------------------------------------------
NodeNext ==
  \E n \in Nodes :
    \/ Start(n) \/ StartClient(n) \/ CopyFails(n) \/ StartReturns(n) \/ Stop(n) \/ StopReturns(n)
    \/ \E t \in Threads :
         \/ RegisterTopic(n, t) \/ SubscribeLate(n, t)
         \/ SendMessage(n, t) \/ SendReturns(n, t) \/ SendTimesOut(n, t)
         \/ \E topic \in Topics : RegisterHandler(n, t, topic) \/ Send(n, t, topic)

Subscribes(c) == OpenSubSocket(c) \/ BeginSubscribing(c) \/ SubscribeNext(c) \/ EndSubscribing(c)
Main(c) == Subscribes(c) \/ BreakLoop(c) \/ OpenPubSocket(c) \/ BeginClosing(c) \/ EndClosing(c)
Coroutine(c) == RunSubscribe(c) \/ RunSend(c)
HandlerGoesOn(c) == HandlerSendReturns(c) \/ HandlerReturns(c) \/ HandlerFollows(c)

Next ==
  \/ NodeNext
  \/ \E c \in Clients :
       \/ Main(c) \/ Coroutine(c) \/ Receive(c) \/ HandlerGoesOn(c) \/ OthersPublish(c)
       \/ \E topic \in Topics : HandlerSends(c, topic)

ZmqSpec == ZmqInit /\ [][Next]_vars

\* Waits end at their timeouts, and handlers return.  A loop runs what is ready in the
\* order in which it became so: whoever is ready again and again when the subscriber has
\* given the loop back gets his turn, and nobody does while it goes from one message to
\* the next.
ZmqFairSpec ==
  /\ ZmqSpec
  /\ \A c \in Clients : WF_vars(Main(c)) /\ SF_vars(Coroutine(c)) /\ WF_vars(HandlerGoesOn(c))

-----------------------------------------------------------------------------
Coroutines == [op : {"subscribe"}, topic : Topics] \cup [op : {"send"}, message : Message]
Calls == [op : {"none", "start", "stop"}] \cup [op : {"copy"}, topics : SUBSET Topics]
         \cup [op : {"register"}, topic : Topics, client : 1..MaxStarts, added : BOOLEAN]
         \cup [op : {"send"}, topic : Topics]
         \cup [op : {"wait"}, message : Message, result : {"none", "sent", "unsent"}]
Stages == {"none", "begun", "socket", "subscribing", "overtaken", "connected", "open",
           "closing", "closed"}

\* The state is of the types the code gives it, a node's client is the last it made,
\* and no other client of the node is running.
ZmqTyped ==
  /\ brokerRunning \in BOOLEAN
  /\ handlers \in [Nodes -> SUBSET Topics]
  /\ client \in [Nodes -> 0..MaxStarts] /\ started \in [Nodes -> 0..MaxStarts]
  /\ \A n \in Nodes : client[n] \in {0, started[n]}
  /\ calls \in [Nodes -> [Threads -> Calls]]
  /\ \A c \in Clients : running[c] => client[c[1]] = c[2]
  /\ running \in [Clients -> BOOLEAN] /\ subscriber \in [Clients -> BOOLEAN]
  /\ stage \in [Clients -> Stages]
  /\ topics \in [Clients -> SUBSET Topics] /\ subscribed \in [Clients -> SUBSET Topics]
  /\ scheduled \in [Clients -> Seq(Coroutines)] /\ inbound \in [Clients -> Seq(Message)]
  /\ others \in [Clients -> BOOLEAN]
  /\ handling \in [Clients -> [op : {"none", "handle", "wait"}]]
  /\ sends \in [Clients -> 0..MaxInputs]
  /\ delivered \in [Clients -> [Clients -> 0..MaxInputs]]
  /\ inputs \in 0..MaxInputs

\* Handlers see the messages of a client in the order in which the sends were called,
\* whichever threads called them and whatever they returned; messages may be missing.
InOrder ==
  [][\A c, d \in Clients :
       delivered'[c][d] # delivered[c][d] => delivered'[c][d] > delivered[c][d]]_vars

\* A thread that registers the topic with the client has not come to the SUB socket yet.
Registering(c, topic) ==
  \E t \in Threads : LET call == calls[c[1]][t] IN
    call.op = "register" /\ call.topic = topic /\ call.client = c[2] /\ call.added

\* Every topic in the set of a client that has made its subscriptions and is not told to
\* stop is subscribed, or its subscription is scheduled, or the registration is about to
\* do so, at whichever step of the start a registration of another thread has come.  It
\* is lost only with the loop that it breaks by coming between two subscriptions.
RegisteredIsSubscribed ==
  \A c \in Clients : stage[c] \in {"connected", "open"} /\ running[c] =>
    \A topic \in topics[c] :
      \/ topic \in subscribed[c]
      \/ [op |-> "subscribe", topic |-> topic] \in ToSet(scheduled[c])
      \/ Registering(c, topic)

\* A client's loop ends only when stop tells it to ("If already running, subscribe now",
\* zmq_transport.py:343, is no reason): refuted, a new topic breaks the loop that is
\* about to iterate further over the set.
OnlyStopEnds == \A c \in Clients : stage[c] = "closed" => ~running[c]

\* After stop has returned no handler begins any more, also where the join timed out.
NoHandlerAfterStop ==
  [][\A c \in Clients : delivered'[c] # delivered[c] => client[c[1]] = c[2]]_vars

\* What is scheduled on an open loop is run, unless the client is stopped.
RunsScheduled(c) == (HasPubSocket(c) /\ scheduled[c] # <<>>) ~> (scheduled[c] = <<>> \/ ~running[c])

\* The subscriber has the loop for good: every time it asks for a message there is one.
NeverYields(c) == <>[](handling[c] # Nothing) /\ []<><<HandlerFollows(c)>>_vars

\* What is scheduled is run unless messages come so fast that the subscriber never waits
\* for one: a handler that waits for its own loop does not block it for good.
ScheduledIsRun == \A c \in Clients : NeverYields(c) \/ RunsScheduled(c)

\* The same without the exception: refuted by messages of other nodes that never stop.
ScheduledIsAlwaysRun == \A c \in Clients : RunsScheduled(c)

\* send_message, "True if sent successfully" (transport/zmq_transport.py:511): no
\* caller is told so of a message that was given to no socket.
TrueMeansSent == \A n \in Nodes : \A t \in Threads : calls[n][t].op = "wait" => calls[n][t].result # "unsent"
=============================================================================
