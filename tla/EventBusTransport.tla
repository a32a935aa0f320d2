--------------------------- MODULE EventBusTransport ---------------------------
(***************************************************************************)
(* transport/eventbus_transport.py over EventBusClients, which are external  *)
(* and modelled by what the transport expects of them: each of their calls    *)
(* may time out, and messages reach the topics that they are bound to.       *)
(*                                                                          *)
(* start subscribes the topics of a dictionary one by one, each in up to ten   *)
(* seconds, and says that it has started only then; handlers are registered    *)
(* by other threads at any time.  What fails inside a subscription, a send or  *)
(* a stop is logged and goes no further; start and a send without a            *)
(* connection raise.                                                        *)
(***************************************************************************)
CONSTANT Topics

VARIABLES
  client,           \* _client: none, one that does not connect, or a connected one
  transportStarted, \* _started
  handlers,         \* topics in _handlers
  subscriptions,    \* topics in _subscriptions
  bound,            \* topics that the client consumes
  abandoned,        \* topics that clients of failed starts go on consuming
  starting,         \* how far start is with the subscriptions
  registering,      \* where another thread is in register_handler
  missed,           \* topics whose subscription has failed since the client connected
  unheard           \* topics given up by a stop, or registered as start ended

busVars == <<client, transportStarted, handlers, subscriptions, bound, abandoned,
             starting, registering, missed, unheard>>

NotStarting == [at |-> "no"]
NoRegistration == [op |-> "none"]

BusInit(topics) ==
  /\ client = "none"
  /\ transportStarted = FALSE
  /\ handlers = topics
  /\ subscriptions = {} /\ bound = {} /\ abandoned = {}
  /\ starting = NotStarting
  /\ registering = NoRegistration
  /\ missed = {} /\ unheard = {}

\* _subscribe_topic, with the client there is now: a failure is logged only.
Subscribe(topic) ==
  \/ /\ client = "connected"
     /\ subscriptions' = subscriptions \cup {topic}
     /\ bound' = bound \cup {topic}
     /\ UNCHANGED missed
  \/ /\ missed' = missed \cup {topic}
     /\ UNCHANGED <<subscriptions, bound>>

-----------------------------------------------------------------------------
\* register_handler, from any thread.  The handler is kept ...
RegisterHandler(topic) ==
  /\ registering = NoRegistration
  /\ handlers' = handlers \cup {topic}
  /\ registering' = [op |-> "kept", topic |-> topic]
  /\ unheard' = IF starting.at = "subscribed" THEN unheard \cup {topic} ELSE unheard
  /\ UNCHANGED <<client, transportStarted, subscriptions, bound, abandoned, starting, missed>>

\* Mutant: the topic is subscribed at the next start.
TestStartedLater ==
  /\ registering.op = "kept"
  /\ registering' = NoRegistration
  /\ UNCHANGED <<client, transportStarted, handlers, subscriptions, bound, abandoned, starting,
                 missed, unheard>>

\* ... and on a transport that says it is started the topic is to be subscribed
TestStarted ==
  /\ registering.op = "kept"
  /\ registering' = IF client # "none" /\ transportStarted
                    THEN [registering EXCEPT !.op = "subscribe"] ELSE NoRegistration
  /\ UNCHANGED <<client, transportStarted, handlers, subscriptions, bound, abandoned, starting,
                 missed, unheard>>

\* ... now, whatever has become of the transport meanwhile.
SubscribeLate ==
  /\ registering.op = "subscribe"
  /\ Subscribe(registering.topic)
  /\ registering' = NoRegistration
  /\ UNCHANGED <<client, transportStarted, handlers, abandoned, starting, unheard>>

-----------------------------------------------------------------------------
\* A new client takes the place of one that a failed start has left, which goes on.
NewClient(state) ==
  /\ client' = state
  /\ bound' = {}
  /\ abandoned' = abandoned \cup bound

\* start: nothing on a started transport; otherwise a new client that connects, and the
\* iteration over the handlers begins ...
Connect ==
  /\ ~transportStarted
  /\ NewClient("connected")
  /\ starting' = [at |-> "subscribing", topics |-> handlers, left |-> handlers]
  /\ missed' = {} /\ unheard' = {}
  /\ UNCHANGED <<transportStarted, handlers, subscriptions, registering>>

\* ... or raises, before the client exists or after: it is kept then, and its loop with it.
ConnectFails ==
  /\ ~transportStarted
  /\ NewClient("unconnected") \/ UNCHANGED <<client, bound, abandoned>>
  /\ UNCHANGED <<transportStarted, handlers, subscriptions, starting, registering, missed, unheard>>

\* One topic of the iteration is subscribed ...
SubscribeNext ==
  /\ starting.at = "subscribing" /\ handlers = starting.topics
  /\ \E topic \in starting.left :
       /\ Subscribe(topic)
       /\ starting' = [starting EXCEPT !.left = @ \ {topic}]
  /\ UNCHANGED <<client, transportStarted, handlers, abandoned, registering, unheard>>

\* ... the iteration ends ...
EndSubscribing ==
  /\ starting.at = "subscribing" /\ handlers = starting.topics
  /\ starting.left = {}
  /\ starting' = [at |-> "subscribed"]
  /\ UNCHANGED <<client, transportStarted, handlers, subscriptions, bound, abandoned,
                 registering, missed, unheard>>

\* ... or finds that the dictionary has grown ("dictionary changed size during
\* iteration"): start raises, and leaves a client that consumes some of the topics.
StartBreaks ==
  /\ starting.at = "subscribing" /\ handlers # starting.topics
  /\ starting' = NotStarting
  /\ UNCHANGED <<client, transportStarted, handlers, subscriptions, bound, abandoned,
                 registering, missed, unheard>>

\* Only then the transport is started.
BusStarts ==
  /\ starting.at = "subscribed"
  /\ transportStarted' = TRUE
  /\ starting' = NotStarting
  /\ UNCHANGED <<client, handlers, subscriptions, bound, abandoned, registering, missed, unheard>>

-----------------------------------------------------------------------------
\* stop: the subscriptions are given up, whatever the broker answers ...
Unsubscribe ==
  /\ transportStarted
  /\ \E kept \in SUBSET subscriptions : bound' = bound \ (subscriptions \ kept)
  /\ unheard' = unheard \cup subscriptions
  /\ subscriptions' = {}
  /\ UNCHANGED <<client, transportStarted, handlers, abandoned, starting, registering, missed>>

\* ... and the client is closed
CloseClient ==
  /\ client' = "none"
  /\ bound' = {}
  /\ transportStarted' = FALSE
  /\ UNCHANGED <<handlers, subscriptions, abandoned, starting, registering, missed, unheard>>

\* The client is kept, closed or not.
KeepClient ==
  /\ bound' \in {bound, {}}
  /\ unheard' = unheard \cup (bound \ bound')
  /\ UNCHANGED <<transportStarted, handlers, subscriptions, abandoned, starting, registering,
                 missed>>

\* Mutant: the client is let go although its close failed.
CloseFailsForgets == KeepClient /\ client' = "none"

\* ... or that fails: the transport stays started, without subscriptions.
CloseFails == KeepClient /\ UNCHANGED client

-----------------------------------------------------------------------------
\* send and send_async raise without a connection of a started transport.
CanSend == client # "none" /\ transportStarted

\* A message on a topic reaches the handler while a client is bound to it.
Hears(topic) == (client = "connected" /\ topic \in bound) \/ topic \in abandoned

\* The loop of a second client calls the handler, too; two that were left count as one.
HearsTwice(topic) == client = "connected" /\ topic \in bound \cap abandoned

BusTyped ==
  /\ client \in {"none", "unconnected", "connected"}
  /\ transportStarted \in BOOLEAN
  /\ handlers \subseteq Topics
  /\ bound \subseteq handlers /\ subscriptions \subseteq handlers /\ abandoned \subseteq handlers
  /\ missed \subseteq handlers /\ unheard \subseteq handlers
  /\ starting \in [at : {"no", "subscribed"}]
                  \cup [at : {"subscribing"}, topics : SUBSET handlers, left : SUBSET handlers]
  /\ registering \in [op : {"none"}] \cup [op : {"kept", "subscribe"}, topic : handlers]
  /\ transportStarted \/ starting # NotStarting => client = "connected"
================================================================================
