-------------------------------- MODULE Client --------------------------------
(***************************************************************************)
(* ProcessHub/runtime/client.py: panels that send requests to the hub, each  *)
(* watched by a thread that calls on_server_timeout when nothing is heard,  *)
(* with the callbacks that an application connects (client_controller.py),   *)
(* together with the handlers of runtime/server.py that answer them and the *)
(* table of connections behind these.                                       *)
(*                                                                          *)
(* A client has the application's thread, the transport's thread that runs  *)
(* the response handlers and the application's callbacks, and one watcher   *)
(* per request, all on one wait event.  The server has the transport's      *)
(* thread, which serves one request at a time, a thread that may reset the  *)
(* hub, and one that notifies panels of a restart.  Every client receives   *)
(* all responses, in the order they are sent, and picks its own; a message  *)
(* may be lost.  What start and stop requests do to processes, and when a   *)
(* restart is complete, is the subject of HubCore.                          *)
(***************************************************************************)
EXTENDS ConnectionTable, Sequences, Naturals

\* ClientEvent, the actions of a ClientController
ClientEvents ==
  {"connection_registered", "connection_unregistered", "connection_info",
   "process_started", "process_stopped", "process_killed", "process_restarted",
   "restart_failed", "server_timeout", "server_shutdown"}

CONSTANTS Listening,      \* the events that the application has connected a callback to
          MaxInputs       \* bound on requests, notifications, resets, client
                          \* starts and stops and lost messages, taken together

ASSUME ClientAssumptions == Listening \subseteq ClientEvents /\ MaxInputs \in Nat

\* "use" is a request for the connections, a start or a stop: each is answered once
\* if the panel is registered, and the client does the same with every answer.
Requests == {"register", "unregister", "ready", "use"}
Answers == {"register", "unregister", "use"}
Messages == [kind : Answers \cup {"notify", "done", "shutdown"}, panel : Panels]
ClientThreads == {"app", "callback"}

VARIABLES
  isRegistered,     \* _is_registered
  running,          \* the client and its transport are started
  waitEvent,        \* _wait_event
  watchers,         \* per request, in order: how far its watcher is
  sending,          \* per thread: the request it is about to send, if any
  handling,         \* the response whose handler runs, or its callback, if any
  requests,         \* per panel: its requests on their way to the server
  responses,        \* per client: messages on their way to it
  serving,          \* the request that the server's transport thread serves
  resetting,        \* reset: the panels listed, and how far it is
  settled,          \* since the last request: a message came, or stop gave it up
  disturbed,        \* panels a loss, a stop or a reset under way came across
  inputs            \* how many inputs there were

clientVars == <<isRegistered, running, waitEvent, watchers, sending, handling>>
netVars == <<requests, responses>>
serverVars == <<serving, resetting>>
histVars == <<settled, disturbed, inputs>>
vars == <<tableVars, clientVars, netVars, serverVars, histVars>>

Nothing == "nothing"
Idle == [kind |-> Nothing]

ClientInit ==
  /\ TableInit
  /\ isRegistered = [p \in Panels |-> FALSE]
  /\ running = [p \in Panels |-> TRUE]
  /\ waitEvent = [p \in Panels |-> FALSE]
  /\ watchers = [p \in Panels |-> <<>>]
  /\ sending = [p \in Panels |-> [t \in ClientThreads |-> Nothing]]
  /\ handling = [p \in Panels |-> Idle]
  /\ requests = [p \in Panels |-> <<>>]
  /\ responses = [p \in Panels |-> <<>>]
  /\ serving = Idle
  /\ resetting = [stage |-> "no", panels |-> {}]
  /\ settled = [p \in Panels |-> TRUE]
  /\ disturbed = {}
  /\ inputs = 0

Input == inputs < MaxInputs /\ inputs' = inputs + 1

-----------------------------------------------------------------------------
\* The client's requests.

\* Mutant: the event keeps the answer to an earlier request.
StartTimeoutWatcherStale(p, op) ==
  /\ watchers' = [watchers EXCEPT ![p] = Append(@, [operation |-> op, state |-> "starting"])]
  /\ settled' = [settled EXCEPT ![p] = FALSE]
  /\ UNCHANGED waitEvent

\* _start_timeout_watcher: the event is cleared, the watcher's thread started.
StartTimeoutWatcher(p, op) ==
  /\ waitEvent' = [waitEvent EXCEPT ![p] = FALSE]
  /\ watchers' = [watchers EXCEPT ![p] = Append(@, [operation |-> op, state |-> "starting"])]
  /\ settled' = [settled EXCEPT ![p] = FALSE]

\* Every request: the watcher first, then transport.send.
Request(p, t, kind) ==
  /\ sending[p][t] = Nothing
  /\ StartTimeoutWatcher(p, kind)
  /\ sending' = [sending EXCEPT ![p][t] = kind]
  /\ UNCHANGED <<tableVars, isRegistered, running, netVars, serverVars, disturbed>>

AppRequest(p, kind) == Input /\ Request(p, "app", kind) /\ UNCHANGED handling

\* register_connection
RegisterConnection(p) == AppRequest(p, "register")

\* _check_registered: the other requests are refused to an unregistered panel.
CheckRegistered(p) == isRegistered[p]

UnregisterConnection(p) == CheckRegistered(p) /\ AppRequest(p, "unregister")
RequestConnectionInfo(p) == CheckRegistered(p) /\ AppRequest(p, "use")
RequestProcessStart(p) == CheckRegistered(p) /\ AppRequest(p, "use")
RequestProcessStop(p) == CheckRegistered(p) /\ AppRequest(p, "use")

\* transport.send of the request; a transport that has been stopped raises.
Send(p, t) ==
  /\ sending[p][t] # Nothing
  /\ requests' = IF running[p] THEN [requests EXCEPT ![p] = Append(@, sending[p][t])]
                               ELSE requests
  /\ sending' = [sending EXCEPT ![p][t] = Nothing]
  /\ UNCHANGED <<tableVars, isRegistered, running, waitEvent, watchers,
                 handling, responses, serverVars, histVars>>

-----------------------------------------------------------------------------
\* The watchers.

\* Mutant: the event is cleared by the watcher's thread.
WatcherWaitsClearing(p, i) ==
  /\ watchers[p][i].state = "starting"
  /\ watchers' = [watchers EXCEPT ![p][i].state = "waiting"]
  /\ waitEvent' = [waitEvent EXCEPT ![p] = FALSE]
  /\ UNCHANGED <<tableVars, isRegistered, running, sending, handling, netVars, serverVars, histVars>>

\* _watcher reaches the wait: an event that is set lets it through.
WatcherWaits(p, i) ==
  /\ watchers[p][i].state = "starting"
  /\ watchers' = [watchers EXCEPT ![p][i].state = IF waitEvent[p] THEN "ended" ELSE "waiting"]
  /\ UNCHANGED <<tableVars, isRegistered, running, waitEvent, sending,
                 handling, netVars, serverVars, histVars>>

\* _call_handler: an event without a callback is passed over; what a callback raises
\* ends in the log of whoever has called the handler.
Calls(event) == event \in Listening

\* The wait ends by its timeout: whatever sets the event now comes too late for it.
WatcherExpires(p, i) ==
  /\ watchers[p][i].state = "waiting"
  /\ watchers' = [watchers EXCEPT ![p][i].state = "expired"]
  /\ UNCHANGED <<tableVars, isRegistered, running, waitEvent, sending,
                 handling, netVars, serverVars, histVars>>

\* on_server_timeout, which tells the application if that listens; nobody looks at the
\* event again.
WatcherReports(p, i) ==
  /\ watchers[p][i].state = "expired"
  /\ watchers' = [watchers EXCEPT ![p][i].state =
                     IF Calls("server_timeout") THEN "reported" ELSE "ended"]
  /\ UNCHANGED <<tableVars, isRegistered, running, waitEvent, sending,
                 handling, netVars, serverVars, histVars>>

\* _wait_event.set: all who wait are released.
Released(p) ==
  [i \in DOMAIN watchers[p] |->
     IF watchers[p][i].state = "waiting" THEN [watchers[p][i] EXCEPT !.state = "ended"]
                                         ELSE watchers[p][i]]

CancelTimeout(p) ==
  /\ waitEvent' = [waitEvent EXCEPT ![p] = TRUE]
  /\ watchers' = [watchers EXCEPT ![p] = Released(p)]
  /\ settled' = [settled EXCEPT ![p] = TRUE]

-----------------------------------------------------------------------------
\* The client's handlers, run by its transport's thread.

\* _check_response_panel: a message of another panel is left alone, one of its
\* own cancels the timeout.
Receive(p) ==
  /\ running[p] /\ responses[p] # <<>>
  /\ handling[p] = Idle /\ sending[p]["callback"] = Nothing
  /\ LET m == Head(responses[p])
     IN  IF m.panel = p
         THEN /\ CancelTimeout(p)
              /\ handling' = [handling EXCEPT ![p] = m]
         ELSE UNCHANGED <<waitEvent, watchers, settled, handling>>
  /\ responses' = [responses EXCEPT ![p] = Tail(@)]
  /\ UNCHANGED <<tableVars, isRegistered, running, sending, requests,
                 serverVars, disturbed, inputs>>

\* The controller's methods: the handler has done its part and calls the callback
\* that is connected for the event, if any.
Callback(p, event) ==
  handling' = [handling EXCEPT ![p] = IF Calls(event) THEN [kind |-> "callback", event |-> event]
                                      ELSE Idle]

\* _on_register_response; the server never refuses one.
OnRegisterResponse(p) ==
  /\ handling[p].kind = "register" /\ Callback(p, "connection_registered")
  /\ isRegistered' = [isRegistered EXCEPT ![p] = TRUE]
  /\ UNCHANGED <<tableVars, running, waitEvent, watchers, sending, netVars, serverVars, histVars>>

\* _on_unregister_response
OnUnregisterResponse(p) ==
  /\ handling[p].kind = "unregister" /\ Callback(p, "connection_unregistered")
  /\ isRegistered' = [isRegistered EXCEPT ![p] = FALSE]
  /\ UNCHANGED <<tableVars, running, waitEvent, watchers, sending,
                 netVars, serverVars, histVars>>

\* Mutant: the client stays registered with a hub that has been reset.
OnShutdownNotifyIgnored(p) ==
  /\ handling[p].kind = "shutdown" /\ Callback(p, "server_shutdown")
  /\ UNCHANGED <<tableVars, isRegistered, running, waitEvent, watchers, sending,
                 netVars, serverVars, histVars>>

\* _on_shutdown_notify
OnShutdownNotify(p) ==
  /\ handling[p].kind = "shutdown" /\ Callback(p, "server_shutdown")
  /\ isRegistered' = [isRegistered EXCEPT ![p] = FALSE]
  /\ UNCHANGED <<tableVars, running, waitEvent, watchers, sending,
                 netVars, serverVars, histVars>>

\* The other handlers change nothing themselves.
PassOn(p, kind, event) ==
  /\ handling[p].kind = kind /\ Callback(p, event)
  /\ UNCHANGED <<tableVars, isRegistered, running, waitEvent, watchers,
                 sending, netVars, serverVars, histVars>>

OnConnectionInfoResponse(p) == PassOn(p, "use", "connection_info")
OnStartResponse(p) == PassOn(p, "use", "process_started")
OnStopResponse(p) == PassOn(p, "use", "process_stopped")
OnRestartNotify(p) == PassOn(p, "notify", "process_killed")

\* on_process_restarted or on_restart_failed, as the message says
RestartOutcomes == {"process_restarted", "restart_failed"}

OnRestartDone(p) == \E event \in RestartOutcomes : PassOn(p, "done", event)

CallbackReturns(p) ==
  /\ handling[p].kind = "callback"
  /\ handling' = [handling EXCEPT ![p] = Idle]
  /\ UNCHANGED <<tableVars, isRegistered, running, waitEvent, watchers,
                 sending, netVars, serverVars, histVars>>

\* A callback sends a request before it returns, at most one: it registers again ...
CallbackRequest(p, kind) ==
  /\ handling[p].kind = "callback"
  /\ Request(p, "callback", kind)
  /\ handling' = [handling EXCEPT ![p] = Idle]

RegisterAgain(p) == Input /\ CallbackRequest(p, "register")

\* ... or uses its registration ...
RequestMore(p) == Input /\ CheckRegistered(p) /\ CallbackRequest(p, "use")

\* ... or, told that a process was killed, calls notify_restart_ready.
NotifyRestartReady(p) ==
  /\ CheckRegistered(p)
  /\ handling[p].kind = "callback" /\ handling[p].event = "process_killed"
  /\ CallbackRequest(p, "ready")
  /\ UNCHANGED inputs

\* start, and stop: the event is set, and what is on its way to the client is gone.
StartClient(p) ==
  /\ Input /\ ~running[p] /\ handling[p] = Idle
  /\ running' = [running EXCEPT ![p] = TRUE]
  /\ UNCHANGED <<tableVars, isRegistered, waitEvent, watchers, sending,
                 handling, netVars, serverVars, settled, disturbed>>

StopClient(p) ==
  /\ Input /\ running[p] /\ sending[p]["app"] = Nothing
  /\ running' = [running EXCEPT ![p] = FALSE]
  /\ CancelTimeout(p)
  /\ responses' = [responses EXCEPT ![p] = <<>>]
  /\ disturbed' = disturbed \cup {p}
  /\ UNCHANGED <<tableVars, isRegistered, sending, handling, requests, serverVars>>

-----------------------------------------------------------------------------
\* The server.

\* send_async on the topic of the message: every running client receives it.
Publish(queues, kind, p) ==
  [q \in Panels |-> IF running[q] THEN Append(queues[q], [kind |-> kind, panel |-> p]) ELSE queues[q]]

\* The _on_..._request handlers: all but a registration and RESTART_READY are
\* dropped without an answer when the panel is not registered.
TakeRequest(p) ==
  /\ serving = Idle /\ requests[p] # <<>>
  /\ requests' = [requests EXCEPT ![p] = Tail(@)]
  /\ LET kind == Head(requests[p])
     IN  serving' = IF kind \in {"register", "ready"} \/ IsConnected(p)
                    THEN [kind |-> kind, panel |-> p, stage |-> "checked"]
                    ELSE Idle
  /\ UNCHANGED <<tableVars, clientVars, responses, resetting, histVars>>

\* The core's handler; what it returns is still to be sent.
Serve ==
  /\ serving # Idle /\ serving.stage = "checked"
  /\ CASE serving.kind = "register"   -> \E s \in Sessions : Register(serving.panel, s)
       [] serving.kind = "unregister" -> Unregister(serving.panel)
       [] OTHER                       -> UNCHANGED tableVars
  /\ serving' = [serving EXCEPT !.stage = "served"]
  /\ disturbed' = IF resetting.stage = "no" THEN disturbed ELSE disturbed \cup {serving.panel}
  /\ UNCHANGED <<clientVars, netVars, resetting, settled, inputs>>

\* Mutant: RESTART_READY is answered like the other requests.
AnswerAll ==
  /\ serving # Idle /\ serving.stage = "served"
  /\ responses' = Publish(responses, serving.kind, serving.panel)
  /\ serving' = Idle
  /\ UNCHANGED <<tableVars, clientVars, requests, resetting, histVars>>

\* _send_messages: the answer, and of RESTART_READY perhaps RESTART_DONE.
Answer ==
  /\ serving # Idle /\ serving.stage = "served"
  /\ \/ /\ serving.kind \in Answers
        /\ responses' = Publish(responses, serving.kind, serving.panel)
     \/ /\ serving.kind = "ready"
        /\ \/ responses' = Publish(responses, "done", serving.panel)
           \/ UNCHANGED responses
  /\ serving' = Idle
  /\ UNCHANGED <<tableVars, clientVars, requests, resetting, histVars>>

\* tick finds that a process of the panel has died.
NotifyRestart(p) ==
  /\ Input /\ IsConnected(p)
  /\ responses' = Publish(responses, "notify", p)
  /\ UNCHANGED <<tableVars, clientVars, requests, serverVars, settled, disturbed>>

\* reset: the panels are listed, the connections cleared, and then told so.
ResetBegin ==
  /\ Input /\ resetting.stage = "no"
  /\ resetting' = [stage |-> "listed", panels |-> Connected]
  /\ disturbed' = IF serving = Idle THEN disturbed ELSE disturbed \cup {serving.panel}
  /\ UNCHANGED <<tableVars, clientVars, netVars, serving, settled>>

ResetClear ==
  /\ resetting.stage = "listed"
  /\ ClearConnections
  /\ resetting' = [resetting EXCEPT !.stage = "cleared"]
  /\ UNCHANGED <<clientVars, netVars, serving, histVars>>

ResetNotify ==
  /\ resetting.stage = "cleared"
  /\ \/ \E p \in resetting.panels :
          /\ responses' = Publish(responses, "shutdown", p)
          /\ resetting' = [resetting EXCEPT !.panels = @ \ {p}]
     \/ /\ resetting.panels = {}
        /\ resetting' = [resetting EXCEPT !.stage = "no"]
        /\ UNCHANGED responses
  /\ UNCHANGED <<tableVars, clientVars, requests, serving, histVars>>

\* The broker or a broken connection loses a message.
LoseRequest(p) ==
  /\ Input /\ requests[p] # <<>>
  /\ requests' = [requests EXCEPT ![p] = Tail(@)]
  /\ disturbed' = disturbed \cup {p}
  /\ UNCHANGED <<tableVars, clientVars, responses, serverVars, settled>>

LoseResponse(p) ==
  /\ Input /\ responses[p] # <<>>
  /\ responses' = [responses EXCEPT ![p] = Tail(@)]
  /\ disturbed' = disturbed \cup {p}
  /\ UNCHANGED <<tableVars, clientVars, requests, serverVars, settled>>

-----------------------------------------------------------------------------
AppStep(p) ==
  \/ RegisterConnection(p) \/ UnregisterConnection(p)
  \/ RequestConnectionInfo(p) \/ RequestProcessStart(p) \/ RequestProcessStop(p)
  \/ Send(p, "app")
  \/ StartClient(p) \/ StopClient(p)

HandlerStep(p) ==
  \/ Receive(p) \/ Send(p, "callback")
  \/ OnRegisterResponse(p) \/ OnUnregisterResponse(p) \/ OnShutdownNotify(p)
  \/ OnConnectionInfoResponse(p) \/ OnStartResponse(p) \/ OnStopResponse(p)
  \/ OnRestartNotify(p) \/ OnRestartDone(p)
  \/ CallbackReturns(p) \/ RegisterAgain(p) \/ RequestMore(p) \/ NotifyRestartReady(p)

WatcherStep(p) ==
  \E i \in DOMAIN watchers[p] :
    WatcherWaits(p, i) \/ WatcherExpires(p, i) \/ WatcherReports(p, i)

ServerStep == (\E p \in Panels : TakeRequest(p)) \/ Serve \/ Answer
ResetStep == ResetClear \/ ResetNotify

ClientNext ==
  \/ \E p \in Panels : \/ AppStep(p) \/ HandlerStep(p) \/ WatcherStep(p)
                       \/ NotifyRestart(p) \/ LoseRequest(p) \/ LoseResponse(p)
  \/ ServerStep \/ ResetBegin \/ ResetStep

ClientSpec == ClientInit /\ [][ClientNext]_vars

\* Watchers wait no longer than their timeout, and report it.
ClientFairness == \A p \in Panels : WF_vars(WatcherStep(p))

ClientFairSpec == ClientSpec /\ ClientFairness

-----------------------------------------------------------------------------
WatcherStates == {"starting", "waiting", "expired", "ended", "reported"}

ClientTyped ==
  /\ TableTyped
  /\ isRegistered \in [Panels -> BOOLEAN]
  /\ running \in [Panels -> BOOLEAN]
  /\ waitEvent \in [Panels -> BOOLEAN]
  /\ watchers \in [Panels -> Seq([operation : Requests, state : WatcherStates])]
  /\ sending \in [Panels -> [ClientThreads -> Requests \cup {Nothing}]]
  /\ handling \in [Panels -> Messages \cup [kind : {"callback"}, event : Listening] \cup {Idle}]
  /\ requests \in [Panels -> Seq(Requests)]
  /\ responses \in [Panels -> Seq(Messages)]
  /\ serving \in [kind : Requests, panel : Panels, stage : {"checked", "served"}] \cup {Idle}
  /\ resetting \in [stage : {"no", "listed", "cleared"}, panels : SUBSET Panels]
  /\ settled \in [Panels -> BOOLEAN]
  /\ disturbed \subseteq Panels
  /\ inputs \in Nat

\* A wait ends by its timeout only while nothing has been heard since the last request,
\* however the watchers of several requests, on one event that each request clears and
\* each answer sets, overlap (client.py, _watcher).  The report follows it as a step of
\* its own: an answer that comes in between does not hold it back.
NoFalseAlarm ==
  [][\A p \in Panels : \A i \in DOMAIN watchers[p] :
       WatcherExpires(p, i) => ~settled[p]]_vars

\* A last request to which nothing is ever heard is reported to the application, if
\* that listens.
SilenceIsReported ==
  Calls("server_timeout") => \A p \in Panels :
    <>[]~settled[p] => <>(watchers[p] # <<>> /\ watchers[p][Len(watchers[p])].state = "reported")

\* Nothing of the panel is on its way, and nobody is at work on it.
Quiet(p) ==
  /\ running[p] /\ handling[p] = Idle /\ requests[p] = <<>>
  /\ \A t \in ClientThreads : sending[p][t] = Nothing
  /\ \A i \in DOMAIN responses[p] : responses[p][i].panel # p
  /\ serving # Idle => serving.panel # p
  /\ resetting.stage = "no"

\* When all is quiet a panel and the hub agree on whether it is registered,
\* through any sequence of registrations, resets and requests in flight: a panel
\* that no loss, stop or reset under way has come across.
RegistrationAgrees ==
  \A p \in Panels \ disturbed : Quiet(p) => (isRegistered[p] <=> IsConnected(p))

\* What _start_timeout_watcher says: "If no response arrives within timeout, calls
\* on_server_timeout".  A message ends the wait for the request that it answers,
\* and for no other.
AnswerTo(op) == IF op = "ready" THEN "done" ELSE op

WaitEndsByItsAnswer ==
  [][\A p \in Panels : \A i \in DOMAIN watchers[p] :
       /\ watchers[p][i].state = "waiting" /\ watchers'[p][i].state = "ended"
       /\ handling'[p] # Idle /\ handling'[p].kind # "shutdown"
       => handling'[p].kind = AnswerTo(watchers[p][i].operation)]_vars
=============================================================================
