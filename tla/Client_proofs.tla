---------------------------- MODULE Client_proofs ----------------------------
(***************************************************************************)
(* For any panels, sessions, listeners and bounds: client and server keep    *)
(* their types, sessions are complete, a wait ends by its timeout only while *)
(* nothing has been heard since the last request, and in the end a panel and *)
(* the hub agree on whether it is registered.                               *)
(*                                                                          *)
(* For the timeouts SilentWaits says what the shared wait event is good for: *)
(* it is set as long as something has been heard, so that no watcher waits.  *)
(***************************************************************************)
EXTENDS Client, TLAPS

SilentWaits ==
  \A p \in Panels :
    /\ settled[p] => waitEvent[p] \/ watchers[p] = <<>>
    /\ \A i \in DOMAIN watchers[p] : watchers[p][i].state = "waiting" => ~settled[p]

Watchers == Seq([operation : Requests, state : WatcherStates])

-----------------------------------------------------------------------------
(* The table of connections.                                                *)

LEMMA TableRegister ==
  ASSUME TableTyped, NEW p \in Panels, NEW s \in Sessions, Register(p, s)
  PROVE  TableTyped' /\ (SessionsComplete => SessionsComplete')
<1>1. TableTyped'
  BY DEF TableTyped, Register
<1> DEFINE sharing == {q \in Panels : session'[q] = s}
<1>2. /\ session' = [session EXCEPT ![p] = s]
      /\ sessionPanels' = [q \in Panels |-> IF q \in sharing THEN sharing ELSE sessionPanels[q]]
  BY DEF Register
<1>3. ASSUME SessionsComplete, NEW a \in Connected', NEW b \in Connected',
             session'[a] = session'[b]
      PROVE  b \in sessionPanels'[a]
  <2>0. a \in Panels /\ b \in Panels
    BY DEF Connected
  <2>1. CASE session'[a] = s
    BY <1>2, <1>3, <2>0, <2>1
  <2>2. CASE session'[a] # s
    <3>1. a # p /\ b # p /\ session[a] = session'[a] /\ session[b] = session'[b]
      BY <1>2, <1>3, <2>0, <2>2 DEF TableTyped
    <3>2. a \in Connected /\ b \in Connected
      BY <2>0, <3>1 DEF Connected, IsConnected
    <3>3. b \in sessionPanels[a]
      BY <1>3, <3>1, <3>2 DEF SessionsComplete
    <3> QED
      BY <1>2, <2>0, <2>2, <3>3
  <2> QED
    BY <2>1, <2>2
<1> QED
  BY <1>1, <1>3 DEF SessionsComplete

LEMMA TableUnregister ==
  ASSUME TableTyped, NEW p \in Panels, Unregister(p)
  PROVE  TableTyped' /\ (SessionsComplete => SessionsComplete')
<1>1. TableTyped'
  BY DEF TableTyped, Unregister
<1>2. ASSUME NEW a \in Connected'
      PROVE  a \in Connected /\ session'[a] = session[a] /\ sessionPanels'[a] = sessionPanels[a]
  BY DEF Connected, IsConnected, Unregister, TableTyped
<1> QED
  BY <1>1, <1>2 DEF SessionsComplete

LEMMA TableCleared ==
  ASSUME ClearConnections
  PROVE  TableTyped' /\ SessionsComplete'
BY DEF ClearConnections, TableTyped, SessionsComplete, Connected, IsConnected

LEMMA TableKept ==
  ASSUME UNCHANGED tableVars
  PROVE  (TableTyped => TableTyped') /\ (SessionsComplete => SessionsComplete')
BY DEF tableVars, TableTyped, SessionsComplete, Connected, IsConnected

-----------------------------------------------------------------------------
(* Types.                                                                   *)

LEMMA SeqFacts ==
  ASSUME NEW S, NEW q \in Seq(S)
  PROVE  /\ \A e \in S : Append(q, e) \in Seq(S)
         /\ q # <<>> => Head(q) \in S /\ Tail(q) \in Seq(S)
         /\ \A i \in DOMAIN q : q[i] \in S
OBVIOUS

LEMMA WatcherFacts ==
  ASSUME NEW q \in Watchers
  PROVE  /\ \A op \in Requests : Append(q, [operation |-> op, state |-> "starting"]) \in Watchers
         /\ \A i \in DOMAIN q, st \in WatcherStates : [q EXCEPT ![i].state = st] \in Watchers
<1> DEFINE W == [operation : Requests, state : WatcherStates]
<1>1. \A op \in Requests : [operation |-> op, state |-> "starting"] \in W
  BY DEF WatcherStates
<1>2. ASSUME NEW i \in DOMAIN q, NEW st \in WatcherStates
      PROVE  [q EXCEPT ![i].state = st] \in Seq(W)
  <2>0. q[i] \in W
    BY SeqFacts DEF Watchers
  <2>1. [q[i] EXCEPT !.state = st] \in W
    BY <2>0
  <2> HIDE DEF W
  <2>2. q \in Seq(W)
    BY DEF Watchers, W
  <2> QED
    BY <2>1, <2>2
<1>3. q \in Seq(W)
  BY DEF Watchers
<1> HIDE DEF W
<1>4. \A op \in Requests : Append(q, [operation |-> op, state |-> "starting"]) \in Seq(W)
  BY <1>1, <1>3, SeqFacts
<1> QED
  BY <1>2, <1>4 DEF Watchers, W

LEMMA ReleasedFacts ==
  ASSUME NEW p \in Panels, watchers \in [Panels -> Watchers]
  PROVE  /\ Released(p) \in Watchers
         /\ \A i \in DOMAIN Released(p) : Released(p)[i].state # "waiting"
<1> DEFINE W == [operation : Requests, state : WatcherStates]
           q == watchers[p]
<1>1. q \in Seq(W)
  BY DEF Watchers
<1>2. ASSUME NEW i \in DOMAIN q
      PROVE  /\ q[i] \in W /\ [q[i] EXCEPT !.state = "ended"] \in W
             /\ [q[i] EXCEPT !.state = "ended"].state = "ended"
  <2>1. q[i] \in W
    BY <1>1, SeqFacts
  <2>2. "ended" \in WatcherStates
    BY DEF WatcherStates
  <2> QED
    BY <2>1, <2>2
<1>3. DOMAIN q = 1..Len(q) /\ Len(q) \in Nat
  BY <1>1
<1> HIDE DEF W, q
<1>4. Released(p) = [i \in 1..Len(q) |-> IF q[i].state = "waiting"
                                         THEN [q[i] EXCEPT !.state = "ended"] ELSE q[i]]
  BY <1>3 DEF Released, q
<1>5. Released(p) \in Seq(W)
  BY <1>2, <1>3, <1>4
<1> QED
  BY <1>2, <1>3, <1>4, <1>5 DEF Watchers, W

LEMMA PublishTyped ==
  ASSUME NEW queues \in [Panels -> Seq(Messages)], NEW p \in Panels,
         NEW kind \in Answers \cup {"notify", "done", "shutdown"}
  PROVE  Publish(queues, kind, p) \in [Panels -> Seq(Messages)]
<1>1. [kind |-> kind, panel |-> p] \in Messages
  BY DEF Messages
<1>2. \A q \in Panels : Append(queues[q], [kind |-> kind, panel |-> p]) \in Seq(Messages)
  BY <1>1, SeqFacts
<1> QED
  BY <1>2 DEF Publish

\* What a step may change of the client's own variables and of the network.
WaitTyped ==
  /\ waitEvent \in [Panels -> BOOLEAN]
  /\ watchers \in [Panels -> Watchers]
  /\ settled \in [Panels -> BOOLEAN]

LEMMA RequestTyped ==
  ASSUME ClientTyped, NEW p \in Panels, NEW t \in ClientThreads, NEW kind \in Requests,
         Request(p, t, kind)
  PROVE  WaitTyped' /\ sending' \in [Panels -> [ClientThreads -> Requests \cup {Nothing}]]
<1>1. waitEvent \in [Panels -> BOOLEAN] /\ settled \in [Panels -> BOOLEAN]
      /\ watchers \in [Panels -> Watchers]
      /\ sending \in [Panels -> [ClientThreads -> Requests \cup {Nothing}]]
  BY DEF ClientTyped, Watchers
<1>2. Append(watchers[p], [operation |-> kind, state |-> "starting"]) \in Watchers
  BY <1>1, WatcherFacts
<1>3. watchers' \in [Panels -> Watchers]
  BY <1>1, <1>2 DEF Request, StartTimeoutWatcher
<1>4. waitEvent' \in [Panels -> BOOLEAN] /\ settled' \in [Panels -> BOOLEAN]
  BY <1>1 DEF Request, StartTimeoutWatcher
<1>5. sending' \in [Panels -> [ClientThreads -> Requests \cup {Nothing}]]
  BY <1>1 DEF Request
<1> QED
  BY <1>3, <1>4, <1>5 DEF WaitTyped

LEMMA CancelTyped ==
  ASSUME ClientTyped, NEW p \in Panels, CancelTimeout(p)
  PROVE  WaitTyped'
<1>1. waitEvent \in [Panels -> BOOLEAN] /\ settled \in [Panels -> BOOLEAN]
      /\ watchers \in [Panels -> Watchers]
  BY DEF ClientTyped, Watchers
<1>2. watchers' \in [Panels -> Watchers]
  BY <1>1, ReleasedFacts DEF CancelTimeout
<1> QED
  BY <1>1, <1>2 DEF CancelTimeout, WaitTyped

LEMMA SendTyped ==
  ASSUME ClientTyped, NEW p \in Panels, NEW t \in ClientThreads, Send(p, t)
  PROVE  ClientTyped'
<1>1. /\ sending \in [Panels -> [ClientThreads -> Requests \cup {Nothing}]]
      /\ requests \in [Panels -> Seq(Requests)]
  BY DEF ClientTyped
<1>2. sending[p][t] \in Requests
  BY <1>1 DEF Send
<1>3. Append(requests[p], sending[p][t]) \in Seq(Requests)
  BY <1>1, <1>2, SeqFacts
<1>4. requests' \in [Panels -> Seq(Requests)]
  BY <1>1, <1>3 DEF Send
<1>5. sending' \in [Panels -> [ClientThreads -> Requests \cup {Nothing}]]
  BY <1>1 DEF Send
<1> QED
  BY <1>4, <1>5, TableKept DEF Send, ClientTyped, serverVars, histVars

LEMMA AppTyped ==
  ASSUME ClientTyped, NEW p \in Panels, AppStep(p)
  PROVE  ClientTyped'
<1>1. ASSUME NEW kind \in Requests, AppRequest(p, kind) PROVE ClientTyped'
  <2>1. WaitTyped' /\ sending' \in [Panels -> [ClientThreads -> Requests \cup {Nothing}]]
    BY <1>1, RequestTyped DEF AppRequest, ClientThreads
  <2>2. inputs' \in Nat
    BY <1>1 DEF AppRequest, Input, ClientTyped
  <2> QED
    BY <1>1, <2>1, <2>2, TableKept
       DEF AppRequest, Request, ClientTyped, WaitTyped, Watchers, netVars, serverVars
<1>2. CASE Send(p, "app")
  BY <1>2, SendTyped DEF ClientThreads
<1>3. CASE StartClient(p)
  <2>1. running' \in [Panels -> BOOLEAN] /\ inputs' \in Nat
    BY <1>3 DEF StartClient, Input, ClientTyped
  <2> QED
    BY <1>3, <2>1, TableKept DEF StartClient, ClientTyped, netVars, serverVars
<1>4. CASE StopClient(p)
  <2>1. WaitTyped'
    BY <1>4, CancelTyped DEF StopClient
  <2>2. responses' \in [Panels -> Seq(Messages)]
    <3>1. responses \in [Panels -> Seq(Messages)] /\ <<>> \in Seq(Messages)
      BY DEF ClientTyped
    <3> QED
      BY <1>4, <3>1 DEF StopClient
  <2>3. running' \in [Panels -> BOOLEAN] /\ inputs' \in Nat /\ disturbed' \subseteq Panels
    BY <1>4 DEF StopClient, Input, ClientTyped
  <2> QED
    BY <1>4, <2>1, <2>2, <2>3, TableKept
       DEF StopClient, ClientTyped, WaitTyped, Watchers, serverVars
<1>5. {"register", "unregister", "use"} \subseteq Requests
  BY DEF Requests
<1> QED
  BY <1>1, <1>2, <1>3, <1>4, <1>5
     DEF AppStep, RegisterConnection, UnregisterConnection, RequestConnectionInfo,
         RequestProcessStart, RequestProcessStop

LEMMA ReceiveTyped ==
  ASSUME ClientTyped, NEW p \in Panels, Receive(p)
  PROVE  ClientTyped'
<1>1. /\ responses \in [Panels -> Seq(Messages)]
      /\ handling \in [Panels -> Messages \cup [kind : {"callback"}, event : Listening] \cup {Idle}]
  BY DEF ClientTyped
<1>2. Head(responses[p]) \in Messages /\ Tail(responses[p]) \in Seq(Messages)
  BY <1>1, SeqFacts DEF Receive
<1>3. responses' \in [Panels -> Seq(Messages)]
  BY <1>1, <1>2 DEF Receive
<1>4. WaitTyped' /\ handling' \in [Panels -> Messages \cup [kind : {"callback"}, event : Listening]
                                             \cup {Idle}]
  <2>1. CASE Head(responses[p]).panel = p
    <3>1. CancelTimeout(p) /\ handling' = [handling EXCEPT ![p] = Head(responses[p])]
      BY <2>1 DEF Receive
    <3> QED
      BY <1>1, <1>2, <3>1, CancelTyped
  <2>2. CASE Head(responses[p]).panel # p
    BY <1>1, <2>2 DEF Receive, ClientTyped, WaitTyped, Watchers
  <2> QED
    BY <2>1, <2>2
<1> QED
  BY <1>3, <1>4, TableKept DEF Receive, ClientTyped, WaitTyped, Watchers, serverVars

\* A handler that calls a callback, and one that has come back.
LEMMA CallbackTyped ==
  ASSUME ClientTyped, NEW p \in Panels
  PROVE  /\ \A event : Callback(p, event) =>
              handling' \in [Panels -> Messages \cup [kind : {"callback"}, event : Listening]
                                       \cup {Idle}]
         /\ handling' = [handling EXCEPT ![p] = Idle] =>
              handling' \in [Panels -> Messages \cup [kind : {"callback"}, event : Listening]
                                       \cup {Idle}]
<1>1. handling \in [Panels -> Messages \cup [kind : {"callback"}, event : Listening] \cup {Idle}]
  BY DEF ClientTyped
<1> QED
  BY <1>1 DEF Callback, Calls

LEMMA HandlersTyped ==
  ASSUME ClientTyped, NEW p \in Panels,
         \/ OnRegisterResponse(p) \/ OnUnregisterResponse(p) \/ OnShutdownNotify(p)
         \/ \E kind, event : PassOn(p, kind, event)
         \/ CallbackReturns(p)
  PROVE  ClientTyped'
<1>1. /\ handling' \in [Panels -> Messages \cup [kind : {"callback"}, event : Listening]
                                  \cup {Idle}]
      /\ isRegistered' \in [Panels -> BOOLEAN]
  <2>1. CASE OnRegisterResponse(p) \/ OnUnregisterResponse(p) \/ OnShutdownNotify(p)
    BY <2>1, CallbackTyped
       DEF OnRegisterResponse, OnUnregisterResponse, OnShutdownNotify, ClientTyped
  <2>2. ASSUME NEW kind, NEW event, PassOn(p, kind, event)
        PROVE  isRegistered' = isRegistered /\ Callback(p, event)
    BY <2>2 DEF PassOn
  <2>3. CASE CallbackReturns(p)
    BY <2>3, CallbackTyped DEF CallbackReturns, ClientTyped
  <2> QED
    BY <2>1, <2>2, <2>3, CallbackTyped DEF ClientTyped
<1>2. UNCHANGED <<tableVars, running, waitEvent, watchers, sending, netVars, serverVars, histVars>>
  BY DEF OnRegisterResponse, OnUnregisterResponse, OnShutdownNotify, PassOn, CallbackReturns
<1> QED
  BY <1>1, <1>2, TableKept DEF ClientTyped, netVars, serverVars, histVars

LEMMA CallbackRequestTyped ==
  ASSUME ClientTyped, NEW p \in Panels, NEW kind \in Requests, CallbackRequest(p, kind),
         inputs' \in Nat
  PROVE  ClientTyped'
<1>1. WaitTyped' /\ sending' \in [Panels -> [ClientThreads -> Requests \cup {Nothing}]]
  BY RequestTyped DEF CallbackRequest, ClientThreads
<1>2. handling' \in [Panels -> Messages \cup [kind : {"callback"}, event : Listening] \cup {Idle}]
  BY CallbackTyped DEF CallbackRequest
<1> QED
  BY <1>1, <1>2, TableKept
     DEF CallbackRequest, Request, ClientTyped, WaitTyped, Watchers, netVars, serverVars

LEMMA HandlerTyped ==
  ASSUME ClientTyped, NEW p \in Panels, HandlerStep(p)
  PROVE  ClientTyped'
<1>1. CASE Receive(p)
  BY <1>1, ReceiveTyped
<1>2. CASE Send(p, "callback")
  BY <1>2, SendTyped DEF ClientThreads
<1>3. CASE \/ OnRegisterResponse(p) \/ OnUnregisterResponse(p) \/ OnShutdownNotify(p)
           \/ OnConnectionInfoResponse(p) \/ OnStartResponse(p) \/ OnStopResponse(p)
           \/ OnRestartNotify(p) \/ OnRestartDone(p) \/ CallbackReturns(p)
  BY <1>3, HandlersTyped
     DEF OnConnectionInfoResponse, OnStartResponse, OnStopResponse, OnRestartNotify, OnRestartDone
<1>4. CASE RegisterAgain(p) \/ RequestMore(p) \/ NotifyRestartReady(p)
  <2>1. inputs' \in Nat
    BY <1>4 DEF RegisterAgain, RequestMore, NotifyRestartReady, Input, ClientTyped
  <2>2. \E kind \in Requests : CallbackRequest(p, kind)
    BY <1>4 DEF RegisterAgain, RequestMore, NotifyRestartReady, Requests
  <2> QED
    BY <2>1, <2>2, CallbackRequestTyped
<1> QED
  BY <1>1, <1>2, <1>3, <1>4 DEF HandlerStep

LEMMA WatcherTyped ==
  ASSUME ClientTyped, NEW p \in Panels, WatcherStep(p)
  PROVE  ClientTyped'
<1>0. watchers \in [Panels -> Watchers]
  BY DEF ClientTyped, Watchers
<1>1. PICK i \in DOMAIN watchers[p] :
        WatcherWaits(p, i) \/ WatcherExpires(p, i) \/ WatcherReports(p, i)
  BY DEF WatcherStep
<1>2. \E st \in WatcherStates : watchers' = [watchers EXCEPT ![p][i].state = st]
  BY <1>1 DEF WatcherWaits, WatcherExpires, WatcherReports, WatcherStates
<1>3. PICK st \in WatcherStates : watchers' = [watchers EXCEPT ![p][i].state = st]
  BY <1>2
<1>4. [watchers[p] EXCEPT ![i].state = st] \in Watchers
  BY <1>0, WatcherFacts
<1>5. watchers' \in [Panels -> Watchers]
  BY <1>0, <1>3, <1>4
<1>6. UNCHANGED <<tableVars, isRegistered, running, waitEvent, sending, handling, netVars,
                  serverVars, histVars>>
  BY <1>1 DEF WatcherWaits, WatcherExpires, WatcherReports
<1> QED
  BY <1>5, <1>6, TableKept DEF ClientTyped, Watchers, netVars, serverVars, histVars

-----------------------------------------------------------------------------
(* The server and the network.                                              *)

Servings == [kind : Requests, panel : Panels, stage : {"checked", "served"}]

LEMMA ServerTyped ==
  ASSUME ClientTyped, ServerStep
  PROVE  ClientTyped'
<1>0. /\ requests \in [Panels -> Seq(Requests)] /\ responses \in [Panels -> Seq(Messages)]
      /\ serving \in Servings \cup {Idle}
  BY DEF ClientTyped, Servings
<1>1. ASSUME NEW p \in Panels, TakeRequest(p) PROVE ClientTyped'
  <2>1. Head(requests[p]) \in Requests /\ Tail(requests[p]) \in Seq(Requests)
    BY <1>0, <1>1, SeqFacts DEF TakeRequest
  <2>2. requests' \in [Panels -> Seq(Requests)] /\ serving' \in Servings \cup {Idle}
    BY <1>0, <1>1, <2>1 DEF TakeRequest, Servings
  <2> QED
    BY <1>1, <2>2, TableKept DEF TakeRequest, ClientTyped, clientVars, histVars, Servings
<1>2. CASE Serve
  <2>1. serving \in Servings
    BY <1>0, <1>2 DEF Serve
  <2>2. TableTyped'
    <3>1. TableTyped /\ serving.panel \in Panels
      BY <2>1 DEF ClientTyped, Servings
    <3> QED
      BY <1>2, <3>1, TableRegister, TableUnregister, TableKept DEF Serve
  <2>3. serving' \in Servings /\ disturbed' \subseteq Panels
    BY <1>2, <2>1 DEF Serve, Servings, ClientTyped
  <2> QED
    BY <1>2, <2>2, <2>3 DEF Serve, ClientTyped, clientVars, netVars, Servings
<1>3. CASE Answer
  <2>1. serving \in Servings
    BY <1>0, <1>3 DEF Answer
  <2>2. serving.panel \in Panels
    BY <2>1 DEF Servings
  <2>3. responses' \in [Panels -> Seq(Messages)]
    <3>1. \A kind \in Answers \cup {"notify", "done", "shutdown"} :
            Publish(responses, kind, serving.panel) \in [Panels -> Seq(Messages)]
      BY <1>0, <2>2, PublishTyped
    <3> QED
      BY <1>0, <1>3, <3>1 DEF Answer
  <2> QED
    BY <1>3, <2>3, TableKept DEF Answer, ClientTyped, clientVars, histVars
<1> QED
  BY <1>1, <1>2, <1>3 DEF ServerStep

LEMMA ResetTyped ==
  ASSUME ClientTyped, ResetBegin \/ ResetStep
  PROVE  ClientTyped'
<1>0. /\ responses \in [Panels -> Seq(Messages)]
      /\ resetting \in [stage : {"no", "listed", "cleared"}, panels : SUBSET Panels]
  BY DEF ClientTyped
<1>1. CASE ResetBegin
  <2>1. /\ resetting' \in [stage : {"no", "listed", "cleared"}, panels : SUBSET Panels]
        /\ inputs' \in Nat
    BY <1>1 DEF ResetBegin, Input, ClientTyped, Connected
  <2>2. disturbed' \subseteq Panels
    BY <1>1 DEF ResetBegin, ClientTyped
  <2> QED
    BY <1>1, <2>1, <2>2, TableKept DEF ResetBegin, ClientTyped, clientVars, netVars
<1>2. CASE ResetClear
  <2>1. resetting' \in [stage : {"no", "listed", "cleared"}, panels : SUBSET Panels]
    BY <1>0, <1>2 DEF ResetClear
  <2> QED
    BY <1>2, <2>1, TableCleared DEF ResetClear, ClientTyped, clientVars, netVars, histVars
<1>3. CASE ResetNotify
  <2>1. resetting' \in [stage : {"no", "listed", "cleared"}, panels : SUBSET Panels]
    BY <1>0, <1>3 DEF ResetNotify
  <2>2. responses' \in [Panels -> Seq(Messages)]
    BY <1>0, <1>3, PublishTyped DEF ResetNotify
  <2> QED
    BY <1>3, <2>1, <2>2, TableKept DEF ResetNotify, ClientTyped, clientVars, histVars
<1> QED
  BY <1>1, <1>2, <1>3 DEF ResetStep

LEMMA NetworkTyped ==
  ASSUME ClientTyped, NEW p \in Panels, NotifyRestart(p) \/ LoseRequest(p) \/ LoseResponse(p)
  PROVE  ClientTyped'
<1>0. /\ requests \in [Panels -> Seq(Requests)] /\ responses \in [Panels -> Seq(Messages)]
      /\ inputs' \in Nat
  BY DEF ClientTyped, NotifyRestart, LoseRequest, LoseResponse, Input
<1>1. CASE NotifyRestart(p)
  <2>1. responses' \in [Panels -> Seq(Messages)]
    BY <1>0, <1>1, PublishTyped DEF NotifyRestart
  <2> QED
    BY <1>0, <1>1, <2>1, TableKept DEF NotifyRestart, ClientTyped, clientVars, serverVars
<1>2. CASE LoseRequest(p)
  <2>1. Tail(requests[p]) \in Seq(Requests)
    BY <1>0, <1>2, SeqFacts DEF LoseRequest
  <2>2. requests' \in [Panels -> Seq(Requests)] /\ disturbed' \subseteq Panels
    BY <1>0, <1>2, <2>1 DEF LoseRequest, ClientTyped
  <2> QED
    BY <1>0, <1>2, <2>2, TableKept DEF LoseRequest, ClientTyped, clientVars, serverVars
<1>3. CASE LoseResponse(p)
  <2>1. Tail(responses[p]) \in Seq(Messages)
    BY <1>0, <1>3, SeqFacts DEF LoseResponse
  <2>2. responses' \in [Panels -> Seq(Messages)] /\ disturbed' \subseteq Panels
    BY <1>0, <1>3, <2>1 DEF LoseResponse, ClientTyped
  <2> QED
    BY <1>0, <1>3, <2>2, TableKept DEF LoseResponse, ClientTyped, clientVars, serverVars
<1> QED
  BY <1>1, <1>2, <1>3

\* For any panels, sessions and listeners the state keeps its types: every answer on its way
\* is one that a handler knows.
THEOREM ClientIsTyped == ClientSpec => []ClientTyped
<1>1. ClientInit => ClientTyped
  <2> SUFFICES ASSUME ClientInit PROVE ClientTyped
    OBVIOUS
  <2>1. TableTyped
    BY DEF ClientInit, TableInit, TableTyped
  <2>2. /\ <<>> \in Seq(Requests) /\ <<>> \in Seq(Messages)
        /\ <<>> \in Seq([operation : Requests, state : WatcherStates])
    OBVIOUS
  <2> QED
    BY <2>1, <2>2 DEF ClientInit, ClientTyped
<1>2. ClientTyped /\ [ClientNext]_vars => ClientTyped'
  <2>1. ASSUME ClientTyped, UNCHANGED vars PROVE ClientTyped'
    BY <2>1, TableKept DEF vars, clientVars, netVars, serverVars, histVars, ClientTyped
  <2>2. ASSUME ClientTyped, ClientNext PROVE ClientTyped'
    BY <2>2, AppTyped, HandlerTyped, WatcherTyped, ServerTyped, ResetTyped, NetworkTyped
       DEF ClientNext
  <2> QED
    BY <2>1, <2>2
<1> QED
  BY <1>1, <1>2, PTL DEF ClientSpec

-----------------------------------------------------------------------------
(* Sessions.                                                                *)

LEMMA ServingPanel ==
  ASSUME ClientTyped, serving # Idle
  PROVE  serving.panel \in Panels
BY DEF ClientTyped

\* For any panels and sessions whoever is connected knows all who share the session: only
\* a registration makes two panels share one, and it tells them all.
THEOREM SessionsAreComplete == ClientSpec => []SessionsComplete
<1>1. ClientInit => SessionsComplete
  BY DEF ClientInit, TableInit, SessionsComplete, Connected, IsConnected
<1>2. ClientTyped /\ SessionsComplete /\ [ClientNext]_vars => SessionsComplete'
  <2> SUFFICES ASSUME ClientTyped, SessionsComplete, [ClientNext]_vars PROVE SessionsComplete'
    OBVIOUS
  <2>0. TableTyped
    BY DEF ClientTyped
  <2>1. CASE Serve
    <3>1. CASE serving.kind = "register" /\ \E s \in Sessions : Register(serving.panel, s)
      BY <2>0, <2>1, <3>1, ServingPanel, TableRegister DEF Serve
    <3>2. CASE Unregister(serving.panel)
      BY <2>0, <2>1, <3>2, ServingPanel, TableUnregister DEF Serve
    <3>3. CASE UNCHANGED tableVars
      BY <3>3, TableKept
    <3> QED
      BY <2>1, <3>1, <3>2, <3>3 DEF Serve
  <2>2. CASE ResetClear
    BY <2>2, TableCleared DEF ResetClear
  <2>3. CASE UNCHANGED vars
    BY <2>3, TableKept DEF vars
  <2>4. ASSUME NEW p \in Panels,
               AppStep(p) \/ HandlerStep(p) \/ WatcherStep(p)
               \/ NotifyRestart(p) \/ LoseRequest(p) \/ LoseResponse(p) \/ TakeRequest(p)
        PROVE  UNCHANGED tableVars
    <3>1. ASSUME AppStep(p) PROVE UNCHANGED tableVars
      BY <3>1 DEF AppStep, RegisterConnection, UnregisterConnection, RequestConnectionInfo,
         RequestProcessStart, RequestProcessStop, AppRequest, Request, Send, StartClient, StopClient
    <3>2. ASSUME HandlerStep(p) PROVE UNCHANGED tableVars
      BY <3>2 DEF HandlerStep, Receive, Send, OnRegisterResponse, OnUnregisterResponse,
         OnShutdownNotify, OnConnectionInfoResponse, OnStartResponse, OnStopResponse,
         OnRestartNotify, OnRestartDone, PassOn, CallbackReturns, RegisterAgain, RequestMore,
         NotifyRestartReady, CallbackRequest, Request
    <3>3. ASSUME WatcherStep(p) PROVE UNCHANGED tableVars
      BY <3>3 DEF WatcherStep, WatcherWaits, WatcherExpires, WatcherReports
    <3> QED
      BY <2>4, <3>1, <3>2, <3>3 DEF NotifyRestart, LoseRequest, LoseResponse, TakeRequest
  <2>5. CASE Answer \/ ResetBegin \/ ResetNotify
    BY <2>5, TableKept DEF Answer, ResetBegin, ResetNotify
  <2> QED
    BY <2>1, <2>2, <2>3, <2>4, <2>5, TableKept DEF ClientNext, ServerStep, ResetStep
<1> QED
  BY <1>1, <1>2, ClientIsTyped, PTL DEF ClientSpec

-----------------------------------------------------------------------------
(* No false alarm.                                                          *)

LEMMA SilentKept ==
  ASSUME SilentWaits, UNCHANGED <<waitEvent, watchers, settled>>
  PROVE  SilentWaits'
BY DEF SilentWaits

LEMMA SilentRequest ==
  ASSUME ClientTyped, SilentWaits, NEW p \in Panels, NEW t, NEW kind, Request(p, t, kind)
  PROVE  SilentWaits'
<1>1. /\ waitEvent' = [waitEvent EXCEPT ![p] = FALSE]
      /\ watchers' = [watchers EXCEPT ![p] =
                        Append(@, [operation |-> kind, state |-> "starting"])]
      /\ settled' = [settled EXCEPT ![p] = FALSE]
  BY DEF Request, StartTimeoutWatcher
<1> QED
  BY <1>1 DEF ClientTyped, SilentWaits

LEMMA SilentCancel ==
  ASSUME ClientTyped, SilentWaits, NEW p \in Panels, CancelTimeout(p)
  PROVE  SilentWaits'
<1>1. watchers \in [Panels -> Watchers] /\ waitEvent \in [Panels -> BOOLEAN]
      /\ settled \in [Panels -> BOOLEAN]
  BY DEF ClientTyped, Watchers
<1>2. \A i \in DOMAIN Released(p) : Released(p)[i].state # "waiting"
  BY <1>1, ReleasedFacts
<1>3. /\ waitEvent' = [waitEvent EXCEPT ![p] = TRUE]
      /\ watchers' = [watchers EXCEPT ![p] = Released(p)]
      /\ settled' = [settled EXCEPT ![p] = TRUE]
  BY DEF CancelTimeout
<1> HIDE DEF Released
<1> QED
  BY <1>1, <1>2, <1>3 DEF SilentWaits

LEMMA SilentWatcher ==
  ASSUME ClientTyped, SilentWaits, NEW p \in Panels, WatcherStep(p)
  PROVE  SilentWaits'
<1>0. watchers \in [Panels -> Watchers]
  BY DEF ClientTyped, Watchers
<1>1. PICK i \in DOMAIN watchers[p] :
        WatcherWaits(p, i) \/ WatcherExpires(p, i) \/ WatcherReports(p, i)
  BY DEF WatcherStep
<1>2. /\ watchers[p] # <<>> /\ UNCHANGED <<waitEvent, settled>>
      /\ \A q \in Panels \ {p} : watchers'[q] = watchers[q]
  BY <1>0, <1>1 DEF WatcherWaits, WatcherExpires, WatcherReports, histVars
<1>3. /\ DOMAIN watchers'[p] = DOMAIN watchers[p]
      /\ \A j \in DOMAIN watchers[p] : j # i => watchers'[p][j] = watchers[p][j]
  BY <1>0, <1>1 DEF WatcherWaits, WatcherExpires, WatcherReports
<1>4. watchers'[p][i].state = "waiting" => ~waitEvent[p]
  <2>1. watchers[p][i] \in [operation : Requests, state : WatcherStates]
    BY <1>0, SeqFacts DEF Watchers
  <2> QED
    BY <1>0, <1>1, <2>1 DEF WatcherWaits, WatcherExpires, WatcherReports
<1>5. watchers'[p] # <<>>
  BY <1>1, <1>3
<1>6. settled[p] => waitEvent[p]
  BY <1>2 DEF SilentWaits
<1> QED
  BY <1>1, <1>2, <1>3, <1>4, <1>5, <1>6 DEF SilentWaits

\* For any panels, listeners and requests a wait ends by its timeout only while nothing has
\* been heard since the last request, although all requests share one event.
THEOREM NoFalseAlarmHolds == ClientSpec => NoFalseAlarm
<1>1. ASSUME ClientInit PROVE SilentWaits
  <2>1. \A p \in Panels : watchers[p] = <<>>
    BY <1>1 DEF ClientInit
  <2>2. Len(<<>>) = 0 /\ DOMAIN <<>> = {}
    OBVIOUS
  <2>3. \A p \in Panels : DOMAIN watchers[p] = {}
    BY <2>1, <2>2
  <2> QED
    BY <2>1, <2>3 DEF SilentWaits
<1>2. ClientTyped /\ SilentWaits /\ [ClientNext]_vars => SilentWaits'
  <2> SUFFICES ASSUME ClientTyped, SilentWaits, [ClientNext]_vars PROVE SilentWaits'
    OBVIOUS
  <2>1. CASE UNCHANGED vars
    BY <2>1, SilentKept DEF vars, clientVars, histVars
  <2>2. ASSUME NEW p \in Panels, AppStep(p) PROVE SilentWaits'
    <3>1. CASE \E kind : Request(p, "app", kind)
      BY <3>1, SilentRequest
    <3>2. CASE Send(p, "app") \/ StartClient(p)
      BY <3>2, SilentKept DEF Send, StartClient, histVars
    <3>3. CASE StopClient(p)
      BY <3>3, SilentCancel DEF StopClient
    <3> QED
      BY <2>2, <3>1, <3>2, <3>3
         DEF AppStep, RegisterConnection, UnregisterConnection, RequestConnectionInfo,
             RequestProcessStart, RequestProcessStop, AppRequest
  <2>3. ASSUME NEW p \in Panels, HandlerStep(p) PROVE SilentWaits'
    <3>1. CASE Receive(p)
      BY <3>1, SilentCancel, SilentKept DEF Receive
    <3>2. CASE RegisterAgain(p) \/ RequestMore(p) \/ NotifyRestartReady(p)
      BY <3>2, SilentRequest DEF RegisterAgain, RequestMore, NotifyRestartReady, CallbackRequest
    <3>3. CASE \/ Send(p, "callback")
               \/ OnRegisterResponse(p) \/ OnUnregisterResponse(p) \/ OnShutdownNotify(p)
               \/ OnConnectionInfoResponse(p) \/ OnStartResponse(p) \/ OnStopResponse(p)
               \/ OnRestartNotify(p) \/ OnRestartDone(p) \/ CallbackReturns(p)
      BY <3>3, SilentKept
         DEF Send, OnRegisterResponse, OnUnregisterResponse, OnShutdownNotify,
             OnConnectionInfoResponse, OnStartResponse, OnStopResponse, OnRestartNotify,
             OnRestartDone, PassOn, CallbackReturns, histVars
    <3> QED
      BY <2>3, <3>1, <3>2, <3>3 DEF HandlerStep
  <2>4. ASSUME NEW p \in Panels, WatcherStep(p) PROVE SilentWaits'
    BY <2>4, SilentWatcher
  <2>5. ASSUME NEW p \in Panels,
               NotifyRestart(p) \/ LoseRequest(p) \/ LoseResponse(p) \/ TakeRequest(p)
        PROVE  SilentWaits'
    BY <2>5, SilentKept
       DEF NotifyRestart, LoseRequest, LoseResponse, TakeRequest, clientVars, histVars
  <2>6. CASE Serve \/ Answer \/ ResetBegin \/ ResetStep
    BY <2>6, SilentKept
       DEF Serve, Answer, ResetBegin, ResetStep, ResetClear, ResetNotify, clientVars, histVars
  <2> QED
    BY <2>1, <2>2, <2>3, <2>4, <2>5, <2>6 DEF ClientNext, ServerStep
<1>3. SilentWaits /\ [ClientNext]_vars =>
        [\A p \in Panels : \A i \in DOMAIN watchers[p] :
           WatcherExpires(p, i) => ~settled[p]]_vars
  BY DEF SilentWaits, WatcherExpires
<1> QED
  BY <1>1, <1>2, <1>3, ClientIsTyped, PTL DEF ClientSpec, NoFalseAlarm

-----------------------------------------------------------------------------
(* Registration.  WordFollows traces the last word about a panel on its way  *)
(* from the hub's table to the client: the answer that the core has decided  *)
(* on and not sent, the reset that has cleared the table and not said so, the *)
(* last message in the queue, the one that is handled, what the client holds. *)
(* Wherever it is, it says what the table holds.                             *)

\* What a client is told of its own registration: the answers to its own requests, and a
\* reset.
Verdicts == {"register", "unregister", "shutdown"}

Says(m, p) == m.panel = p /\ m.kind \in Verdicts

SaysNothing(q, p) == \A i \in DOMAIN q : ~Says(q[i], p)

\* The last thing that a queue says of a panel is that it is registered iff c holds.
EndsWith(q, p, c) ==
  \A i \in DOMAIN q :
    /\ Says(q[i], p)
    /\ \A j \in DOMAIN q : j > i => ~Says(q[j], p)
    => (q[i].kind = "register" <=> c)

\* What the client holds when it has handled all that is on its way agrees with the hub.
ToldOf(p) ==
  /\ EndsWith(responses[p], p, IsConnected(p))
  /\ SaysNothing(responses[p], p) =>
       IF handling[p].kind \in Verdicts THEN handling[p].kind = "register" <=> IsConnected(p)
                                        ELSE isRegistered[p] <=> IsConnected(p)

\* The core is done with a request of the panel, and the answer is still to be sent.
Served(p) == serving # Idle /\ serving.panel = p /\ serving.stage = "served"
Unanswered(p) == Served(p) /\ serving.kind \in {"register", "unregister"}
Untold(p) == resetting.stage = "cleared" /\ p \in resetting.panels

WordFollows(p) ==
  /\ running[p]
  /\ resetting.stage # "no" => ~Served(p)
  /\ resetting.stage = "listed" => (p \in resetting.panels <=> IsConnected(p))
  /\ resetting.stage = "cleared" => ~IsConnected(p)
  /\ Unanswered(p) => (serving.kind = "register" <=> IsConnected(p))
  /\ Unanswered(p) \/ Untold(p) \/ ToldOf(p)

AgreementFollows == \A p \in Panels \ disturbed : WordFollows(p)

LEMMA SaidNothingNew ==
  ASSUME NEW q \in Seq(Messages), NEW m \in Messages, NEW p, NEW c, ~Says(m, p),
         EndsWith(q, p, c)
  PROVE  /\ EndsWith(Append(q, m), p, c)
         /\ SaysNothing(Append(q, m), p) => SaysNothing(q, p)
<1> DEFINE r == Append(q, m)
<1>1. /\ DOMAIN r = 1..Len(q) + 1 /\ DOMAIN q = 1..Len(q) /\ Len(q) \in Nat
      /\ \A i \in DOMAIN q : r[i] = q[i]
      /\ r[Len(q) + 1] = m
  OBVIOUS
<1> HIDE DEF r
<1>2. ASSUME NEW i \in DOMAIN r, Says(r[i], p), \A j \in DOMAIN r : j > i => ~Says(r[j], p)
      PROVE  r[i].kind = "register" <=> c
  <2>1. i \in DOMAIN q
    BY <1>1, <1>2
  <2>2. r[i] = q[i]
    BY <1>1, <2>1
  <2>3. \A j \in DOMAIN q : j > i => ~Says(q[j], p)
    BY <1>1, <1>2
  <2> QED
    BY <1>2, <2>1, <2>2, <2>3 DEF EndsWith
<1>3. ASSUME SaysNothing(r, p) PROVE SaysNothing(q, p)
  BY <1>1, <1>3 DEF SaysNothing
<1>4. EndsWith(r, p, c)
  BY <1>2 DEF EndsWith
<1> QED
  BY <1>3, <1>4 DEF r

LEMMA SaidLast ==
  ASSUME NEW q \in Seq(Messages), NEW m \in Messages, NEW p, NEW c, Says(m, p),
         m.kind = "register" <=> c
  PROVE  EndsWith(Append(q, m), p, c) /\ ~SaysNothing(Append(q, m), p)
<1> DEFINE r == Append(q, m)
<1>1. /\ DOMAIN r = 1..Len(q) + 1 /\ Len(q) \in Nat
      /\ r[Len(q) + 1] = m
  OBVIOUS
<1> HIDE DEF r
<1>2. ASSUME NEW i \in DOMAIN r, \A j \in DOMAIN r : j > i => ~Says(r[j], p)
      PROVE  r[i].kind = "register" <=> c
  <2>1. i = Len(q) + 1
    BY <1>1, <1>2
  <2> QED
    BY <1>1, <2>1
<1>3. EndsWith(r, p, c) /\ ~SaysNothing(r, p)
  BY <1>1, <1>2 DEF EndsWith, SaysNothing
<1> QED
  BY <1>3 DEF r

LEMMA SaidFirst ==
  ASSUME NEW q \in Seq(Messages), q # <<>>, NEW p, NEW c, EndsWith(q, p, c)
  PROVE  /\ EndsWith(Tail(q), p, c)
         /\ SaysNothing(Tail(q), p) /\ ~Says(Head(q), p) => SaysNothing(q, p)
         /\ SaysNothing(Tail(q), p) /\ Says(Head(q), p) => (Head(q).kind = "register" <=> c)
<1> DEFINE r == Tail(q)
           h == Head(q)
<1>1. /\ Len(q) \in Nat /\ DOMAIN q = 1..Len(q) /\ DOMAIN r = 1..Len(q) - 1 /\ Len(q) > 0
      /\ \A i \in DOMAIN r : r[i] = q[i + 1]
      /\ q[1] = h
  OBVIOUS
<1> HIDE DEF r, h
<1>2. ASSUME NEW j \in DOMAIN q, j > 1 PROVE j - 1 \in DOMAIN r /\ r[j - 1] = q[j]
  BY <1>1, <1>2
<1>3. ASSUME NEW i \in DOMAIN r, Says(r[i], p), \A j \in DOMAIN r : j > i => ~Says(r[j], p)
      PROVE  r[i].kind = "register" <=> c
  <2>1. i + 1 \in DOMAIN q /\ r[i] = q[i + 1]
    BY <1>1
  <2>2. ASSUME NEW j \in DOMAIN q, j > i + 1 PROVE ~Says(q[j], p)
    <3>1. j - 1 \in DOMAIN r /\ r[j - 1] = q[j] /\ j - 1 > i
      BY <1>1, <1>2, <2>2
    <3> QED
      BY <1>3, <3>1
  <2> QED
    BY <1>3, <2>1, <2>2 DEF EndsWith
<1>4. ASSUME SaysNothing(r, p), NEW j \in DOMAIN q, j > 1 PROVE ~Says(q[j], p)
  BY <1>2, <1>4 DEF SaysNothing
<1>5. ASSUME SaysNothing(r, p), ~Says(h, p) PROVE SaysNothing(q, p)
  BY <1>1, <1>4, <1>5 DEF SaysNothing
<1>6. ASSUME SaysNothing(r, p), Says(h, p) PROVE h.kind = "register" <=> c
  <2>1. 1 \in DOMAIN q /\ \A j \in DOMAIN q : j > 1 => ~Says(q[j], p)
    BY <1>1, <1>4, <1>6
  <2> QED
    BY <1>1, <1>6, <2>1 DEF EndsWith
<1>7. EndsWith(r, p, c)
  BY <1>3 DEF EndsWith
<1> QED
  BY <1>5, <1>6, <1>7 DEF r, h

LEMMA ToldKept ==
  ASSUME NEW p \in Panels, ToldOf(p),
         session'[p] = session[p], isRegistered'[p] = isRegistered[p],
         \/ handling'[p] = handling[p]
         \/ handling[p].kind \notin Verdicts /\ handling'[p].kind \notin Verdicts,
         \/ responses'[p] = responses[p]
         \/ \E m \in Messages : responses'[p] = Append(responses[p], m) /\ ~Says(m, p),
         responses[p] \in Seq(Messages)
  PROVE  ToldOf(p)'
<1> DEFINE c == IsConnected(p)
<1>1. EndsWith(responses[p], p, c)
  BY DEF ToldOf
<1>2. IsConnected(p)' <=> c
  BY DEF IsConnected
<1>3. EndsWith(responses'[p], p, c) /\ (SaysNothing(responses'[p], p) => SaysNothing(responses[p], p))
  <2>1. CASE responses'[p] = responses[p]
    BY <1>1, <2>1
  <2>2. ASSUME NEW m \in Messages, responses'[p] = Append(responses[p], m), ~Says(m, p)
        PROVE  /\ EndsWith(responses'[p], p, c)
               /\ SaysNothing(responses'[p], p) => SaysNothing(responses[p], p)
    BY <1>1, <2>2, SaidNothingNew
  <2> QED
    BY <2>1, <2>2
<1>4. EndsWith(responses'[p], p, IsConnected(p)')
  BY <1>2, <1>3 DEF EndsWith
<1>5. SaysNothing(responses'[p], p) =>
        IF handling'[p].kind \in Verdicts THEN handling'[p].kind = "register" <=> IsConnected(p)'
                                          ELSE isRegistered'[p] <=> IsConnected(p)'
  BY <1>2, <1>3 DEF ToldOf
<1> QED
  BY <1>4, <1>5 DEF ToldOf

\* A step that says nothing of the panel.
LEMMA WordKept ==
  ASSUME NEW p \in Panels, WordFollows(p),
         session'[p] = session[p], isRegistered'[p] = isRegistered[p], running'[p] = running[p],
         \/ handling'[p] = handling[p]
         \/ handling[p].kind \notin Verdicts /\ handling'[p].kind \notin Verdicts,
         \/ responses'[p] = responses[p]
         \/ \E m \in Messages : responses'[p] = Append(responses[p], m) /\ ~Says(m, p),
         responses[p] \in Seq(Messages),
         Unanswered(p) => Unanswered(p)' /\ serving'.kind = serving.kind,
         Served(p)' => Served(p) /\ serving'.kind = serving.kind,
         resetting'.stage = resetting.stage,
         p \in resetting'.panels <=> p \in resetting.panels
  PROVE  WordFollows(p)'
<1>1. IsConnected(p)' <=> IsConnected(p)
  BY DEF IsConnected
<1>2. ToldOf(p) => ToldOf(p)'
  BY ToldKept
<1>3. Untold(p)' <=> Untold(p)
  BY DEF Untold
<1>4. Unanswered(p)' => Unanswered(p) /\ serving'.kind = serving.kind
  BY DEF Unanswered
<1> QED
  BY <1>1, <1>2, <1>3, <1>4 DEF WordFollows

LEMMA ResponsesOf ==
  ASSUME ClientTyped, NEW p \in Panels
  PROVE  responses[p] \in Seq(Messages)
BY DEF ClientTyped

\* What Publish puts into the queue of a panel.
LEMMA Published ==
  ASSUME ClientTyped, NEW p \in Panels, NEW q \in Panels,
         NEW kind \in Answers \cup {"notify", "done", "shutdown"},
         responses' = Publish(responses, kind, q)
  PROVE  LET m == [kind |-> kind, panel |-> q]
         IN  /\ m \in Messages
             /\ responses'[p] = IF running[p] THEN Append(responses[p], m) ELSE responses[p]
             /\ Says(m, p) <=> q = p /\ kind \in Verdicts
BY DEF Publish, Messages, Says

LEMMA WordApp ==
  ASSUME ClientTyped, NEW p \in Panels, WordFollows(p), p \notin disturbed',
         NEW q \in Panels, AppStep(q)
  PROVE  WordFollows(p)'
<1>0. responses[p] \in Seq(Messages)
  BY ResponsesOf
<1>1. ASSUME NEW kind, AppRequest(q, kind) PROVE WordFollows(p)'
  <2>1. UNCHANGED <<session, isRegistered, running, handling, responses, serving, resetting>>
    BY <1>1 DEF AppRequest, Request, tableVars, netVars, serverVars
  <2> QED
    BY <1>0, <2>1, WordKept DEF Unanswered, Served
<1>2. CASE Send(q, "app")
  <2>1. UNCHANGED <<session, isRegistered, running, handling, responses, serving, resetting>>
    BY <1>2 DEF Send, tableVars, serverVars
  <2> QED
    BY <1>0, <2>1, WordKept DEF Unanswered, Served
<1>3. CASE StartClient(q)
  <2>1. /\ UNCHANGED <<session, isRegistered, handling, responses, serving, resetting>>
        /\ running' = [running EXCEPT ![q] = TRUE] /\ ~running[q]
    BY <1>3 DEF StartClient, tableVars, netVars, serverVars
  <2>2. p # q
    BY <2>1 DEF WordFollows
  <2>3. running'[p] = running[p]
    BY <2>1, <2>2 DEF ClientTyped
  <2> QED
    BY <1>0, <2>1, <2>3, WordKept DEF Unanswered, Served
<1>4. CASE StopClient(q)
  <2>1. /\ UNCHANGED <<session, isRegistered, handling, serving, resetting>>
        /\ running' = [running EXCEPT ![q] = FALSE]
        /\ responses' = [responses EXCEPT ![q] = <<>>]
    BY <1>4 DEF StopClient, tableVars, serverVars
  <2>2. p # q
    BY <1>4 DEF StopClient
  <2>3. running'[p] = running[p] /\ responses'[p] = responses[p]
    BY <2>1, <2>2 DEF ClientTyped
  <2> QED
    BY <1>0, <2>1, <2>3, WordKept DEF Unanswered, Served
<1> QED
  BY <1>1, <1>2, <1>3, <1>4
     DEF AppStep, RegisterConnection, UnregisterConnection, RequestConnectionInfo,
         RequestProcessStart, RequestProcessStop

LEMMA WordReceive ==
  ASSUME ClientTyped, NEW p \in Panels, WordFollows(p), NEW q \in Panels, Receive(q)
  PROVE  WordFollows(p)'
<1>0. /\ responses \in [Panels -> Seq(Messages)] /\ responses[p] \in Seq(Messages)
      /\ handling \in [Panels -> Messages \cup [kind : {"callback"}, event : Listening] \cup {Idle}]
  BY DEF ClientTyped
<1>1. /\ UNCHANGED <<session, isRegistered, running, serving, resetting>>
      /\ responses' = [responses EXCEPT ![q] = Tail(@)]
      /\ responses[q] # <<>> /\ handling[q] = Idle
      /\ handling' = IF Head(responses[q]).panel = q
                     THEN [handling EXCEPT ![q] = Head(responses[q])] ELSE handling
  BY DEF Receive, tableVars, serverVars
<1>2. CASE p # q
  <2>1. responses'[p] = responses[p] /\ handling'[p] = handling[p]
    BY <1>0, <1>1, <1>2
  <2> QED
    BY <1>0, <1>1, <2>1, WordKept DEF Unanswered, Served
<1>3. CASE p = q
  <2> DEFINE h == Head(responses[p])
             c == IsConnected(p)
  <2>1. handling[p].kind \notin Verdicts
    BY <1>1, <1>3 DEF Idle, Nothing, Verdicts
  <2>2. responses'[p] = Tail(responses[p]) /\ responses[p] # <<>>
    BY <1>0, <1>1, <1>3
  <2>3. handling'[p] = IF h.panel = p THEN h ELSE handling[p]
    BY <1>0, <1>1, <1>3
  <2>4. IsConnected(p)' <=> c
    BY <1>1 DEF IsConnected
  <2>5. ASSUME ToldOf(p) PROVE ToldOf(p)'
    <3>1. EndsWith(responses[p], p, c)
      BY <2>5 DEF ToldOf
    <3>2. EndsWith(responses'[p], p, c)
      BY <1>0, <2>2, <3>1, SaidFirst
    <3>3. ASSUME SaysNothing(responses'[p], p), Says(h, p)
          PROVE  IF handling'[p].kind \in Verdicts THEN handling'[p].kind = "register" <=> c
                                                   ELSE isRegistered'[p] <=> c
      <4>1. h.kind = "register" <=> c
        BY <1>0, <2>2, <3>1, <3>3, SaidFirst
      <4> QED
        BY <2>3, <3>3, <4>1 DEF Says
    <3>4. ASSUME SaysNothing(responses'[p], p), ~Says(h, p)
          PROVE  IF handling'[p].kind \in Verdicts THEN handling'[p].kind = "register" <=> c
                                                   ELSE isRegistered'[p] <=> c
      <4>1. SaysNothing(responses[p], p)
        BY <1>0, <2>2, <3>1, <3>4, SaidFirst
      <4>2. handling'[p].kind \notin Verdicts
        BY <2>1, <2>3, <3>4 DEF Says
      <4>3. isRegistered[p] <=> c
        BY <2>1, <2>5, <4>1 DEF ToldOf
      <4> QED
        BY <1>1, <4>2, <4>3
    <3>5. EndsWith(responses'[p], p, IsConnected(p)')
      BY <2>4, <3>2 DEF EndsWith
    <3> HIDE DEF h, c
    <3> QED
      BY <2>4, <3>3, <3>4, <3>5 DEF ToldOf
  <2> QED
    BY <1>1, <2>4, <2>5 DEF WordFollows, Unanswered, Served, Untold
<1> QED
  BY <1>2, <1>3

\* A handler that has done what the message says.
LEMMA WordHandled ==
  ASSUME ClientTyped, NEW p \in Panels, WordFollows(p), NEW q \in Panels,
         OnRegisterResponse(q) \/ OnUnregisterResponse(q) \/ OnShutdownNotify(q)
  PROVE  WordFollows(p)'
<1>0. /\ handling \in [Panels -> Messages \cup [kind : {"callback"}, event : Listening] \cup {Idle}]
      /\ isRegistered \in [Panels -> BOOLEAN] /\ responses[p] \in Seq(Messages)
  BY DEF ClientTyped
<1>1. /\ UNCHANGED <<session, running, responses, serving, resetting>>
      /\ handling[q].kind \in Verdicts
      /\ isRegistered' = [isRegistered EXCEPT ![q] = (handling[q].kind = "register")]
      /\ \E event : Callback(q, event)
  BY DEF OnRegisterResponse, OnUnregisterResponse, OnShutdownNotify, Verdicts, tableVars,
         netVars, serverVars
<1>2. /\ \A x \in Panels : x # q => handling'[x] = handling[x]
      /\ handling'[q].kind \notin Verdicts
  BY <1>0, <1>1 DEF Callback, Idle, Nothing, Verdicts
<1>3. CASE p # q
  <2>1. isRegistered'[p] = isRegistered[p] /\ handling'[p] = handling[p]
    BY <1>0, <1>1, <1>2, <1>3
  <2> QED
    BY <1>0, <1>1, <2>1, WordKept DEF Unanswered, Served
<1>4. CASE p = q
  <2>1. isRegistered'[p] <=> handling[p].kind = "register"
    BY <1>0, <1>1, <1>4
  <2>2. IsConnected(p)' <=> IsConnected(p)
    BY <1>1 DEF IsConnected
  <2>3. ASSUME ToldOf(p) PROVE ToldOf(p)'
    <3>1. EndsWith(responses[p], p, IsConnected(p))
      BY <2>3 DEF ToldOf
    <3>2. EndsWith(responses'[p], p, IsConnected(p)')
      BY <1>1, <2>2, <3>1 DEF EndsWith
    <3>3. SaysNothing(responses'[p], p) => (isRegistered'[p] <=> IsConnected(p)')
      BY <1>1, <1>4, <2>1, <2>2, <2>3 DEF ToldOf
    <3> QED
      BY <1>2, <1>4, <3>2, <3>3 DEF ToldOf
  <2> QED
    BY <1>1, <2>2, <2>3 DEF WordFollows, Unanswered, Served, Untold
<1> QED
  BY <1>3, <1>4

LEMMA WordHandler ==
  ASSUME ClientTyped, NEW p \in Panels, WordFollows(p), NEW q \in Panels, HandlerStep(q)
  PROVE  WordFollows(p)'
<1>0. /\ handling \in [Panels -> Messages \cup [kind : {"callback"}, event : Listening] \cup {Idle}]
      /\ responses[p] \in Seq(Messages)
  BY DEF ClientTyped
<1>1. ASSUME UNCHANGED <<session, isRegistered, running, responses, serving, resetting>>,
             \/ UNCHANGED handling
             \/ /\ handling[q].kind \notin Verdicts
                /\ handling' = [handling EXCEPT ![q] = Idle] \/ \E event : Callback(q, event)
      PROVE  WordFollows(p)'
  <2>1. \/ handling'[p] = handling[p]
        \/ handling[p].kind \notin Verdicts /\ handling'[p].kind \notin Verdicts
    <3>1. CASE UNCHANGED handling
      BY <3>1
    <3>2. CASE handling[q].kind \notin Verdicts /\ handling' = [handling EXCEPT ![q] = Idle]
      BY <1>0, <3>2 DEF Idle, Nothing, Verdicts
    <3>3. ASSUME handling[q].kind \notin Verdicts, NEW event, Callback(q, event)
          PROVE  \/ handling'[p] = handling[p]
                 \/ handling[p].kind \notin Verdicts /\ handling'[p].kind \notin Verdicts
      BY <1>0, <3>3 DEF Callback, Idle, Nothing, Verdicts
    <3> QED
      BY <1>1, <3>1, <3>2, <3>3
  <2> QED
    BY <1>0, <1>1, <2>1, WordKept DEF Unanswered, Served
<1>2. CASE Receive(q)
  BY <1>2, WordReceive
<1>3. CASE Send(q, "callback")
  BY <1>1, <1>3 DEF Send, tableVars, serverVars
<1>4. CASE OnRegisterResponse(q) \/ OnUnregisterResponse(q) \/ OnShutdownNotify(q)
  BY <1>4, WordHandled
<1>5. ASSUME NEW kind \in {"use", "notify", "done"}, NEW event, PassOn(q, kind, event)
      PROVE  WordFollows(p)'
  <2>1. /\ UNCHANGED <<session, isRegistered, running, responses, serving, resetting>>
        /\ handling[q].kind \notin Verdicts /\ Callback(q, event)
    BY <1>5 DEF PassOn, Verdicts, tableVars, netVars, serverVars
  <2> QED
    BY <1>1, <2>1
<1>6. CASE CallbackReturns(q)
  <2>1. /\ UNCHANGED <<session, isRegistered, running, responses, serving, resetting>>
        /\ handling[q].kind \notin Verdicts /\ handling' = [handling EXCEPT ![q] = Idle]
    BY <1>6 DEF CallbackReturns, Verdicts, tableVars, netVars, serverVars
  <2> QED
    BY <1>1, <2>1
<1>7. ASSUME NEW kind, CallbackRequest(q, kind) PROVE WordFollows(p)'
  <2>1. /\ UNCHANGED <<session, isRegistered, running, responses, serving, resetting>>
        /\ handling[q].kind \notin Verdicts /\ handling' = [handling EXCEPT ![q] = Idle]
    BY <1>7 DEF CallbackRequest, Request, Verdicts, tableVars, netVars, serverVars
  <2> QED
    BY <1>1, <2>1
<1>8. CASE \/ OnConnectionInfoResponse(q) \/ OnStartResponse(q) \/ OnStopResponse(q)
           \/ OnRestartNotify(q) \/ OnRestartDone(q)
  BY <1>5, <1>8
     DEF OnConnectionInfoResponse, OnStartResponse, OnStopResponse, OnRestartNotify, OnRestartDone
<1>9. CASE RegisterAgain(q) \/ RequestMore(q) \/ NotifyRestartReady(q)
  BY <1>7, <1>9 DEF RegisterAgain, RequestMore, NotifyRestartReady
<1> QED
  BY <1>2, <1>3, <1>4, <1>6, <1>8, <1>9 DEF HandlerStep

LEMMA WordServed ==
  ASSUME ClientTyped, NEW p \in Panels, WordFollows(p), p \notin disturbed', Serve
  PROVE  WordFollows(p)'
<1>0. /\ responses[p] \in Seq(Messages) /\ serving \in Servings /\ TableTyped
  BY DEF ClientTyped, Serve, Servings
<1>1. /\ UNCHANGED <<isRegistered, running, handling, responses, resetting>>
      /\ serving # Idle /\ serving.stage = "checked" /\ serving' = [serving EXCEPT !.stage = "served"]
      /\ resetting.stage = "no" \/ serving.panel # p
  BY DEF Serve, clientVars, netVars
<1>2. /\ serving' # Idle /\ serving'.panel = serving.panel /\ serving'.kind = serving.kind
      /\ serving'.stage = "served"
  BY <1>0, <1>1 DEF Servings, Idle
<1>3. CASE serving.panel # p
  <2>1. session'[p] = session[p]
    BY <1>0, <1>3 DEF Serve, Register, Unregister, tableVars, TableTyped, Servings
  <2>2. ~Served(p) /\ ~Served(p)'
    BY <1>2, <1>3 DEF Served
  <2> QED
    BY <1>0, <1>1, <2>1, <2>2, WordKept DEF Unanswered
<1>4. CASE serving.panel = p /\ serving.kind \in {"register", "unregister"}
  <2>1. IsConnected(p)' <=> serving.kind = "register"
    BY <1>0, <1>4, NoSessionIsNone DEF Serve, Register, Unregister, TableTyped, IsConnected
  <2>2. Unanswered(p)'
    BY <1>2, <1>4 DEF Unanswered, Served
  <2> QED
    BY <1>1, <1>2, <1>4, <2>1, <2>2 DEF WordFollows
<1>5. CASE serving.panel = p /\ serving.kind \notin {"register", "unregister"}
  <2>1. UNCHANGED session
    BY <1>5 DEF Serve, tableVars
  <2>2. ~Unanswered(p)' /\ ~Unanswered(p)
    BY <1>2, <1>5 DEF Unanswered
  <2>3. IsConnected(p)' <=> IsConnected(p)
    BY <2>1 DEF IsConnected
  <2>4. ToldOf(p) => ToldOf(p)'
    BY <1>0, <1>1, <2>1, ToldKept
  <2> QED
    BY <1>1, <1>5, <2>2, <2>3, <2>4 DEF WordFollows, Untold
<1> QED
  BY <1>3, <1>4, <1>5

\* The last word is on its way.
LEMMA WordSaid ==
  ASSUME ClientTyped, NEW p \in Panels, running[p], NEW kind \in Verdicts,
         responses' = Publish(responses, kind, p), UNCHANGED session,
         kind = "register" <=> IsConnected(p)
  PROVE  ToldOf(p)'
<1> DEFINE m == [kind |-> kind, panel |-> p]
<1>1. m \in Messages /\ Says(m, p) /\ responses'[p] = Append(responses[p], m)
  BY Published DEF Verdicts, Answers
<1>2. (m.kind = "register" <=> IsConnected(p)) /\ responses[p] \in Seq(Messages)
  BY ResponsesOf
<1> HIDE DEF m
<1>3. EndsWith(responses'[p], p, IsConnected(p)) /\ ~SaysNothing(responses'[p], p)
  BY <1>1, <1>2, SaidLast
<1>4. IsConnected(p)' <=> IsConnected(p)
  BY DEF IsConnected
<1>5. EndsWith(responses'[p], p, IsConnected(p)')
  BY <1>3, <1>4 DEF EndsWith
<1> QED
  BY <1>3, <1>5 DEF ToldOf

\* A message that says nothing of the panel.
LEMMA WordPublished ==
  ASSUME ClientTyped, NEW p \in Panels, NEW q \in Panels,
         NEW kind \in Answers \cup {"notify", "done", "shutdown"},
         q # p \/ kind \notin Verdicts,
         responses' = Publish(responses, kind, q)
  PROVE  /\ responses[p] \in Seq(Messages)
         /\ \/ responses'[p] = responses[p]
            \/ \E m \in Messages : responses'[p] = Append(responses[p], m) /\ ~Says(m, p)
<1> DEFINE m == [kind |-> kind, panel |-> q]
<1>1. /\ m \in Messages
      /\ responses'[p] = IF running[p] THEN Append(responses[p], m) ELSE responses[p]
      /\ ~Says(m, p)
  BY Published
<1> QED
  BY <1>1, ResponsesOf

LEMMA WordServer ==
  ASSUME ClientTyped, NEW p \in Panels, WordFollows(p), p \notin disturbed', ServerStep
  PROVE  WordFollows(p)'
<1>0. responses[p] \in Seq(Messages) /\ serving \in Servings \cup {Idle}
  BY DEF ClientTyped, Servings
<1>1. ASSUME NEW q \in Panels, TakeRequest(q) PROVE WordFollows(p)'
  <2>1. /\ UNCHANGED <<session, isRegistered, running, handling, responses, resetting>>
        /\ serving = Idle
    BY <1>1 DEF TakeRequest, tableVars, clientVars
  <2>2. serving' = Idle \/ serving'.stage = "checked"
    BY <1>1 DEF TakeRequest
  <2>3. ~Served(p) /\ ~Served(p)'
    BY <2>1, <2>2 DEF Served
  <2> QED
    BY <1>0, <2>1, <2>3, WordKept DEF Unanswered
<1>2. CASE Serve
  BY <1>2, WordServed
<1>3. CASE Answer
  <2>1. /\ UNCHANGED <<session, isRegistered, running, handling, resetting>>
        /\ serving # Idle /\ serving.stage = "served" /\ serving' = Idle
    BY <1>3 DEF Answer, tableVars, clientVars
  <2>2. serving.kind \in Requests /\ serving.panel \in Panels /\ ~Served(p)' /\ ~Unanswered(p)'
    BY <1>0, <2>1 DEF Servings, Served, Unanswered
  <2>3. CASE Unanswered(p)
    <3>1. /\ serving.kind \in {"register", "unregister"} /\ serving.panel = p
          /\ serving.kind = "register" <=> IsConnected(p)
          /\ running[p] /\ resetting.stage = "no"
      BY <2>3 DEF WordFollows, Unanswered, Served
    <3>2. responses' = Publish(responses, serving.kind, p)
      BY <1>3, <3>1 DEF Answer
    <3>3. ToldOf(p)'
      BY <2>1, <3>1, <3>2, WordSaid DEF Verdicts
    <3> QED
      BY <2>1, <2>2, <3>1, <3>3 DEF WordFollows
  <2>4. CASE ~Unanswered(p)
    <3>1. \/ responses'[p] = responses[p]
          \/ \E m \in Messages : responses'[p] = Append(responses[p], m) /\ ~Says(m, p)
      <4>1. CASE serving.kind \in Answers /\ responses' = Publish(responses, serving.kind, serving.panel)
        <5>1. serving.panel # p \/ serving.kind \notin Verdicts
          BY <2>1, <2>2, <2>4 DEF Unanswered, Served, Verdicts, Requests
        <5> QED
          BY <2>2, <4>1, <5>1, WordPublished
      <4>2. CASE responses' = Publish(responses, "done", serving.panel)
        BY <2>2, <4>2, WordPublished DEF Verdicts
      <4>3. CASE UNCHANGED responses
        BY <4>3
      <4> QED
        BY <1>3, <4>1, <4>2, <4>3 DEF Answer
    <3> QED
      BY <1>0, <2>1, <2>2, <2>4, <3>1, WordKept
  <2> QED
    BY <2>3, <2>4
<1> QED
  BY <1>1, <1>2, <1>3 DEF ServerStep

LEMMA WordReset ==
  ASSUME ClientTyped, NEW p \in Panels, WordFollows(p), p \notin disturbed',
         ResetBegin \/ ResetStep
  PROVE  WordFollows(p)'
<1>0. responses[p] \in Seq(Messages) /\ resetting.panels \subseteq Panels
      /\ resetting \in [stage : {"no", "listed", "cleared"}, panels : SUBSET Panels]
  BY DEF ClientTyped
<1>1. CASE ResetBegin
  <2>1. /\ UNCHANGED <<session, isRegistered, running, handling, responses, serving>>
        /\ resetting.stage = "no" /\ resetting' = [stage |-> "listed", panels |-> Connected]
        /\ serving # Idle => serving.panel # p
    BY <1>1 DEF ResetBegin, tableVars, clientVars, netVars
  <2>2. /\ ~Served(p) /\ ~Served(p)' /\ ~Unanswered(p) /\ ~Untold(p)
        /\ IsConnected(p)' <=> IsConnected(p)
    BY <2>1 DEF Served, Unanswered, Untold, IsConnected
  <2>3. ToldOf(p)'
    BY <1>0, <2>1, <2>2, ToldKept DEF WordFollows
  <2>4. ~Unanswered(p)' /\ (p \in resetting'.panels <=> IsConnected(p))
    BY <2>1, <2>2 DEF Unanswered, Connected
  <2> QED
    BY <2>1, <2>2, <2>3, <2>4 DEF WordFollows
<1>2. CASE ResetClear
  <2>1. /\ UNCHANGED <<isRegistered, running, handling, responses, serving>>
        /\ resetting.stage = "listed" /\ resetting' = [resetting EXCEPT !.stage = "cleared"]
        /\ session' = [q \in Panels |-> NoSession]
    BY <1>2 DEF ResetClear, ClearConnections, clientVars, netVars
  <2>2. /\ resetting'.stage = "cleared" /\ resetting'.panels = resetting.panels
        /\ ~IsConnected(p)' /\ ~Served(p) /\ ~Served(p)' /\ ~Unanswered(p) /\ ~Unanswered(p)'
    BY <1>0, <2>1 DEF WordFollows, Served, Unanswered, IsConnected
  <2>3. CASE p \in resetting.panels
    <3>1. Untold(p)'
      BY <2>2, <2>3 DEF Untold
    <3> QED
      BY <2>1, <2>2, <3>1 DEF WordFollows
  <2>4. CASE p \notin resetting.panels
    <3>1. ~IsConnected(p) /\ ToldOf(p)
      BY <2>1, <2>2, <2>4 DEF WordFollows, Untold
    <3>2. session'[p] = session[p]
      BY <2>1, <3>1 DEF IsConnected
    <3>3. ToldOf(p)'
      BY <1>0, <2>1, <3>1, <3>2, ToldKept
    <3> QED
      BY <2>1, <2>2, <3>3 DEF WordFollows
  <2> QED
    BY <2>3, <2>4
<1>3. CASE ResetNotify
  <2>1. /\ UNCHANGED <<session, isRegistered, running, handling, serving>>
        /\ resetting.stage = "cleared"
    BY <1>3 DEF ResetNotify, tableVars, clientVars
  <2>2. ~IsConnected(p) /\ ~Served(p) /\ ~Served(p)'
    BY <2>1 DEF WordFollows, Served
  <2>3. ASSUME NEW q \in resetting.panels, responses' = Publish(responses, "shutdown", q),
               resetting' = [resetting EXCEPT !.panels = @ \ {q}]
        PROVE  WordFollows(p)'
    <3>1. resetting'.stage = "cleared" /\ resetting'.panels = resetting.panels \ {q} /\ q \in Panels
      BY <1>0, <2>1, <2>3
    <3>2. CASE q = p
      <4>1. ToldOf(p)'
        BY <2>1, <2>2, <2>3, <3>2, WordSaid DEF WordFollows, Verdicts
      <4> QED
        BY <2>1, <2>2, <3>1, <4>1 DEF WordFollows, Unanswered, IsConnected
    <3>3. CASE q # p
      <4>1. \/ responses'[p] = responses[p]
            \/ \E m \in Messages : responses'[p] = Append(responses[p], m) /\ ~Says(m, p)
        BY <2>3, <3>1, <3>3, WordPublished
      <4> QED
        BY <1>0, <2>1, <2>2, <3>1, <3>3, <4>1, WordKept DEF Unanswered
    <3> QED
      BY <3>2, <3>3
  <2>4. CASE /\ resetting.panels = {} /\ UNCHANGED responses
             /\ resetting' = [resetting EXCEPT !.stage = "no"]
    <3>1. resetting'.stage = "no" /\ ~Untold(p) /\ ~Unanswered(p) /\ ~Unanswered(p)'
      BY <1>0, <2>2, <2>4 DEF Untold, Unanswered
    <3>2. ToldOf(p)'
      BY <1>0, <2>1, <2>4, <3>1, ToldKept DEF WordFollows
    <3> QED
      BY <2>1, <3>1, <3>2 DEF WordFollows
  <2> QED
    BY <1>3, <2>3, <2>4 DEF ResetNotify
<1> QED
  BY <1>1, <1>2, <1>3 DEF ResetStep

LEMMA WordNetwork ==
  ASSUME ClientTyped, NEW p \in Panels, WordFollows(p), p \notin disturbed',
         NEW q \in Panels, NotifyRestart(q) \/ LoseRequest(q) \/ LoseResponse(q)
  PROVE  WordFollows(p)'
<1>0. responses[p] \in Seq(Messages)
  BY ResponsesOf
<1>1. UNCHANGED <<session, isRegistered, running, handling, serving, resetting>>
  BY DEF NotifyRestart, LoseRequest, LoseResponse, tableVars, clientVars, serverVars
<1>2. \/ responses'[p] = responses[p]
      \/ \E m \in Messages : responses'[p] = Append(responses[p], m) /\ ~Says(m, p)
  <2>1. CASE NotifyRestart(q)
    <3>1. responses' = Publish(responses, "notify", q) /\ "notify" \notin Verdicts
      BY <2>1 DEF NotifyRestart, Verdicts
    <3> QED
      BY <3>1, WordPublished
  <2>2. CASE LoseRequest(q)
    BY <2>2 DEF LoseRequest
  <2>3. CASE LoseResponse(q)
    BY <2>3 DEF LoseResponse, ClientTyped
  <2> QED
    BY <2>1, <2>2, <2>3
<1> QED
  BY <1>0, <1>1, <1>2, WordKept DEF Unanswered, Served

LEMMA WordWatcher ==
  ASSUME ClientTyped, NEW p \in Panels, WordFollows(p),
         (\E q \in Panels : WatcherStep(q)) \/ UNCHANGED vars
  PROVE  WordFollows(p)'
<1>1. UNCHANGED <<session, isRegistered, running, handling, responses, serving, resetting>>
  BY DEF WatcherStep, WatcherWaits, WatcherExpires, WatcherReports, tableVars, clientVars, netVars, serverVars, vars
<1> QED
  BY <1>1, ResponsesOf, WordKept DEF Unanswered, Served

\* A panel that nothing has come across yet was undisturbed before, too.
LEMMA DisturbedStays ==
  ASSUME [ClientNext]_vars
  PROVE  disturbed \subseteq disturbed'
<1>1. CASE UNCHANGED vars
  BY <1>1 DEF vars, histVars
<1>2. ASSUME NEW p \in Panels, AppStep(p) PROVE disturbed \subseteq disturbed'
  BY <1>2 DEF AppStep, RegisterConnection, UnregisterConnection, RequestConnectionInfo,
     RequestProcessStart, RequestProcessStop, AppRequest, Request, Send, StartClient, StopClient,
     histVars
<1>3. ASSUME NEW p \in Panels, HandlerStep(p) PROVE disturbed \subseteq disturbed'
  BY <1>3 DEF HandlerStep, Receive, Send, OnRegisterResponse, OnUnregisterResponse,
     OnShutdownNotify, OnConnectionInfoResponse, OnStartResponse, OnStopResponse,
     OnRestartNotify, OnRestartDone, PassOn, CallbackReturns, RegisterAgain, RequestMore,
     NotifyRestartReady, CallbackRequest, Request, histVars
<1>4. ASSUME NEW p \in Panels,
             WatcherStep(p) \/ NotifyRestart(p) \/ LoseRequest(p) \/ LoseResponse(p) \/ TakeRequest(p)
      PROVE  disturbed \subseteq disturbed'
  BY <1>4 DEF WatcherStep, WatcherWaits, WatcherExpires, WatcherReports, NotifyRestart, LoseRequest,
     LoseResponse, TakeRequest, histVars
<1>5. CASE Serve \/ Answer \/ ResetBegin \/ ResetStep
  BY <1>5 DEF Serve, Answer, ResetBegin, ResetStep, ResetClear, ResetNotify, histVars
<1> QED
  BY <1>1, <1>2, <1>3, <1>4, <1>5 DEF ClientNext, ServerStep

\* For any panels, sessions, listeners and bounds: whatever requests, registrations by
\* callbacks, notifications and resets have crossed each other, when all is quiet a panel that
\* no loss, stop or reset under way has come across believes what the hub's table says of it.
THEOREM RegistrationAgreesHolds == ClientSpec => []RegistrationAgrees
<1>1. ASSUME ClientInit PROVE AgreementFollows
  <2> SUFFICES ASSUME NEW p \in Panels PROVE WordFollows(p)
    BY DEF AgreementFollows
  <2>1. /\ ~IsConnected(p) /\ ~isRegistered[p] /\ running[p] /\ responses[p] = <<>>
        /\ handling[p].kind \notin Verdicts /\ serving = Idle /\ resetting.stage = "no"
    BY <1>1 DEF ClientInit, TableInit, IsConnected, Idle, Nothing, Verdicts
  <2>2. EndsWith(responses[p], p, IsConnected(p))
    BY <2>1 DEF EndsWith
  <2> QED
    BY <2>1, <2>2 DEF WordFollows, ToldOf, Served, Unanswered
<1>2. ClientTyped /\ AgreementFollows /\ [ClientNext]_vars => AgreementFollows'
  <2> SUFFICES ASSUME ClientTyped, AgreementFollows, [ClientNext]_vars,
                      NEW p \in Panels, p \notin disturbed'
               PROVE  WordFollows(p)'
    BY DEF AgreementFollows
  <2>1. WordFollows(p)
    BY DisturbedStays DEF AgreementFollows
  <2> QED
    BY <2>1, WordApp, WordHandler, WordWatcher, WordServer, WordReset, WordNetwork DEF ClientNext
<1>3. AgreementFollows => RegistrationAgrees
  <2> SUFFICES ASSUME AgreementFollows, NEW p \in Panels, p \notin disturbed, Quiet(p)
               PROVE  isRegistered[p] <=> IsConnected(p)
    BY DEF RegistrationAgrees
  <2>1. WordFollows(p) /\ ~Unanswered(p) /\ ~Untold(p)
    BY DEF AgreementFollows, Quiet, Unanswered, Served, Untold
  <2>2. SaysNothing(responses[p], p) /\ handling[p].kind \notin Verdicts
    BY DEF Quiet, SaysNothing, Says, Idle, Nothing, Verdicts
  <2> QED
    BY <2>1, <2>2 DEF WordFollows, ToldOf
<1> QED
  BY <1>1, <1>2, <1>3, ClientIsTyped, PTL DEF ClientSpec
=============================================================================
