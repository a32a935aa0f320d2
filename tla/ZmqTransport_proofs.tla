------------------------- MODULE ZmqTransport_proofs -------------------------
(***************************************************************************)
(* For any nodes, topics and bounds: the types of the ZeroMQ transport, that  *)
(* what is registered with a client that is up is or will be subscribed, that *)
(* no handler begins after stop, and the order in which handlers see the       *)
(* messages of a sender.                                                    *)
(***************************************************************************)
EXTENDS ZmqTransport, TLAPS

\* How many of a node's threads have begun to send and not scheduled anything yet.
Sending(n, t) == IF calls[n][t].op = "send" THEN 1 ELSE 0
Pending(n) == Sending(n, "app") + Sending(n, "worker")

\* What the types rest on: a client that is being stopped is told so, one whose topics are
\* being copied has no loop yet, no more than one that is still to be made, and whatever
\* was scheduled was an input.
CallsAgree ==
  /\ \A n \in Nodes : calls[n]["app"].op = "stop" => client[n] # 0 /\ ~running[Of(n)]
  /\ \A n \in Nodes : calls[n]["app"].op = "copy" => client[n] # 0 /\ stage[Of(n)] = "none"
  /\ \A c \in Clients : c[2] > started[c[1]] => stage[c] = "none"
  /\ \A c \in Clients : stage[c] = "none" => ~running[c]
  /\ \A c \in Clients : sends[c] + Pending(c[1]) <= inputs

ZmqInv == ZmqTyped /\ CallsAgree

-----------------------------------------------------------------------------
(* Types.                                                                   *)

LEMMA SeqFacts ==
  ASSUME NEW S, NEW q \in Seq(S)
  PROVE  /\ \A e \in S : Append(q, e) \in Seq(S)
         /\ q # <<>> => Head(q) \in S /\ Tail(q) \in Seq(S)
         /\ <<>> \in Seq(S)
OBVIOUS

LEMMA CallFacts ==
  /\ Nothing \in Calls /\ Nothing.op = "none"
  /\ [op |-> "start"] \in Calls /\ [op |-> "stop"] \in Calls
  /\ \A known \in SUBSET Topics : [op |-> "copy", topics |-> known] \in Calls
  /\ \A topic \in Topics : \A k \in 1..MaxStarts :
       [op |-> "register", topic |-> topic, client |-> k, added |-> FALSE] \in Calls
  /\ \A topic \in Topics : [op |-> "send", topic |-> topic] \in Calls
  /\ \A m \in Message, r \in {"none", "sent", "unsent"} :
       [op |-> "wait", message |-> m, result |-> r] \in Calls
BY DEF Calls, Nothing

LEMMA CallTopic ==
  ASSUME NEW call \in Calls, call.op = "send"
  PROVE  call.topic \in Topics
BY DEF Calls

LEMMA CallCopy ==
  ASSUME NEW call \in Calls, call.op = "copy"
  PROVE  call.topics \subseteq Topics
BY DEF Calls

LEMMA CallRegister ==
  ASSUME NEW call \in Calls, call.op = "register"
  PROVE  /\ call.topic \in Topics /\ call.client \in 1..MaxStarts /\ call.added \in BOOLEAN
         /\ [call EXCEPT !.added = TRUE] \in Calls
         /\ LET next == [call EXCEPT !.added = TRUE] IN
              /\ next.op = "register" /\ next.topic = call.topic /\ next.client = call.client
              /\ next.added
<1> DEFINE R == [op : {"register"}, topic : Topics, client : 1..MaxStarts, added : BOOLEAN]
<1>1. call \in R
  BY DEF Calls
<1>2. /\ call.topic \in Topics /\ call.client \in 1..MaxStarts /\ call.added \in BOOLEAN
      /\ [call EXCEPT !.added = TRUE] \in R
  BY <1>1
<1>3. LET next == [call EXCEPT !.added = TRUE] IN
        /\ next.op = "register" /\ next.topic = call.topic /\ next.client = call.client
        /\ next.added
  BY <1>1
<1> QED
  BY <1>2, <1>3 DEF Calls

LEMMA CallResult ==
  ASSUME NEW call \in Calls, call.op = "wait", NEW r \in {"sent", "unsent"}
  PROVE  [call EXCEPT !.result = r] \in Calls /\ [call EXCEPT !.result = r].op = "wait"
BY DEF Calls

LEMMA CoroutineFacts ==
  /\ \A topic \in Topics : [op |-> "subscribe", topic |-> topic] \in Coroutines
  /\ \A m \in Message : [op |-> "send", message |-> m] \in Coroutines
  /\ \A k \in Coroutines : /\ k.op = "subscribe" => k.topic \in Topics
                           /\ k.op = "send" => k.message \in Message
BY DEF Coroutines

LEMMA OfClient ==
  ASSUME ZmqTyped, NEW n \in Nodes, client[n] # 0
  PROVE  Of(n) \in Clients /\ Of(n)[1] = n /\ Of(n)[2] = client[n]
BY ZmqAssumptions DEF ZmqTyped, Of, Clients

\* The message that is scheduled next is one, as long as an input is left for it.
LEMMA NextIsMessage ==
  ASSUME ZmqTyped, NEW c \in Clients, NEW topic \in Topics, sends[c] < MaxInputs
  PROVE  NextMessage(c, topic) \in Message
BY ZmqAssumptions DEF ZmqTyped, NextMessage, Message

LEMMA ResolvedFacts ==
  ASSUME ZmqTyped, NEW m, NEW r \in {"sent", "unsent"}
  PROVE  /\ Resolved(m, r) \in [Nodes -> [Threads -> Calls]]
         /\ \A n \in Nodes : \A t \in Threads : Resolved(m, r)[n][t].op = calls[n][t].op
<1>1. ASSUME NEW n \in Nodes, NEW t \in Threads
      PROVE  /\ Resolved(m, r)[n][t] \in Calls
             /\ Resolved(m, r)[n][t].op = calls[n][t].op
  <2>1. calls[n][t] \in Calls
    BY DEF ZmqTyped
  <2>2. Resolved(m, r)[n][t] = IF calls[n][t].op = "wait" /\ calls[n][t].message = m
                              THEN [calls[n][t] EXCEPT !.result = r] ELSE calls[n][t]
    BY DEF Resolved
  <2> QED
    BY <2>1, <2>2, CallResult
<1> QED
  BY <1>1 DEF Resolved

LEMMA PublishTyped ==
  ASSUME ZmqTyped, NEW m \in Message, Publish(m)
  PROVE  inbound' \in [Clients -> Seq(Message)]
BY SeqFacts DEF ZmqTyped, Publish

LEMMA ScheduleTyped ==
  ASSUME ZmqTyped, NEW c \in Clients, NEW topic \in Topics, Schedule(c, topic),
         sends[c] < MaxInputs
  PROVE  /\ sends' \in [Clients -> 0..MaxInputs]
         /\ scheduled' \in [Clients -> Seq(Coroutines)]
<1>1. [op |-> "send", message |-> NextMessage(c, topic)] \in Coroutines
  BY NextIsMessage, CoroutineFacts
<1>2. Append(scheduled[c], [op |-> "send", message |-> NextMessage(c, topic)]) \in Seq(Coroutines)
  BY <1>1, SeqFacts DEF ZmqTyped
<1> QED
  BY <1>2, ZmqAssumptions DEF ZmqTyped, Schedule

\* A message that is taken changes the sockets only, and what handlers have seen.
LEMMA TakeTyped ==
  ASSUME ZmqTyped, NEW c \in Clients, TakeMessage(c)
  PROVE  /\ inbound' \in [Clients -> Seq(Message)] /\ others' \in [Clients -> BOOLEAN]
         /\ delivered' \in [Clients -> [Clients -> 0..MaxInputs]]
         /\ handling' \in [Clients -> [op : {"none", "handle", "wait"}]]
<1>1. handling' \in [Clients -> [op : {"none", "handle", "wait"}]]
  BY DEF ZmqTyped, TakeMessage
<1>2. CASE /\ others[c]
           /\ others' = [others EXCEPT ![c] = FALSE]
           /\ UNCHANGED <<inbound, delivered>>
  BY <1>1, <1>2 DEF ZmqTyped
<1>3. CASE /\ inbound[c] # <<>>
           /\ inbound' = [inbound EXCEPT ![c] = Tail(@)]
           /\ delivered' = [delivered EXCEPT ![c][Head(inbound[c]).from] = Head(inbound[c]).number]
           /\ UNCHANGED others
  <2>1. inbound[c] \in Seq(Message)
    BY DEF ZmqTyped
  <2>2. Head(inbound[c]) \in Message /\ Tail(inbound[c]) \in Seq(Message)
    BY <1>3, <2>1, SeqFacts
  <2>3. inbound' \in [Clients -> Seq(Message)]
    BY <1>3, <2>2 DEF ZmqTyped
  <2>4. Head(inbound[c]).from \in Clients /\ Head(inbound[c]).number \in 0..MaxInputs
    BY <2>2 DEF Message
  <2>5. delivered' \in [Clients -> [Clients -> 0..MaxInputs]]
    BY <1>3, <2>4 DEF ZmqTyped
  <2> QED
    BY <1>1, <1>3, <2>3, <2>5 DEF ZmqTyped
<1> QED
  BY <1>2, <1>3 DEF TakeMessage

\* What a step on the loop preserves that says nothing of the calls of threads.
LEMMA LoopKept ==
  ASSUME ZmqInv, ZmqTyped',
         UNCHANGED <<nodeVars, sends, inputs>>,
         \A c \in Clients : /\ stage'[c] = "none" <=> stage[c] = "none"
                            /\ running'[c] => running[c]
  PROVE  ZmqInv'
<1>1. \A n \in Nodes : Pending(n)' = Pending(n)
  BY DEF Pending, Sending, nodeVars
<1>2. \A n \in Nodes : client[n] # 0 => Of(n) \in Clients
  BY OfClient DEF ZmqInv
<1>3. \A c \in Clients : c[1] \in Nodes
  BY DEF Clients
<1> QED
  BY <1>1, <1>2, <1>3 DEF ZmqInv, CallsAgree, Of, nodeVars

LEMMA MainInv ==
  ASSUME ZmqInv, NEW c \in Clients, Main(c)
  PROVE  ZmqInv'
<1>0. <<>> \in Seq(Coroutines) /\ <<>> \in Seq(Message)
  BY SeqFacts
<1>1. PICK from \in Stages \ {"none"}, to \in Stages \ {"none"} : MainGoesOn(c, from, to)
  BY DEF Main, Subscribes, OpenSubSocket, BeginSubscribing, SubscribeNext, EndSubscribing,
         BreakLoop, OpenPubSocket, BeginClosing, EndClosing, Stages
<1>2. /\ subscriber' \in [Clients -> BOOLEAN] /\ subscribed' \in [Clients -> SUBSET Topics]
      /\ scheduled' \in [Clients -> Seq(Coroutines)] /\ inbound' \in [Clients -> Seq(Message)]
  <2>1. CASE SubscribeNext(c)
    <3>1. PICK topic \in topics[c] \ subscribed[c] : subscribed' = [subscribed EXCEPT ![c] = @ \cup {topic}]
      BY <2>1 DEF SubscribeNext
    <3>2. topic \in Topics
      BY <3>1 DEF ZmqInv, ZmqTyped
    <3> QED
      BY <2>1, <3>1, <3>2 DEF SubscribeNext, ZmqInv, ZmqTyped
  <2>2. CASE OpenSubSocket(c) \/ BeginSubscribing(c) \/ EndSubscribing(c)
    BY <2>2 DEF OpenSubSocket, BeginSubscribing, EndSubscribing, ZmqInv, ZmqTyped
  <2>3. CASE BreakLoop(c)
    BY <1>0, <2>3 DEF BreakLoop, ZmqInv, ZmqTyped
  <2>4. CASE OpenPubSocket(c)
    BY <2>4 DEF OpenPubSocket, ZmqInv, ZmqTyped
  <2>5. CASE BeginClosing(c)
    BY <2>5 DEF BeginClosing, ZmqInv, ZmqTyped
  <2>6. CASE EndClosing(c)
    BY <1>0, <2>6 DEF EndClosing, ZmqInv, ZmqTyped
  <2> QED
    BY <2>1, <2>2, <2>3, <2>4, <2>5, <2>6 DEF Main, Subscribes
<1>3. /\ stage' \in [Clients -> Stages] /\ others' \in [Clients -> BOOLEAN]
      /\ \A e \in Clients : stage'[e] = "none" <=> stage[e] = "none"
      /\ UNCHANGED <<nodeVars, running, topics, handling, sends, histVars>>
  BY <1>1 DEF MainGoesOn, ZmqInv, ZmqTyped
<1>4. ZmqTyped'
  BY <1>2, <1>3 DEF ZmqInv, ZmqTyped, nodeVars, histVars
<1> QED
  BY <1>3, <1>4, LoopKept DEF histVars

LEMMA LoopInv ==
  ASSUME ZmqInv, NEW c \in Clients,
         \/ Main(c) \/ RunSubscribe(c) \/ Receive(c) \/ HandlerGoesOn(c) \/ OthersPublish(c)
  PROVE  ZmqInv'
<1>1. CASE Main(c)
  BY <1>1, MainInv
<1>2. CASE RunSubscribe(c)
  <2>1. /\ scheduled' \in [Clients -> Seq(Coroutines)]
        /\ subscribed' \in [Clients -> SUBSET Topics]
    BY <1>2, SeqFacts, CoroutineFacts DEF ZmqInv, ZmqTyped, RunSubscribe
  <2>2. ZmqTyped'
    BY <1>2, <2>1 DEF ZmqInv, ZmqTyped, RunSubscribe, nodeVars, histVars
  <2> QED
    BY <1>2, <2>2, LoopKept DEF RunSubscribe, histVars
<1>3. CASE Receive(c) \/ HandlerFollows(c)
  <2>1. /\ TakeMessage(c)
        /\ UNCHANGED <<nodeVars, running, stage, subscriber, topics, subscribed,
                       scheduled, sends, inputs>>
    BY <1>3 DEF Receive, HandlerFollows
  <2>2. ZmqTyped'
    BY <2>1, TakeTyped DEF ZmqInv, ZmqTyped, nodeVars
  <2> QED
    BY <2>1, <2>2, LoopKept
<1>4. CASE HandlerSendReturns(c)
  <2>1. handling' = [handling EXCEPT ![c] = [handling[c] EXCEPT !.op = "handle"]]
    BY <1>4 DEF HandlerSendReturns
  <2>2. [handling[c] EXCEPT !.op = "handle"] \in [op : {"none", "handle", "wait"}]
    BY DEF ZmqInv, ZmqTyped
  <2>3. handling' \in [Clients -> [op : {"none", "handle", "wait"}]]
    BY <2>1, <2>2 DEF ZmqInv, ZmqTyped
  <2>4. ZmqTyped'
    BY <1>4, <2>3 DEF ZmqInv, ZmqTyped, HandlerSendReturns, nodeVars, histVars
  <2> QED
    BY <1>4, <2>4, LoopKept DEF HandlerSendReturns, histVars
<1>5. CASE HandlerReturns(c)
  <2>1. handling' \in [Clients -> [op : {"none", "handle", "wait"}]]
    BY <1>5 DEF ZmqInv, ZmqTyped, HandlerReturns, Nothing
  <2>2. ZmqTyped'
    BY <1>5, <2>1 DEF ZmqInv, ZmqTyped, HandlerReturns, nodeVars, histVars
  <2> QED
    BY <1>5, <2>2, LoopKept DEF HandlerReturns, histVars
<1>6. CASE OthersPublish(c)
  <2>1. ZmqTyped'
    BY <1>6 DEF ZmqInv, ZmqTyped, OthersPublish, nodeVars, histVars
  <2> QED
    BY <1>6, <2>1, LoopKept DEF OthersPublish, histVars
<1> QED
  BY <1>1, <1>2, <1>3, <1>4, <1>5, <1>6 DEF HandlerGoesOn

LEMMA RunSendInv ==
  ASSUME ZmqInv, NEW c \in Clients, RunSend(c)
  PROVE  ZmqInv'
<1> DEFINE m == Head(scheduled[c]).message
           r == IF HasPubSocket(c) THEN "sent" ELSE "unsent"
<1>1. scheduled[c] \in Seq(Coroutines) /\ scheduled[c] # <<>> /\ Head(scheduled[c]).op = "send"
  BY DEF ZmqInv, ZmqTyped, RunSend
<1>2. m \in Message /\ Tail(scheduled[c]) \in Seq(Coroutines)
  BY <1>1, SeqFacts, CoroutineFacts
<1>3. /\ scheduled' = [scheduled EXCEPT ![c] = Tail(@)]
      /\ calls' = Resolved(m, r)
      /\ Publish(m) \/ UNCHANGED inbound
      /\ UNCHANGED <<brokerRunning, handlers, client, started, running, stage, subscriber, topics,
                     subscribed, others, handling, sends, delivered, inputs>>
  BY DEF RunSend
<1> HIDE DEF m
<1>4. inbound' \in [Clients -> Seq(Message)]
  BY <1>2, <1>3, PublishTyped DEF ZmqInv, ZmqTyped
<1>5. /\ calls' \in [Nodes -> [Threads -> Calls]]
      /\ \A n \in Nodes : \A t \in Threads : calls'[n][t].op = calls[n][t].op
  BY <1>3, ResolvedFacts DEF ZmqInv
<1>6. ZmqTyped'
  BY <1>2, <1>3, <1>4, <1>5 DEF ZmqInv, ZmqTyped
<1>7. CallsAgree'
  BY <1>3, <1>5 DEF ZmqInv, CallsAgree, Pending, Sending, Of, Threads, Clients
<1> QED
  BY <1>6, <1>7 DEF ZmqInv

LEMMA HandlerSendsInv ==
  ASSUME ZmqInv, NEW c \in Clients, NEW topic \in Topics, HandlerSends(c, topic)
  PROVE  ZmqInv'
<1> DEFINE n == c[1]
           d == Of(n)
<1>1. n \in Nodes /\ client[n] # 0 /\ inputs' = inputs + 1 /\ inputs < MaxInputs /\ Schedule(d, topic)
  BY DEF HandlerSends, CanSchedule, Input, Clients
<1>2. d \in Clients
  BY <1>1, OfClient DEF ZmqInv
<1> HIDE DEF n, d
<1>3. Pending(d[1]) \in Nat /\ sends[d] \in Nat /\ inputs \in Nat /\ MaxInputs \in Nat
      /\ sends[d] + Pending(d[1]) <= inputs
  <2>1. sends[d] + Pending(d[1]) <= inputs
    BY <1>2 DEF ZmqInv, CallsAgree
  <2>2. sends[d] \in Nat /\ inputs \in Nat /\ MaxInputs \in Nat
    BY <1>2, ZmqAssumptions DEF ZmqInv, ZmqTyped
  <2>3. Pending(d[1]) \in Nat
    BY DEF Pending, Sending
  <2> QED
    BY <2>1, <2>2, <2>3
<1>4. sends' \in [Clients -> 0..MaxInputs] /\ scheduled' \in [Clients -> Seq(Coroutines)]
  BY <1>1, <1>2, <1>3, ScheduleTyped DEF ZmqInv
<1>5. \E op \in {"handle", "wait"} : handling' = [handling EXCEPT ![c] = [handling[c] EXCEPT !.op = op]]
  BY DEF HandlerSends
<1>6. \A op \in {"handle", "wait"} : [handling[c] EXCEPT !.op = op] \in [op : {"none", "handle", "wait"}]
  BY DEF ZmqInv, ZmqTyped
<1>7. handling' \in [Clients -> [op : {"none", "handle", "wait"}]]
  BY <1>5, <1>6 DEF ZmqInv, ZmqTyped
<1>8. UNCHANGED <<nodeVars, running, stage, subscriber, topics, subscribed, inbound, others, delivered>>
  BY DEF HandlerSends
<1>9. ZmqTyped'
  <2>1. inputs' \in 0..MaxInputs
    BY <1>1, <1>3
  <2> QED
    BY <2>1, <1>4, <1>7, <1>8 DEF ZmqInv, ZmqTyped, nodeVars
<1>10. ASSUME NEW e \in Clients PROVE sends'[e] + Pending(e[1])' <= inputs'
  <2>1. Pending(e[1])' = Pending(e[1]) /\ Pending(e[1]) \in Nat
    BY <1>8 DEF Pending, Sending, nodeVars
  <2>2. sends'[e] <= sends[e] + 1 /\ sends[e] \in Nat /\ sends'[e] \in Nat
    <3>1. sends' = [sends EXCEPT ![d] = sends[d] + 1]
      BY <1>1 DEF Schedule
    <3> QED
      <4>1. sends \in [Clients -> 0..MaxInputs] /\ sends[e] \in 0..MaxInputs /\ sends'[e] \in 0..MaxInputs
        BY <1>4 DEF ZmqInv, ZmqTyped
      <4>2. sends'[e] = IF e = d THEN sends[e] + 1 ELSE sends[e]
        BY <3>1, <4>1
      <4> QED
        BY <1>3, <4>1, <4>2
  <2>3. sends[e] + Pending(e[1]) <= inputs
    BY DEF ZmqInv, CallsAgree
  <2> QED
    BY <1>1, <1>3, <2>1, <2>2, <2>3
<1>11. CallsAgree'
  BY <1>8, <1>10 DEF CallsAgree, ZmqInv, nodeVars, Of
<1> QED
  BY <1>9, <1>11 DEF ZmqInv

\* A thread's call ends, or goes on to another stage, and counts as one to send only
\* where it did before.
LEMMA CallsInv ==
  ASSUME ZmqTyped, NEW n \in Nodes, NEW t \in Threads, NEW call \in Calls,
         calls' = [calls EXCEPT ![n][t] = call], call.op # "send"
  PROVE  /\ calls' \in [Nodes -> [Threads -> Calls]]
         /\ \A k \in Nodes : Pending(k) \in 0..2 /\ Pending(k)' \in 0..2 /\ Pending(k)' <= Pending(k)
         /\ \A k \in Nodes \ {n} : Pending(k)' = Pending(k)
         /\ Pending(n)' = Pending(n) - Sending(n, t)
         /\ \A k \in Nodes, u \in Threads : calls'[k][u] = IF k = n /\ u = t THEN call ELSE calls[k][u]
<1>1. calls \in [Nodes -> [Threads -> Calls]]
  BY DEF ZmqTyped
<1>2. calls' \in [Nodes -> [Threads -> Calls]]
  BY <1>1
<1>3. \A k \in Nodes, u \in Threads : calls'[k][u] = IF k = n /\ u = t THEN call ELSE calls[k][u]
  BY <1>1
<1>4. \A k \in Nodes : Pending(k) \in 0..2 /\ Pending(k)' \in 0..2
  BY DEF Pending, Sending
<1>5. \A k \in Nodes \ {n} : Pending(k)' = Pending(k)
  BY <1>3 DEF Pending, Sending, Threads
<1>6. Sending(n, t)' = 0
  BY <1>3 DEF Sending
<1>7. \A u \in Threads \ {t} : Sending(n, u)' = Sending(n, u)
  BY <1>3 DEF Sending
<1>8. Pending(n)' = Pending(n) - Sending(n, t)
  <2>1. \A u \in Threads : Sending(n, u) \in 0..1
    BY DEF Sending
  <2>2. CASE t = "app"
    BY <1>6, <1>7, <2>1, <2>2 DEF Pending, Threads
  <2>3. CASE t = "worker"
    BY <1>6, <1>7, <2>1, <2>3 DEF Pending, Threads
  <2> QED
    BY <2>2, <2>3 DEF Threads
<1>9. Sending(n, t) \in 0..1
  BY DEF Sending
<1>10. \A k \in Nodes : Pending(k)' <= Pending(k)
  BY <1>4, <1>5, <1>8, <1>9
<1> QED
  BY <1>2, <1>3, <1>4, <1>5, <1>8, <1>10

\* A thread's call goes on to a stage that is none of those the others are told by.
LEMMA AgreeKept ==
  ASSUME ZmqInv, NEW n \in Nodes, NEW t \in Threads, NEW call \in Calls,
         calls' = [calls EXCEPT ![n][t] = call], call.op \notin {"send", "stop", "copy"},
         UNCHANGED <<client, started, sends>>, inputs' \in {inputs, inputs + 1},
         \A c \in Clients : /\ stage'[c] = "none" <=> stage[c] = "none"
                            /\ running'[c] => running[c]
  PROVE  calls' \in [Nodes -> [Threads -> Calls]] /\ CallsAgree'
<1>1. /\ calls' \in [Nodes -> [Threads -> Calls]]
      /\ \A k \in Nodes : Pending(k)' \in 0..2 /\ Pending(k)' <= Pending(k) /\ Pending(k) \in 0..2
      /\ \A k \in Nodes, u \in Threads : calls'[k][u] = IF k = n /\ u = t THEN call ELSE calls[k][u]
  BY CallsInv DEF ZmqInv
<1>2. \A k \in Nodes : \A op \in {"stop", "copy"} :
        calls'[k]["app"].op = op => calls[k]["app"].op = op
  BY <1>1 DEF Threads
<1>3. \A k \in Nodes : client[k] # 0 => Of(k) \in Clients
  BY OfClient DEF ZmqInv
<1>4. ASSUME NEW e \in Clients PROVE sends'[e] + Pending(e[1])' <= inputs'
  <2>1. e[1] \in Nodes /\ sends[e] \in 0..MaxInputs /\ inputs \in 0..MaxInputs
    BY DEF Clients, ZmqInv, ZmqTyped
  <2>2. sends[e] + Pending(e[1]) <= inputs
    BY DEF ZmqInv, CallsAgree
  <2> QED
    BY ZmqAssumptions, <1>1, <2>1, <2>2
<1>5. /\ \A k \in Nodes : calls'[k]["app"].op = "stop" => client'[k] # 0 /\ ~running'[<<k, client'[k]>>]
      /\ \A k \in Nodes : calls'[k]["app"].op = "copy" => client'[k] # 0 /\ stage'[<<k, client'[k]>>] = "none"
      /\ \A c \in Clients : c[2] > started'[c[1]] => stage'[c] = "none"
      /\ \A c \in Clients : stage'[c] = "none" => ~running'[c]
  BY <1>2, <1>3 DEF ZmqInv, CallsAgree, Of
<1> QED
  BY <1>1, <1>4, <1>5 DEF CallsAgree, Of

\* A thread's call ends.
LEMMA EndedInv ==
  ASSUME ZmqInv, NEW n \in Nodes, NEW t \in Threads, calls' = [calls EXCEPT ![n][t] = Nothing],
         UNCHANGED <<brokerRunning, handlers, client, started, loopVars, histVars>>
  PROVE  ZmqInv'
<1>1. Nothing \in Calls /\ Nothing.op \notin {"send", "stop", "copy"}
  BY CallFacts
<1>2. calls' \in [Nodes -> [Threads -> Calls]] /\ CallsAgree'
  BY <1>1, AgreeKept DEF loopVars, histVars
<1> QED
  BY <1>2 DEF ZmqInv, ZmqTyped, loopVars, histVars

\* The client that a call registers a topic with is one that was made.
LEMMA RegisterInv ==
  ASSUME ZmqInv, NEW n \in Nodes, NEW t \in Threads,
         \/ \E topic \in Topics : RegisterHandler(n, t, topic)
         \/ RegisterTopic(n, t) \/ SubscribeLate(n, t)
  PROVE  ZmqInv'
<1>0. MaxStarts \in Nat /\ MaxInputs \in Nat
  BY ZmqAssumptions
<1>1. ASSUME NEW topic \in Topics, RegisterHandler(n, t, topic) PROVE ZmqInv'
  <2> DEFINE call == IF client[n] = 0 THEN Nothing
                     ELSE [op |-> "register", topic |-> topic, client |-> client[n], added |-> FALSE]
  <2>1. call \in Calls /\ call.op \notin {"send", "stop", "copy"}
    <3>1. CASE client[n] = 0
      BY <3>1, CallFacts
    <3>2. CASE client[n] # 0
      <4>1. client[n] \in 1..MaxStarts
        BY <1>0, <3>2 DEF ZmqInv, ZmqTyped
      <4> QED
        BY <3>2, <4>1, CallFacts
    <3> QED
      BY <3>1, <3>2
  <2>2. /\ calls' = [calls EXCEPT ![n][t] = call]
        /\ handlers' = [handlers EXCEPT ![n] = @ \cup {topic}]
        /\ inputs' = inputs + 1 /\ inputs < MaxInputs
        /\ UNCHANGED <<brokerRunning, client, started, loopVars, delivered>>
    BY <1>1 DEF RegisterHandler, Input
  <2> HIDE DEF call
  <2>3. calls' \in [Nodes -> [Threads -> Calls]] /\ CallsAgree'
    BY <2>1, <2>2, AgreeKept DEF loopVars
  <2>4. inputs' \in 0..MaxInputs /\ handlers' \in [Nodes -> SUBSET Topics]
    BY <1>0, <2>2 DEF ZmqInv, ZmqTyped
  <2> QED
    BY <2>2, <2>3, <2>4 DEF ZmqInv, ZmqTyped, loopVars
<1>2. CASE RegisterTopic(n, t)
  <2> DEFINE call == [calls[n][t] EXCEPT !.added = TRUE]
             c == <<n, calls[n][t].client>>
  <2>1. calls[n][t] \in Calls /\ calls[n][t].op = "register"
    BY <1>2 DEF RegisterTopic, ZmqInv, ZmqTyped
  <2>2. call \in Calls /\ call.op \notin {"send", "stop", "copy"} /\ c \in Clients /\ calls[n][t].topic \in Topics
    BY <2>1, CallRegister DEF Clients
  <2>3. /\ calls' = [calls EXCEPT ![n][t] = call]
        /\ topics' = [topics EXCEPT ![c] = @ \cup {calls[n][t].topic}]
        /\ stage' = stage \/ (stage[c] = "subscribing" /\ stage' = [stage EXCEPT ![c] = "overtaken"])
        /\ UNCHANGED <<brokerRunning, handlers, client, started, running, subscriber, subscribed,
                       scheduled, inbound, others, handling, sends, histVars>>
    BY <1>2 DEF RegisterTopic, ZmqInv, ZmqTyped
  <2> HIDE DEF call, c
  <2>4. /\ stage' \in [Clients -> Stages] /\ topics' \in [Clients -> SUBSET Topics]
        /\ \A e \in Clients : stage'[e] = "none" <=> stage[e] = "none"
    BY <2>2, <2>3 DEF ZmqInv, ZmqTyped, Stages
  <2>5. calls' \in [Nodes -> [Threads -> Calls]] /\ CallsAgree'
    BY <2>2, <2>3, <2>4, AgreeKept DEF histVars
  <2> QED
    BY <2>3, <2>4, <2>5 DEF ZmqInv, ZmqTyped, histVars
<1>3. CASE SubscribeLate(n, t)
  <2> DEFINE c == <<n, calls[n][t].client>>
             k == [op |-> "subscribe", topic |-> calls[n][t].topic]
  <2>1. calls[n][t] \in Calls /\ calls[n][t].op = "register"
    BY <1>3 DEF SubscribeLate, ZmqInv, ZmqTyped
  <2>2. c \in Clients /\ k \in Coroutines
    BY <2>1, CallRegister, CoroutineFacts DEF Clients
  <2>3. /\ calls' = [calls EXCEPT ![n][t] = Nothing]
        /\ scheduled' = scheduled \/ scheduled' = [scheduled EXCEPT ![c] = Append(@, k)]
        /\ UNCHANGED <<brokerRunning, handlers, client, started, running, stage, subscriber, topics,
                       subscribed, inbound, others, handling, sends, histVars>>
    BY <1>3 DEF SubscribeLate
  <2> HIDE DEF c, k
  <2>4. Append(scheduled[c], k) \in Seq(Coroutines)
    BY <2>2, SeqFacts DEF ZmqInv, ZmqTyped
  <2>5. scheduled' \in [Clients -> Seq(Coroutines)]
    BY <2>2, <2>3, <2>4 DEF ZmqInv, ZmqTyped
  <2>6. calls' \in [Nodes -> [Threads -> Calls]] /\ CallsAgree'
    BY <2>3, CallFacts, AgreeKept DEF histVars
  <2> QED
    BY <2>3, <2>5, <2>6 DEF ZmqInv, ZmqTyped, histVars
<1> QED
  BY <1>1, <1>2, <1>3

\* A node starts only a client of its own that is not there yet, and no client of it runs.
LEMMA StartFacts ==
  ASSUME ZmqInv, NEW n \in Nodes, Startable(n)
  PROVE  /\ <<n, started[n] + 1>> \in Clients /\ started[n] + 1 \in 1..MaxStarts
         /\ stage[<<n, started[n] + 1>>] = "none"
         /\ \A e \in Clients : running[e] => e[1] # n
<1>0. MaxStarts \in Nat /\ started[n] \in 0..MaxStarts /\ started[n] < MaxStarts
  BY ZmqAssumptions DEF ZmqInv, ZmqTyped, Startable
<1>1. <<n, started[n] + 1>> \in Clients /\ started[n] + 1 \in 1..MaxStarts
  BY <1>0 DEF Clients
<1>2. stage[<<n, started[n] + 1>>] = "none"
  <2> DEFINE c == <<n, started[n] + 1>>
  <2>1. c \in Clients /\ c[1] = n /\ c[2] > started[n]
    BY <1>0, <1>1
  <2> HIDE DEF c
  <2>2. stage[c] = "none"
    BY <2>1 DEF ZmqInv, CallsAgree
  <2> QED
    BY <2>2 DEF c
<1>3. ASSUME NEW e \in Clients, running[e], e[1] = n PROVE FALSE
  <2>1. client[n] = e[2] /\ e[2] \in 1..MaxStarts /\ e = <<n, e[2]>>
    BY <1>3 DEF Clients, ZmqInv, ZmqTyped
  <2>2. client[n] # 0 /\ e = Of(n)
    BY <1>0, <2>1 DEF Of
  <2>3. stage[Of(n)] = "none"
    BY <2>2 DEF Startable, HasStarted
  <2> QED
    BY <1>3, <2>2, <2>3 DEF ZmqInv, CallsAgree
<1> QED
  BY <1>1, <1>2, <1>3

LEMMA StartInv ==
  ASSUME ZmqInv, NEW n \in Nodes, Start(n)
  PROVE  ZmqInv'
<1> DEFINE call == [op |-> "copy", topics |-> handlers[n]]
           new == <<n, started[n] + 1>>
<1>0. MaxStarts \in Nat /\ MaxInputs \in Nat
  BY ZmqAssumptions
<1>1. /\ calls' = [calls EXCEPT ![n]["app"] = call] /\ Startable(n)
      /\ inputs' = inputs + 1 /\ inputs < MaxInputs
      /\ started' = [started EXCEPT ![n] = started[n] + 1]
      /\ client' = [client EXCEPT ![n] = started[n] + 1]
      /\ brokerRunning' = (brokerRunning \/ n = Hub)
      /\ UNCHANGED <<handlers, loopVars, delivered>>
  BY DEF Start, Input, BrokerStarts
<1>2. call \in Calls /\ call.op = "copy" /\ "app" \in Threads
  <2>1. handlers[n] \in SUBSET Topics
    BY DEF ZmqInv, ZmqTyped
  <2> QED
    BY <2>1, CallFacts DEF Threads
<1>3. /\ new \in Clients /\ started[n] + 1 \in 1..MaxStarts /\ stage[new] = "none"
      /\ \A e \in Clients : running[e] => e[1] # n
  BY <1>1, StartFacts
<1> HIDE DEF call
<1>4. /\ calls' \in [Nodes -> [Threads -> Calls]]
      /\ \A k \in Nodes : Pending(k)' \in 0..2 /\ Pending(k)' <= Pending(k) /\ Pending(k) \in 0..2
      /\ \A k \in Nodes, u \in Threads : calls'[k][u] = IF k = n /\ u = "app" THEN call ELSE calls[k][u]
  BY <1>1, <1>2, CallsInv DEF ZmqInv
<1>5. /\ client' \in [Nodes -> 0..MaxStarts] /\ started' \in [Nodes -> 0..MaxStarts]
      /\ \A k \in Nodes : client'[k] = IF k = n THEN started[n] + 1 ELSE client[k]
      /\ \A k \in Nodes : started'[k] = IF k = n THEN started[n] + 1 ELSE started[k]
  BY <1>0, <1>1, <1>3 DEF ZmqInv, ZmqTyped
<1>6. inputs' \in 0..MaxInputs
  BY <1>0, <1>1 DEF ZmqInv, ZmqTyped
<1>7. \A e \in Clients : running[e] => client'[e[1]] = e[2]
  BY <1>3, <1>5 DEF Clients, ZmqInv, ZmqTyped
<1>8. \A k \in Nodes : client'[k] \in {0, started'[k]}
  BY <1>5 DEF ZmqInv, ZmqTyped
<1>9. ZmqTyped'
  BY <1>1, <1>4, <1>5, <1>6, <1>7, <1>8 DEF ZmqInv, ZmqTyped, loopVars
<1>10. ASSUME NEW k \in Nodes, calls'[k]["app"].op = "stop"
       PROVE  client'[k] # 0 /\ ~running[<<k, client'[k]>>]
  <2>1. k # n /\ calls[k]["app"].op = "stop"
    BY <1>2, <1>4, <1>10
  <2> QED
    BY <1>5, <2>1 DEF ZmqInv, CallsAgree, Of
<1>11. ASSUME NEW k \in Nodes, calls'[k]["app"].op = "copy"
       PROVE  client'[k] # 0 /\ stage[<<k, client'[k]>>] = "none"
  <2>1. CASE k = n
    <3>1. client'[n] = started[n] + 1
      BY <1>5
    <3> QED
      BY <1>0, <1>3, <2>1, <3>1
  <2>2. CASE k # n
    BY <1>2, <1>4, <1>5, <1>11, <2>2 DEF ZmqInv, CallsAgree, Of
  <2> QED
    BY <2>1, <2>2
<1>12. ASSUME NEW e \in Clients PROVE sends[e] + Pending(e[1])' <= inputs'
  <2>1. e[1] \in Nodes /\ sends[e] \in 0..MaxInputs /\ inputs \in 0..MaxInputs
    BY DEF Clients, ZmqInv, ZmqTyped
  <2>2. sends[e] + Pending(e[1]) <= inputs
    BY DEF ZmqInv, CallsAgree
  <2> QED
    BY <1>0, <1>1, <1>4, <2>1, <2>2
<1>13. ASSUME NEW e \in Clients, e[2] > started'[e[1]] PROVE stage[e] = "none"
  <2>1. e[1] \in Nodes /\ e[2] \in 1..MaxStarts /\ started[e[1]] \in 0..MaxStarts
    BY DEF Clients, ZmqInv, ZmqTyped
  <2>2. e[2] > started[e[1]]
    BY <1>0, <1>5, <1>13, <2>1
  <2> QED
    BY <2>2 DEF ZmqInv, CallsAgree
<1> QED
  BY <1>1, <1>9, <1>10, <1>11, <1>12, <1>13 DEF ZmqInv, CallsAgree, Of, loopVars

LEMMA StartClientInv ==
  ASSUME ZmqInv, NEW n \in Nodes, StartClient(n)
  PROVE  ZmqInv'
<1> DEFINE c == Of(n)
           call == [op |-> "start"]
<1>1. /\ calls[n]["app"].op = "copy" /\ calls[n]["app"] \in Calls
      /\ client[n] # 0 /\ stage[c] = "none" /\ c \in Clients /\ c[1] = n /\ c[2] = client[n]
  BY OfClient DEF StartClient, ZmqInv, ZmqTyped, CallsAgree, Threads
<1> HIDE DEF c
<1>2. /\ \E copied \in {calls[n]["app"].topics, handlers[n]} :
           topics' = [topics EXCEPT ![c] = @ \cup copied]
      /\ running' = [running EXCEPT ![c] = TRUE]
      /\ stage' = [stage EXCEPT ![c] = "begun"]
      /\ calls' = [calls EXCEPT ![n]["app"] = call]
      /\ UNCHANGED <<brokerRunning, handlers, client, started, subscriber, subscribed, scheduled,
                     inbound, others, handling, sends, histVars>>
  BY DEF StartClient, c
<1>3. call \in Calls /\ call.op = "start" /\ "app" \in Threads
  BY CallFacts DEF Threads
<1> HIDE DEF call
<1>4. /\ calls' \in [Nodes -> [Threads -> Calls]]
      /\ \A k \in Nodes : Pending(k)' \in 0..2 /\ Pending(k)' <= Pending(k) /\ Pending(k) \in 0..2
      /\ \A k \in Nodes, u \in Threads : calls'[k][u] = IF k = n /\ u = "app" THEN call ELSE calls[k][u]
  BY <1>2, <1>3, CallsInv DEF ZmqInv
<1>5. topics' \in [Clients -> SUBSET Topics]
  <2>1. calls[n]["app"].topics \subseteq Topics /\ handlers[n] \subseteq Topics
    BY <1>1, CallCopy DEF ZmqInv, ZmqTyped
  <2> QED
    BY <1>1, <1>2, <2>1 DEF ZmqInv, ZmqTyped
<1>6. /\ running' \in [Clients -> BOOLEAN] /\ stage' \in [Clients -> Stages]
      /\ \A e \in Clients : running'[e] = (e = c \/ running[e])
      /\ \A e \in Clients : stage'[e] = IF e = c THEN "begun" ELSE stage[e]
  BY <1>1, <1>2 DEF ZmqInv, ZmqTyped, Stages
<1>7. ZmqTyped'
  BY <1>1, <1>2, <1>4, <1>5, <1>6 DEF ZmqInv, ZmqTyped, histVars
<1>8. ASSUME NEW k \in Nodes, NEW op \in {"stop", "copy"}, calls'[k]["app"].op = op
      PROVE  calls[k]["app"].op = op /\ k # n
  BY <1>3, <1>4, <1>8
<1>9. ASSUME NEW k \in Nodes, calls'[k]["app"].op = "stop"
      PROVE  client[k] # 0 /\ ~running'[Of(k)]
  <2>1. client[k] # 0 /\ ~running[Of(k)] /\ k # n
    BY <1>8, <1>9 DEF ZmqInv, CallsAgree
  <2> QED
    BY <1>1, <1>6, <2>1, OfClient DEF ZmqInv
<1>10. ASSUME NEW k \in Nodes, calls'[k]["app"].op = "copy"
       PROVE  client[k] # 0 /\ stage'[Of(k)] = "none"
  <2>1. client[k] # 0 /\ stage[Of(k)] = "none" /\ k # n
    BY <1>8, <1>10 DEF ZmqInv, CallsAgree
  <2> QED
    BY <1>1, <1>6, <2>1, OfClient DEF ZmqInv
<1>11. ASSUME NEW e \in Clients PROVE sends[e] + Pending(e[1])' <= inputs
  <2>1. e[1] \in Nodes /\ sends[e] \in 0..MaxInputs /\ inputs \in 0..MaxInputs
    BY DEF Clients, ZmqInv, ZmqTyped
  <2>2. sends[e] + Pending(e[1]) <= inputs
    BY DEF ZmqInv, CallsAgree
  <2> QED
    BY ZmqAssumptions, <1>4, <2>1, <2>2
<1>12. ~(c[2] > started[c[1]])
  BY <1>1, ZmqAssumptions DEF ZmqInv, ZmqTyped
<1>13. \A e \in Clients : e[2] > started[e[1]] => stage'[e] = "none"
  BY <1>6, <1>12 DEF ZmqInv, CallsAgree
<1>14. \A e \in Clients : stage'[e] = "none" => ~running'[e]
  BY <1>6 DEF ZmqInv, CallsAgree
<1> QED
  BY <1>2, <1>7, <1>9, <1>10, <1>11, <1>13, <1>14 DEF ZmqInv, CallsAgree, Of, histVars

LEMMA StopInv ==
  ASSUME ZmqInv, NEW n \in Nodes, Stop(n)
  PROVE  ZmqInv'
<1> DEFINE call == [op |-> "stop"]
<1>0. MaxInputs \in Nat
  BY ZmqAssumptions
<1>1. /\ calls' = [calls EXCEPT ![n]["app"] = call]
      /\ client[n] # 0 /\ Of(n) \in Clients
      /\ inputs' = inputs + 1 /\ inputs < MaxInputs
      /\ running' = [running EXCEPT ![Of(n)] = FALSE]
      /\ UNCHANGED <<brokerRunning, handlers, client, started, stage, subscriber, topics,
                     subscribed, scheduled, inbound, others, handling, sends, delivered>>
  BY OfClient DEF Stop, Input, HasStarted, ZmqInv
<1>2. call \in Calls /\ call.op = "stop" /\ "app" \in Threads
  BY CallFacts DEF Threads
<1> HIDE DEF call
<1>3. /\ calls' \in [Nodes -> [Threads -> Calls]]
      /\ \A k \in Nodes : Pending(k)' \in 0..2 /\ Pending(k)' <= Pending(k) /\ Pending(k) \in 0..2
      /\ \A k \in Nodes, u \in Threads : calls'[k][u] = IF k = n /\ u = "app" THEN call ELSE calls[k][u]
  BY <1>1, <1>2, CallsInv DEF ZmqInv
<1>4. inputs' \in 0..MaxInputs
  BY <1>0, <1>1 DEF ZmqInv, ZmqTyped
<1>5. /\ running' \in [Clients -> BOOLEAN] /\ ~running'[Of(n)]
      /\ \A e \in Clients : running'[e] => running[e]
  BY <1>1 DEF ZmqInv, ZmqTyped
<1>6. ZmqTyped'
  BY <1>1, <1>3, <1>4, <1>5 DEF ZmqInv, ZmqTyped
<1>7. ASSUME NEW k \in Nodes, calls'[k]["app"].op = "stop"
      PROVE  client[k] # 0 /\ ~running'[Of(k)]
  <2>1. CASE k = n
    BY <1>1, <1>5, <2>1
  <2>2. CASE k # n
    <3>1. client[k] # 0 /\ ~running[Of(k)]
      BY <1>2, <1>3, <1>7, <2>2 DEF ZmqInv, CallsAgree
    <3> QED
      BY <1>5, <3>1, OfClient DEF ZmqInv
  <2> QED
    BY <2>1, <2>2
<1>8. \A k \in Nodes : calls'[k]["app"].op = "copy" => client[k] # 0 /\ stage[Of(k)] = "none"
  BY <1>2, <1>3 DEF ZmqInv, CallsAgree
<1>9. ASSUME NEW e \in Clients PROVE sends[e] + Pending(e[1])' <= inputs'
  <2>1. e[1] \in Nodes /\ sends[e] \in 0..MaxInputs /\ inputs \in 0..MaxInputs
    BY DEF Clients, ZmqInv, ZmqTyped
  <2>2. sends[e] + Pending(e[1]) <= inputs
    BY DEF ZmqInv, CallsAgree
  <2> QED
    BY <1>0, <1>1, <1>3, <2>1, <2>2
<1> QED
  BY <1>1, <1>5, <1>6, <1>7, <1>8, <1>9 DEF ZmqInv, CallsAgree, Of

LEMMA StopReturnsInv ==
  ASSUME ZmqInv, NEW n \in Nodes, StopReturns(n)
  PROVE  ZmqInv'
<1>0. MaxStarts \in Nat
  BY ZmqAssumptions
<1>1. /\ calls' = [calls EXCEPT ![n]["app"] = Nothing]
      /\ client' = [client EXCEPT ![n] = 0]
      /\ brokerRunning' = (brokerRunning /\ n # Hub)
      /\ calls[n]["app"].op = "stop"
      /\ UNCHANGED <<handlers, started, loopVars, histVars>>
  BY DEF StopReturns, BrokerStops
<1>2. /\ calls' \in [Nodes -> [Threads -> Calls]]
      /\ \A k \in Nodes : Pending(k)' \in 0..2 /\ Pending(k)' <= Pending(k) /\ Pending(k) \in 0..2
      /\ \A k \in Nodes : \A op \in {"stop", "copy"} :
           calls'[k]["app"].op = op => k # n /\ calls[k]["app"].op = op
  <2>1. Nothing \in Calls /\ "app" \in Threads /\ Nothing.op \notin {"send", "stop", "copy"}
    BY CallFacts DEF Threads
  <2> QED
    BY <1>1, <2>1, CallsInv DEF ZmqInv
<1>3. ~running[Of(n)] /\ client[n] # 0
  BY <1>1 DEF ZmqInv, CallsAgree
<1>4. \A e \in Clients : running[e] => e[1] # n
  <2> SUFFICES ASSUME NEW e \in Clients, running[e], e[1] = n PROVE FALSE
    OBVIOUS
  <2>1. client[n] = e[2]
    BY DEF ZmqInv, ZmqTyped
  <2>2. e = Of(n)
    BY <2>1 DEF Clients, Of
  <2> QED
    BY <1>3, <2>2
<1>5. \A e \in Clients : running[e] => client'[e[1]] = e[2]
  BY <1>1, <1>4 DEF ZmqInv, ZmqTyped, Clients
<1>6. client' \in [Nodes -> 0..MaxStarts] /\ \A k \in Nodes : client'[k] \in {0, started[k]}
  BY <1>0, <1>1 DEF ZmqInv, ZmqTyped
<1>7. ZmqTyped'
  BY <1>1, <1>2, <1>5, <1>6 DEF ZmqInv, ZmqTyped, loopVars, histVars
<1>8. ASSUME NEW k \in Nodes, calls'[k]["app"].op \in {"stop", "copy"} PROVE client'[k] = client[k]
  BY <1>1, <1>2, <1>8 DEF ZmqInv, ZmqTyped
<1>9. \A k \in Nodes : calls'[k]["app"].op = "stop" => client'[k] # 0 /\ ~running[<<k, client'[k]>>]
  BY <1>2, <1>8 DEF ZmqInv, CallsAgree, Of
<1>10. \A k \in Nodes : calls'[k]["app"].op = "copy" => client'[k] # 0 /\ stage[<<k, client'[k]>>] = "none"
  BY <1>2, <1>8 DEF ZmqInv, CallsAgree, Of
<1>11. ASSUME NEW e \in Clients PROVE sends[e] + Pending(e[1])' <= inputs
  <2>1. e[1] \in Nodes /\ sends[e] \in 0..MaxInputs /\ inputs \in 0..MaxInputs
    BY DEF Clients, ZmqInv, ZmqTyped
  <2>2. sends[e] + Pending(e[1]) <= inputs
    BY DEF ZmqInv, CallsAgree
  <2> QED
    BY ZmqAssumptions, <1>2, <2>1, <2>2
<1> QED
  BY <1>1, <1>7, <1>9, <1>10, <1>11 DEF ZmqInv, CallsAgree, Of, loopVars, histVars

LEMMA NodeInv ==
  ASSUME ZmqInv, NEW n \in Nodes,
         \/ Start(n) \/ StartClient(n) \/ CopyFails(n) \/ StartReturns(n) \/ Stop(n) \/ StopReturns(n)
  PROVE  ZmqInv'
<1>1. CASE CopyFails(n)
  BY <1>1, EndedInv DEF CopyFails, Threads
<1>2. CASE StartReturns(n)
  BY <1>2, EndedInv DEF StartReturns, Threads
<1> QED
  BY <1>1, <1>2, StartInv, StartClientInv, StopInv, StopReturnsInv

LEMMA SendInv ==
  ASSUME ZmqInv, NEW n \in Nodes, NEW t \in Threads, NEW topic \in Topics, Send(n, t, topic)
  PROVE  ZmqInv'
<1> DEFINE call == [op |-> "send", topic |-> topic]
<1>0. MaxInputs \in Nat
  BY ZmqAssumptions
<1>1. /\ calls' = [calls EXCEPT ![n][t] = call]
      /\ inputs' = inputs + 1 /\ inputs < MaxInputs
      /\ UNCHANGED <<brokerRunning, handlers, client, started, loopVars, delivered>>
  BY DEF Send, Input
<1>2. call \in Calls /\ call.op = "send"
  BY CallFacts
<1> HIDE DEF call
<1>3. calls \in [Nodes -> [Threads -> Calls]]
  BY DEF ZmqInv, ZmqTyped
<1>4. calls' \in [Nodes -> [Threads -> Calls]]
  BY <1>1, <1>2, <1>3
<1>5. \A k \in Nodes, u \in Threads : calls'[k][u] = IF k = n /\ u = t THEN call ELSE calls[k][u]
  BY <1>1, <1>3
<1>6. inputs' \in 0..MaxInputs
  BY <1>0, <1>1 DEF ZmqInv, ZmqTyped
<1>7. ZmqTyped'
  BY <1>1, <1>4, <1>6 DEF ZmqInv, ZmqTyped, loopVars
<1>8. \A k \in Nodes : Pending(k) \in 0..2 /\ Pending(k)' \in 0..2 /\ Pending(k)' <= Pending(k) + 1
  BY <1>5 DEF Pending, Sending, Threads
<1>9. \A e \in Clients : sends[e] + Pending(e[1])' <= inputs + 1
  <2> SUFFICES ASSUME NEW e \in Clients PROVE sends[e] + Pending(e[1])' <= inputs + 1
    OBVIOUS
  <2>1. e[1] \in Nodes /\ sends[e] \in 0..MaxInputs /\ inputs \in 0..MaxInputs
    BY DEF Clients, ZmqInv, ZmqTyped
  <2>2. sends[e] + Pending(e[1]) <= inputs
    BY DEF ZmqInv, CallsAgree
  <2> QED
    BY <1>0, <1>8, <2>1, <2>2
<1>10. /\ \A k \in Nodes : calls'[k]["app"].op = "stop" => client'[k] # 0 /\ ~running'[<<k, client'[k]>>]
       /\ \A k \in Nodes : calls'[k]["app"].op = "copy" => client'[k] # 0 /\ stage'[<<k, client'[k]>>] = "none"
  BY <1>1, <1>2, <1>5 DEF ZmqInv, CallsAgree, Of, Threads, loopVars
<1> QED
  BY <1>1, <1>7, <1>9, <1>10 DEF ZmqInv, CallsAgree, Of, loopVars

LEMMA SendMessageInv ==
  ASSUME ZmqInv, NEW n \in Nodes, NEW t \in Threads, SendMessage(n, t)
  PROVE  ZmqInv'
<1>1. /\ calls[n][t].op = "send" /\ calls[n][t] \in Calls
      /\ UNCHANGED <<brokerRunning, handlers, client, started, running, stage, subscriber, topics,
                     subscribed, inbound, others, handling, histVars>>
  BY DEF SendMessage, ZmqInv, ZmqTyped
<1>2. calls[n][t].topic \in Topics
  BY <1>1, CallTopic
<1>3. CASE calls' = [calls EXCEPT ![n][t] = Nothing] /\ UNCHANGED <<sends, scheduled>>
  BY <1>1, <1>3, EndedInv DEF loopVars
<1>4. CASE /\ CanSchedule(n)
           /\ Schedule(Of(n), calls[n][t].topic)
           /\ calls' = [calls EXCEPT ![n][t] =
                [op |-> "wait", message |-> NextMessage(Of(n), calls[n][t].topic), result |-> "none"]]
  <2> DEFINE d == Of(n)
             m == NextMessage(d, calls[n][t].topic)
             call == [op |-> "wait", message |-> m, result |-> "none"]
  <2>1. d \in Clients /\ d[1] = n
    BY <1>4, OfClient DEF ZmqInv, CanSchedule
  <2>2. Sending(n, t) = 1
    BY <1>1 DEF Sending
  <2> HIDE DEF d
  <2>3. /\ sends \in [Clients -> 0..MaxInputs] /\ inputs \in 0..MaxInputs /\ MaxInputs \in Nat
        /\ sends[d] + Pending(n) <= inputs /\ Pending(n) >= 1 /\ Pending(n) \in 0..2
    <3>1. sends[d] + Pending(d[1]) <= inputs
      BY <2>1 DEF ZmqInv, CallsAgree
    <3>2. Pending(n) >= 1 /\ Pending(n) \in 0..2
      BY <2>2 DEF Pending, Sending, Threads
    <3> QED
      BY <2>1, <3>1, <3>2, ZmqAssumptions DEF ZmqInv, ZmqTyped
  <2>4. sends[d] < MaxInputs
    BY <2>1, <2>3
  <2>5. Schedule(d, calls[n][t].topic)
    BY <1>4 DEF d
  <2>6. sends' \in [Clients -> 0..MaxInputs] /\ scheduled' \in [Clients -> Seq(Coroutines)]
    BY <1>2, <2>1, <2>4, <2>5, ScheduleTyped DEF ZmqInv
  <2>7. call \in Calls /\ call.op = "wait"
    BY <1>2, <2>1, <2>4, CallFacts, NextIsMessage DEF ZmqInv
  <2>8. calls' = [calls EXCEPT ![n][t] = call]
    BY <1>4 DEF d
  <2> HIDE DEF call
  <2>9. /\ calls' \in [Nodes -> [Threads -> Calls]]
        /\ \A k \in Nodes : Pending(k)' \in 0..2 /\ Pending(k)' <= Pending(k) /\ Pending(k) \in 0..2
        /\ Pending(n)' = Pending(n) - 1
        /\ \A k \in Nodes : \A op \in {"stop", "copy"} :
             calls'[k]["app"].op = op => calls[k]["app"].op = op
    <3>1. call.op \notin {"send", "stop", "copy"}
      BY <2>7
    <3>2. Pending(n)' = Pending(n) - Sending(n, t)
      BY <2>7, <2>8, <3>1, CallsInv DEF ZmqInv
    <3>3. /\ calls' \in [Nodes -> [Threads -> Calls]]
          /\ \A k \in Nodes : Pending(k)' \in 0..2 /\ Pending(k)' <= Pending(k) /\ Pending(k) \in 0..2
          /\ \A k \in Nodes, u \in Threads : calls'[k][u] = IF k = n /\ u = t THEN call ELSE calls[k][u]
      BY <2>7, <2>8, <3>1, CallsInv DEF ZmqInv
    <3>4. \A k \in Nodes : \A op \in {"stop", "copy"} :
            calls'[k]["app"].op = op => calls[k]["app"].op = op
      BY <3>1, <3>3 DEF Threads
    <3> QED
      BY <2>2, <3>2, <3>3, <3>4
  <2>10. ZmqTyped'
    BY <1>1, <2>6, <2>9 DEF ZmqInv, ZmqTyped, histVars
  <2>11. \A e \in Clients : sends'[e] + Pending(e[1])' <= inputs
    <3> SUFFICES ASSUME NEW e \in Clients PROVE sends'[e] + Pending(e[1])' <= inputs
      OBVIOUS
    <3>1. e[1] \in Nodes /\ sends[e] \in 0..MaxInputs
      BY <2>3 DEF Clients
    <3>2. sends[e] + Pending(e[1]) <= inputs
      BY DEF ZmqInv, CallsAgree
    <3>3. sends'[e] = IF e = d THEN sends[e] + 1 ELSE sends[e]
      BY <2>3, <2>5 DEF Schedule
    <3> QED
      BY <2>1, <2>3, <2>9, <3>1, <3>2, <3>3
  <2>12. /\ \A k \in Nodes : calls'[k]["app"].op = "stop" => client'[k] # 0 /\ ~running'[<<k, client'[k]>>]
         /\ \A k \in Nodes : calls'[k]["app"].op = "copy" => client'[k] # 0 /\ stage'[<<k, client'[k]>>] = "none"
    BY <1>1, <2>9 DEF ZmqInv, CallsAgree, Of
  <2> QED
    BY <1>1, <2>10, <2>11, <2>12 DEF ZmqInv, CallsAgree, Of, histVars
<1> QED
  BY <1>3, <1>4 DEF SendMessage

LEMMA ZmqStep ==
  ASSUME ZmqInv, [Next]_vars
  PROVE  ZmqInv'
<1>1. CASE UNCHANGED vars
  BY <1>1 DEF ZmqInv, ZmqTyped, CallsAgree, Pending, Sending, Of, vars, nodeVars, loopVars, histVars
<1>2. CASE NodeNext
  <2>1. PICK n \in Nodes :
          \/ Start(n) \/ StartClient(n) \/ CopyFails(n) \/ StartReturns(n) \/ Stop(n) \/ StopReturns(n)
          \/ \E t \in Threads :
               \/ RegisterTopic(n, t) \/ SubscribeLate(n, t)
               \/ SendMessage(n, t) \/ SendReturns(n, t) \/ SendTimesOut(n, t)
               \/ \E topic \in Topics : RegisterHandler(n, t, topic) \/ Send(n, t, topic)
    BY <1>2 DEF NodeNext
  <2>2. ASSUME NEW t \in Threads, SendReturns(n, t) \/ SendTimesOut(n, t) PROVE ZmqInv'
    BY <2>2, EndedInv DEF SendReturns, SendTimesOut
  <2>3. ASSUME NEW t \in Threads, NEW topic \in Topics, RegisterHandler(n, t, topic) PROVE ZmqInv'
    BY <2>3, RegisterInv
  <2>4. ASSUME NEW t \in Threads, RegisterTopic(n, t) \/ SubscribeLate(n, t) PROVE ZmqInv'
    BY <2>4, RegisterInv
  <2> QED
    BY <2>1, <2>2, <2>3, <2>4, NodeInv, SendInv, SendMessageInv
<1>3. ASSUME NEW c \in Clients,
             \/ Main(c) \/ Coroutine(c) \/ Receive(c) \/ HandlerGoesOn(c) \/ OthersPublish(c)
             \/ \E topic \in Topics : HandlerSends(c, topic)
      PROVE  ZmqInv'
  BY <1>3, LoopInv, RunSendInv, HandlerSendsInv DEF Coroutine
<1> QED
  BY <1>1, <1>2, <1>3 DEF Next

LEMMA ZmqAlways == ZmqSpec => []ZmqInv
<1>1. ZmqInit => ZmqInv
  <2> SUFFICES ASSUME ZmqInit PROVE ZmqInv
    OBVIOUS
  <2>1. MaxStarts \in Nat /\ MaxInputs \in Nat
    BY ZmqAssumptions
  <2>2. calls \in [Nodes -> [Threads -> Calls]] /\ \A n \in Nodes, t \in Threads : calls[n][t].op = "none"
    BY CallFacts DEF ZmqInit
  <2>3. /\ scheduled \in [Clients -> Seq(Coroutines)] /\ inbound \in [Clients -> Seq(Message)]
        /\ handling \in [Clients -> [op : {"none", "handle", "wait"}]]
    BY SeqFacts DEF ZmqInit, Nothing
  <2>4. \A e \in Clients : sends[e] + Pending(e[1]) <= inputs
    BY <2>2 DEF ZmqInit, Pending, Sending, Threads, Clients
  <2>5. /\ sends \in [Clients -> 0..MaxInputs] /\ inputs \in 0..MaxInputs
        /\ delivered \in [Clients -> [Clients -> 0..MaxInputs]]
        /\ client \in [Nodes -> 0..MaxStarts] /\ started \in [Nodes -> 0..MaxStarts]
    BY <2>1 DEF ZmqInit
  <2>6. ZmqTyped
    BY <2>2, <2>3, <2>5 DEF ZmqInit, ZmqTyped, Stages
  <2>7. \A e \in Clients : stage[e] = "none" /\ ~running[e]
    BY DEF ZmqInit
  <2>8. "app" \in Threads
    BY DEF Threads
  <2> QED
    BY <2>2, <2>4, <2>6, <2>7, <2>8 DEF ZmqInv, CallsAgree
<1>2. ZmqInv /\ [Next]_vars => ZmqInv'
  BY ZmqStep
<1> QED
  BY <1>1, <1>2, PTL DEF ZmqSpec

\* For any nodes, topics and bounds the transport's state keeps its types, and only the
\* client a node has now can be running.
THEOREM ZmqIsTyped == ZmqSpec => []ZmqTyped
<1>1. ZmqInv => ZmqTyped
  BY DEF ZmqInv
<1> QED
  BY <1>1, ZmqAlways, PTL

-----------------------------------------------------------------------------
(* Topics.                                                                  *)

LEMMA ToSetFacts ==
  ASSUME NEW S, NEW q \in Seq(S)
  PROVE  /\ \A e \in S : ToSet(Append(q, e)) = ToSet(q) \cup {e}
         /\ q # <<>> => ToSet(q) = ToSet(Tail(q)) \cup {Head(q)}
<1>1. ASSUME NEW e \in S PROVE ToSet(Append(q, e)) = ToSet(q) \cup {e}
  <2>1. /\ DOMAIN Append(q, e) = 1..(Len(q) + 1) /\ DOMAIN q = 1..Len(q) /\ Len(q) \in Nat
        /\ \A i \in 1..Len(q) : Append(q, e)[i] = q[i]
        /\ Append(q, e)[Len(q) + 1] = e
    OBVIOUS
  <2> QED
    BY <2>1 DEF ToSet
<1>2. ASSUME q # <<>> PROVE ToSet(q) = ToSet(Tail(q)) \cup {Head(q)}
  <2>1. /\ DOMAIN Tail(q) = 1..(Len(q) - 1) /\ DOMAIN q = 1..Len(q) /\ Len(q) \in Nat \ {0}
        /\ \A i \in 1..(Len(q) - 1) : Tail(q)[i] = q[i + 1]
        /\ Head(q) = q[1]
    BY <1>2
  <2>2. ASSUME NEW i \in 1..Len(q), i # 1
        PROVE  q[i] = Tail(q)[i - 1] /\ i - 1 \in 1..(Len(q) - 1)
    <3>1. i - 1 \in 1..(Len(q) - 1) /\ (i - 1) + 1 = i
      BY <2>1, <2>2
    <3> QED
      BY <2>1, <3>1
  <2>3. \A i \in 1..(Len(q) - 1) : i + 1 \in 1..Len(q)
    BY <2>1
  <2>4. ASSUME NEW e \in ToSet(q) PROVE e \in ToSet(Tail(q)) \cup {Head(q)}
    BY <2>1, <2>2 DEF ToSet
  <2>5. ASSUME NEW e \in ToSet(Tail(q)) \cup {Head(q)} PROVE e \in ToSet(q)
    BY <2>1, <2>3 DEF ToSet
  <2> QED
    BY <2>4, <2>5
<1> QED
  BY <1>1, <1>2

\* A step that leaves topics and subscriptions alone, starts no client, and takes no
\* subscription from what is scheduled on one that is up, or from those who register.
LEMMA SubscribedKept ==
  ASSUME RegisteredIsSubscribed, UNCHANGED <<topics, subscribed>>,
         \A c \in Clients : stage'[c] \in {"connected", "open"} /\ running'[c] =>
           /\ stage[c] \in {"connected", "open"} /\ running[c]
           /\ \A topic \in topics[c] :
                [op |-> "subscribe", topic |-> topic] \in ToSet(scheduled[c])
                  => [op |-> "subscribe", topic |-> topic] \in ToSet(scheduled'[c])
           /\ \A topic \in topics[c] : Registering(c, topic) => Registering(c, topic)'
  PROVE  RegisteredIsSubscribed'
BY DEF RegisteredIsSubscribed

LEMMA SubscribedSchedule ==
  ASSUME ZmqTyped, RegisteredIsSubscribed, NEW c \in Clients, NEW topic \in Topics,
         Schedule(c, topic), sends[c] < MaxInputs, UNCHANGED <<stage, running, topics, subscribed>>,
         \A d \in Clients, u \in Topics : Registering(d, u) => Registering(d, u)'
  PROVE  RegisteredIsSubscribed'
<1> DEFINE k == [op |-> "send", message |-> NextMessage(c, topic)]
<1>1. k \in Coroutines
  BY NextIsMessage, CoroutineFacts
<1>2. scheduled' = [scheduled EXCEPT ![c] = Append(@, k)]
  BY DEF Schedule
<1> HIDE DEF k
<1>3. scheduled \in [Clients -> Seq(Coroutines)]
  BY DEF ZmqTyped
<1>4. \A d \in Clients : ToSet(scheduled[d]) \subseteq ToSet(scheduled'[d])
  <2> SUFFICES ASSUME NEW d \in Clients PROVE ToSet(scheduled[d]) \subseteq ToSet(scheduled'[d])
    OBVIOUS
  <2>1. scheduled[d] \in Seq(Coroutines) /\ scheduled'[d] = IF d = c THEN Append(scheduled[d], k) ELSE scheduled[d]
    BY <1>2, <1>3
  <2> QED
    BY <1>1, <2>1, ToSetFacts
<1> QED
  BY <1>4 DEF RegisteredIsSubscribed, ZmqTyped

\* Who registers a topic goes on doing so while the calls of that node are left alone, or
\* those that change register nothing.
LEMMA RegisteringKept ==
  ASSUME ZmqTyped, NEW n \in Nodes, NEW t \in Threads, NEW call,
         calls' = [calls EXCEPT ![n][t] = call],
         calls[n][t].op = "register" => ~calls[n][t].added
  PROVE  \A c \in Clients, topic \in Topics : Registering(c, topic) => Registering(c, topic)'
<1>1. \A k \in Nodes, u \in Threads : calls'[k][u] = IF k = n /\ u = t THEN call ELSE calls[k][u]
  BY DEF ZmqTyped
<1> QED
  BY <1>1 DEF Registering, Clients

LEMMA RegisteringResolved ==
  ASSUME NEW m, NEW r, calls' = Resolved(m, r)
  PROVE  \A c \in Clients, topic \in Topics : Registering(c, topic) => Registering(c, topic)'
<1>1. ASSUME NEW n \in Nodes, NEW t \in Threads, calls[n][t].op = "register"
      PROVE  calls'[n][t] = calls[n][t]
  BY <1>1 DEF Resolved
<1> QED
  BY <1>1 DEF Registering, Clients

\* A topic that comes into the set of a client that is up is being registered ...
LEMMA SubscribedRegister ==
  ASSUME ZmqTyped, RegisteredIsSubscribed, NEW n \in Nodes, NEW t \in Threads, RegisterTopic(n, t)
  PROVE  RegisteredIsSubscribed'
<1>1. calls[n][t] \in Calls /\ calls[n][t].op = "register" /\ ~calls[n][t].added
  BY DEF RegisterTopic, ZmqTyped
<1>2. PICK c \in Clients, topic \in Topics, call \in Calls :
        /\ c = <<n, calls[n][t].client>> /\ topic = calls[n][t].topic
        /\ call = [calls[n][t] EXCEPT !.added = TRUE]
        /\ c[1] = n /\ call.op = "register" /\ call.topic = topic /\ call.client = c[2] /\ call.added
  <2>1. /\ calls[n][t].topic \in Topics /\ calls[n][t].client \in 1..MaxStarts
        /\ LET next == [calls[n][t] EXCEPT !.added = TRUE] IN
             /\ next.op = "register" /\ next.topic = calls[n][t].topic
             /\ next.client = calls[n][t].client /\ next.added
             /\ next \in Calls
    BY <1>1, CallRegister
  <2>2. <<n, calls[n][t].client>> \in Clients
    BY <2>1 DEF Clients
  <2> QED
    BY <2>1, <2>2
<1>3. /\ calls' = [calls EXCEPT ![n][t] = call]
      /\ topics' = [topics EXCEPT ![c] = @ \cup {topic}]
      /\ stage' = stage \/ stage' = [stage EXCEPT ![c] = "overtaken"]
      /\ UNCHANGED <<running, subscribed, scheduled>>
  BY <1>2 DEF RegisterTopic, ZmqTyped
<1>4. \A e \in Clients, u \in Topics : Registering(e, u) => Registering(e, u)'
  BY <1>1, <1>3, RegisteringKept
<1>5. calls'[n][t] = call
  BY <1>3 DEF ZmqTyped
<1>6. Registering(c, topic)'
  BY <1>2, <1>5 DEF Registering
<1>7. \A e \in Clients : /\ e # c => topics'[e] = topics[e]
                         /\ stage'[e] \in {"connected", "open"} => stage[e] = stage'[e]
  BY <1>2, <1>3 DEF ZmqTyped
<1>8. topics'[c] = topics[c] \cup {topic} /\ \A e \in Clients : topics[e] \subseteq Topics
  BY <1>2, <1>3 DEF ZmqTyped
<1> SUFFICES ASSUME NEW e \in Clients, stage'[e] \in {"connected", "open"}, running[e], NEW u \in topics'[e]
             PROVE  \/ u \in subscribed[e]
                    \/ [op |-> "subscribe", topic |-> u] \in ToSet(scheduled[e])
                    \/ Registering(e, u)'
  BY <1>3 DEF RegisteredIsSubscribed
<1>9. CASE u \in topics[e]
  BY <1>4, <1>7, <1>8, <1>9 DEF RegisteredIsSubscribed
<1>10. CASE u \notin topics[e]
  <2>1. e = c /\ u = topic
    BY <1>7, <1>8, <1>10
  <2> QED
    BY <1>6, <2>1
<1> QED
  BY <1>9, <1>10

\* ... and scheduled when that is done.
LEMMA SubscribedLate ==
  ASSUME ZmqTyped, RegisteredIsSubscribed, NEW n \in Nodes, NEW t \in Threads, SubscribeLate(n, t)
  PROVE  RegisteredIsSubscribed'
<1> DEFINE c == <<n, calls[n][t].client>>
           topic == calls[n][t].topic
           k == [op |-> "subscribe", topic |-> topic]
<1>1. calls[n][t] \in Calls /\ calls[n][t].op = "register"
  BY DEF SubscribeLate, ZmqTyped
<1>2. topic \in Topics /\ c \in Clients /\ c[1] = n /\ c[2] = calls[n][t].client /\ k \in Coroutines
  BY <1>1, CallRegister, CoroutineFacts DEF Clients
<1>3. /\ calls' = [calls EXCEPT ![n][t] = Nothing]
      /\ scheduled' = IF HasSubSocket(c) /\ running[c]
                      THEN [scheduled EXCEPT ![c] = Append(@, k)] ELSE scheduled
      /\ UNCHANGED <<stage, running, topics, subscribed>>
  BY DEF SubscribeLate
<1>4. scheduled \in [Clients -> Seq(Coroutines)]
  BY DEF ZmqTyped
<1>5. ASSUME NEW e \in Clients, NEW u \in Topics, Registering(e, u), ~Registering(e, u)'
      PROVE  e = c /\ u = topic
  <2>1. \A i \in Nodes, v \in Threads : (i # n \/ v # t) => calls'[i][v] = calls[i][v]
    BY <1>3 DEF ZmqTyped
  <2>2. PICK v \in Threads : /\ calls[e[1]][v].op = "register" /\ calls[e[1]][v].topic = u
                             /\ calls[e[1]][v].client = e[2] /\ calls[e[1]][v].added
    BY <1>5 DEF Registering
  <2>3. e[1] = n /\ v = t
    BY <1>5, <2>1, <2>2 DEF Registering, Clients
  <2>4. e = <<e[1], e[2]>>
    BY DEF Clients
  <2> QED
    BY <2>2, <2>3, <2>4
<1> HIDE DEF c, k, topic
<1>6. \A e \in Clients : ToSet(scheduled[e]) \subseteq ToSet(scheduled'[e])
  <2> SUFFICES ASSUME NEW e \in Clients PROVE ToSet(scheduled[e]) \subseteq ToSet(scheduled'[e])
    OBVIOUS
  <2>1. scheduled[e] \in Seq(Coroutines)
    BY <1>4
  <2>2. ToSet(Append(scheduled[e], k)) = ToSet(scheduled[e]) \cup {k}
    BY <1>2, <2>1, ToSetFacts
  <2>3. scheduled'[e] = scheduled[e] \/ scheduled'[e] = Append(scheduled[e], k)
    BY <1>3, <1>4
  <2> QED
    BY <2>2, <2>3
<1>7. stage[c] \in {"connected", "open"} /\ running[c] => k \in ToSet(scheduled'[c])
  <2>1. ToSet(Append(scheduled[c], k)) = ToSet(scheduled[c]) \cup {k}
    BY <1>2, <1>4, ToSetFacts
  <2> QED
    BY <1>2, <1>3, <1>4, <2>1 DEF HasSubSocket
<1> SUFFICES ASSUME NEW e \in Clients, stage[e] \in {"connected", "open"}, running[e], NEW u \in topics[e]
             PROVE  \/ u \in subscribed[e]
                    \/ [op |-> "subscribe", topic |-> u] \in ToSet(scheduled'[e])
                    \/ Registering(e, u)'
  BY <1>3 DEF RegisteredIsSubscribed
<1>8. u \in Topics
  BY DEF ZmqTyped
<1>9. \/ u \in subscribed[e]
      \/ [op |-> "subscribe", topic |-> u] \in ToSet(scheduled[e])
      \/ Registering(e, u)
  BY DEF RegisteredIsSubscribed
<1>10. CASE e = c /\ u = topic
  BY <1>7, <1>10 DEF k
<1> QED
  BY <1>5, <1>6, <1>8, <1>9, <1>10

LEMMA SubscribedMain ==
  ASSUME ZmqTyped, RegisteredIsSubscribed, NEW c \in Clients, Main(c)
  PROVE  RegisteredIsSubscribed'
<1>1. UNCHANGED <<calls, running, topics>>
  BY DEF Main, Subscribes, OpenSubSocket, BeginSubscribing, SubscribeNext, EndSubscribing,
         BreakLoop, OpenPubSocket, BeginClosing, EndClosing, MainGoesOn, nodeVars
<1>2. \A d \in Clients, u \in Topics : Registering(d, u)' = Registering(d, u)
  BY <1>1 DEF Registering
<1>3. ASSUME \A d \in Clients : stage'[d] \in {"connected", "open"} =>
               \/ topics[d] \subseteq subscribed'[d]
               \/ /\ stage[d] \in {"connected", "open"}
                  /\ subscribed'[d] = subscribed[d] /\ scheduled'[d] = scheduled[d]
      PROVE  RegisteredIsSubscribed'
  <2>1. \A d \in Clients : topics[d] \subseteq Topics
    BY DEF ZmqTyped
  <2> SUFFICES ASSUME NEW d \in Clients, stage'[d] \in {"connected", "open"}, running[d],
                      NEW topic \in topics[d]
               PROVE  \/ topic \in subscribed'[d]
                      \/ [op |-> "subscribe", topic |-> topic] \in ToSet(scheduled'[d])
                      \/ Registering(d, topic)'
    BY <1>1 DEF RegisteredIsSubscribed
  <2>2. CASE topics[d] \subseteq subscribed'[d]
    BY <2>2
  <2>3. CASE /\ stage[d] \in {"connected", "open"}
             /\ subscribed'[d] = subscribed[d] /\ scheduled'[d] = scheduled[d]
    <3>1. \/ topic \in subscribed[d]
          \/ [op |-> "subscribe", topic |-> topic] \in ToSet(scheduled[d])
          \/ Registering(d, topic)
      BY <2>3 DEF RegisteredIsSubscribed
    <3> QED
      BY <1>2, <2>1, <2>3, <3>1
  <2> QED
    BY <1>3, <2>2, <2>3
<1>4. CASE OpenSubSocket(c) \/ BeginSubscribing(c) \/ BeginClosing(c)
  <2>1. /\ \E to \in {"socket", "subscribing", "closing"} : stage' = [stage EXCEPT ![c] = to]
        /\ UNCHANGED <<subscribed, scheduled>>
    BY <1>4 DEF OpenSubSocket, BeginSubscribing, BeginClosing, MainGoesOn
  <2>2. \A d \in Clients : stage'[d] \in {"connected", "open"} => stage[d] = stage'[d]
    BY <2>1 DEF ZmqTyped
  <2> QED
    BY <1>3, <2>1, <2>2
<1>5. CASE SubscribeNext(c)
  <2>1. stage' = [stage EXCEPT ![c] = "subscribing"] /\ UNCHANGED scheduled
        /\ \E set : subscribed' = [subscribed EXCEPT ![c] = set]
    BY <1>5 DEF SubscribeNext, MainGoesOn
  <2>2. \A d \in Clients : stage'[d] \in {"connected", "open"} => d # c /\ stage[d] = stage'[d]
    BY <2>1 DEF ZmqTyped
  <2>3. \A d \in Clients : d # c => subscribed'[d] = subscribed[d]
    BY <2>1 DEF ZmqTyped
  <2> QED
    BY <1>3, <2>1, <2>2, <2>3
<1>6. CASE EndSubscribing(c)
  <2>1. /\ stage' = [stage EXCEPT ![c] = "connected"] /\ topics[c] \subseteq subscribed[c]
        /\ UNCHANGED <<subscribed, scheduled>>
    BY <1>6 DEF EndSubscribing, MainGoesOn
  <2>2. \A d \in Clients : d # c => stage[d] = stage'[d]
    BY <2>1 DEF ZmqTyped
  <2> QED
    BY <1>3, <2>1, <2>2
<1>7. CASE OpenPubSocket(c)
  <2>1. /\ stage' = [stage EXCEPT ![c] = "open"] /\ stage[c] = "connected"
        /\ UNCHANGED <<subscribed, scheduled>>
    BY <1>7 DEF OpenPubSocket, MainGoesOn
  <2>2. \A d \in Clients : d # c => stage[d] = stage'[d]
    BY <2>1 DEF ZmqTyped
  <2> QED
    BY <1>3, <2>1, <2>2
<1>8. CASE BreakLoop(c) \/ EndClosing(c)
  <2>1. /\ stage' = [stage EXCEPT ![c] = "closed"] /\ UNCHANGED subscribed
        /\ scheduled' = [scheduled EXCEPT ![c] = <<>>]
    BY <1>8 DEF BreakLoop, EndClosing, MainGoesOn
  <2>2. \A d \in Clients : stage'[d] \in {"connected", "open"} => d # c /\ stage[d] = stage'[d]
    BY <2>1 DEF ZmqTyped
  <2>3. \A d \in Clients : d # c => scheduled'[d] = scheduled[d]
    BY <2>1 DEF ZmqTyped
  <2> QED
    BY <1>3, <2>1, <2>2, <2>3
<1> QED
  BY <1>4, <1>5, <1>6, <1>7, <1>8 DEF Main, Subscribes

LEMMA SubscribedStep ==
  ASSUME ZmqInv, RegisteredIsSubscribed, [Next]_vars
  PROVE  RegisteredIsSubscribed'
<1>0. ZmqTyped /\ \A c \in Clients : topics[c] \subseteq Topics
  BY DEF ZmqInv, ZmqTyped
<1>1. ASSUME UNCHANGED <<stage, running, topics, subscribed, scheduled>>,
             \A c \in Clients, u \in Topics : Registering(c, u) => Registering(c, u)'
      PROVE  RegisteredIsSubscribed'
  BY <1>0, <1>1 DEF RegisteredIsSubscribed
<1>2. ASSUME UNCHANGED calls
      PROVE  \A c \in Clients, u \in Topics : Registering(c, u) => Registering(c, u)'
  BY <1>2 DEF Registering
<1>3. ASSUME NEW n \in Nodes, StartClient(n) PROVE RegisteredIsSubscribed'
  <2>1. /\ Of(n) \in Clients /\ calls[n]["app"].op = "copy"
        /\ \E set : topics' = [topics EXCEPT ![Of(n)] = set]
        /\ running' = [running EXCEPT ![Of(n)] = TRUE]
        /\ stage' = [stage EXCEPT ![Of(n)] = "begun"]
        /\ calls' = [calls EXCEPT ![n]["app"] = [op |-> "start"]]
        /\ UNCHANGED <<subscribed, scheduled>>
    BY <1>3, OfClient DEF StartClient, ZmqInv, CallsAgree
  <2>2. \A c \in Clients, u \in Topics : Registering(c, u) => Registering(c, u)'
    BY <1>0, <2>1, RegisteringKept DEF Threads
  <2>3. \A c \in Clients : c # Of(n) => topics'[c] = topics[c] /\ running'[c] = running[c] /\ stage'[c] = stage[c]
    BY <2>1 DEF ZmqInv, ZmqTyped
  <2>4. stage'[Of(n)] = "begun"
    BY <2>1 DEF ZmqInv, ZmqTyped
  <2> QED
    BY <1>0, <2>1, <2>2, <2>3, <2>4 DEF RegisteredIsSubscribed
<1>4. ASSUME NEW n \in Nodes, Stop(n) PROVE RegisteredIsSubscribed'
  <2>1. /\ \A c \in Clients : running'[c] => running[c]
        /\ calls[n]["app"].op = "none" /\ calls' = [calls EXCEPT ![n]["app"] = [op |-> "stop"]]
        /\ UNCHANGED <<stage, topics, subscribed, scheduled>>
    BY <1>4, OfClient DEF Stop, HasStarted, Nothing, ZmqInv, ZmqTyped
  <2>2. \A c \in Clients, u \in Topics : Registering(c, u) => Registering(c, u)'
    BY <1>0, <2>1, RegisteringKept DEF Threads
  <2> QED
    BY <1>0, <2>1, <2>2 DEF RegisteredIsSubscribed
<1>5. ASSUME NEW n \in Nodes, NEW t \in Threads, SendMessage(n, t) PROVE RegisteredIsSubscribed'
  <2>0. /\ UNCHANGED <<stage, running, topics, subscribed>> /\ calls[n][t].op = "send"
        /\ \E call : calls' = [calls EXCEPT ![n][t] = call]
    BY <1>5 DEF SendMessage
  <2>1. \A c \in Clients, u \in Topics : Registering(c, u) => Registering(c, u)'
    BY <1>0, <2>0, RegisteringKept
  <2>2. CASE UNCHANGED scheduled
    BY <1>1, <2>0, <2>1, <2>2
  <2>3. CASE CanSchedule(n) /\ Schedule(Of(n), calls[n][t].topic)
    <3>1. Of(n) \in Clients /\ Of(n)[1] = n /\ calls[n][t] \in Calls
      BY <1>0, <2>3, OfClient DEF CanSchedule, ZmqTyped
    <3>2. calls[n][t].topic \in Topics
      BY <2>0, <3>1, CallTopic
    <3>3. sends[Of(n)] < MaxInputs
      <4>1. Pending(n) >= 1 /\ Pending(n) \in 0..2
        BY <2>0 DEF Pending, Sending, Threads
      <4>2. sends[Of(n)] + Pending(n) <= inputs /\ sends[Of(n)] \in 0..MaxInputs /\ inputs \in 0..MaxInputs
        BY <3>1 DEF ZmqInv, ZmqTyped, CallsAgree
      <4> QED
        BY <4>1, <4>2, ZmqAssumptions
    <3> QED
      BY <1>0, <2>0, <2>1, <2>3, <3>1, <3>2, <3>3, SubscribedSchedule
  <2> QED
    BY <1>5, <2>2, <2>3 DEF SendMessage
<1>6. ASSUME NEW c \in Clients, NEW topic \in Topics, HandlerSends(c, topic)
      PROVE  RegisteredIsSubscribed'
  <2>1. /\ c[1] \in Nodes /\ client[c[1]] # 0 /\ Schedule(Of(c[1]), topic)
        /\ inputs < MaxInputs /\ UNCHANGED <<calls, stage, running, topics, subscribed>>
    BY <1>6 DEF HandlerSends, CanSchedule, Input, Clients, nodeVars
  <2>2. Of(c[1]) \in Clients /\ Of(c[1])[1] = c[1]
    BY <2>1, OfClient DEF ZmqInv
  <2>3. sends[Of(c[1])] < MaxInputs
    <3>1. /\ sends[Of(c[1])] + Pending(c[1]) <= inputs
          /\ sends[Of(c[1])] \in 0..MaxInputs /\ inputs \in 0..MaxInputs
      BY <2>2 DEF ZmqInv, ZmqTyped, CallsAgree
    <3>2. Pending(c[1]) \in 0..2
      BY DEF Pending, Sending
    <3> QED
      BY <2>1, <3>1, <3>2, ZmqAssumptions
  <2> QED
    BY <1>0, <1>2, <2>1, <2>2, <2>3, SubscribedSchedule
<1>7. ASSUME NEW c \in Clients, Coroutine(c) PROVE RegisteredIsSubscribed'
  <2> DEFINE k == Head(scheduled[c])
  <2>1. /\ scheduled[c] \in Seq(Coroutines) /\ scheduled[c] # <<>>
        /\ scheduled' = [scheduled EXCEPT ![c] = Tail(@)]
        /\ UNCHANGED <<stage, running, topics>>
    BY <1>7 DEF Coroutine, RunSubscribe, RunSend, ZmqInv, ZmqTyped
  <2>2. ToSet(scheduled[c]) = ToSet(Tail(scheduled[c])) \cup {k} /\ k \in Coroutines
    BY <2>1, ToSetFacts, SeqFacts
  <2>3. \A d \in Clients : scheduled'[d] = IF d = c THEN Tail(scheduled[c]) ELSE scheduled[d]
    BY <2>1 DEF ZmqInv, ZmqTyped
  <2>4. \/ k.op = "subscribe" /\ subscribed' = [subscribed EXCEPT ![c] = @ \cup {k.topic}]
        \/ k.op = "send" /\ UNCHANGED subscribed
    BY <1>7 DEF Coroutine, RunSubscribe, RunSend
  <2>5. \A d \in Clients, u \in Topics : Registering(d, u) => Registering(d, u)'
    <3>1. CASE RunSubscribe(c)
      BY <1>2, <3>1 DEF RunSubscribe, nodeVars
    <3>2. CASE RunSend(c)
      BY <3>2, RegisteringResolved DEF RunSend
    <3> QED
      BY <1>7, <3>1, <3>2 DEF Coroutine
  <2> HIDE DEF k
  <2> SUFFICES ASSUME NEW d \in Clients, stage[d] \in {"connected", "open"}, running[d],
                      NEW topic \in topics[d]
               PROVE  \/ topic \in subscribed'[d]
                      \/ [op |-> "subscribe", topic |-> topic] \in ToSet(scheduled'[d])
                      \/ Registering(d, topic)'
    BY <2>1 DEF RegisteredIsSubscribed
  <2>6. \/ topic \in subscribed[d]
        \/ [op |-> "subscribe", topic |-> topic] \in ToSet(scheduled[d])
        \/ Registering(d, topic)
    BY DEF RegisteredIsSubscribed
  <2>7. topic \in Topics
    BY <1>0
  <2>8. CASE k.op = "subscribe" /\ subscribed' = [subscribed EXCEPT ![c] = @ \cup {k.topic}]
    <3>1. [op |-> "subscribe", topic |-> topic] = k => k.topic = topic
      OBVIOUS
    <3>2. subscribed[d] \subseteq subscribed'[d]
      BY <2>8 DEF ZmqInv, ZmqTyped
    <3>3. k.topic \in subscribed'[c]
      BY <2>8 DEF ZmqInv, ZmqTyped
    <3> QED
      BY <2>2, <2>3, <2>5, <2>6, <2>7, <3>1, <3>2, <3>3
  <2>9. CASE k.op = "send" /\ UNCHANGED subscribed
    <3>1. [op |-> "subscribe", topic |-> topic] # k
      BY <2>9
    <3> QED
      BY <2>2, <2>3, <2>5, <2>6, <2>7, <2>9, <3>1
  <2> QED
    BY <2>4, <2>8, <2>9
<1>8. ASSUME NEW c \in Clients, Receive(c) \/ HandlerGoesOn(c) \/ OthersPublish(c)
      PROVE  RegisteredIsSubscribed'
  BY <1>1, <1>2, <1>8 DEF Receive, HandlerGoesOn, HandlerSendReturns, HandlerReturns, HandlerFollows,
                          OthersPublish, nodeVars
<1>9. ASSUME NEW n \in Nodes, NEW t \in Threads, calls[n][t].op # "register",
             \E call : calls' = [calls EXCEPT ![n][t] = call], UNCHANGED loopVars
      PROVE  RegisteredIsSubscribed'
  BY <1>0, <1>1, <1>9, RegisteringKept DEF loopVars
<1>10. ASSUME NEW n \in Nodes,
              Start(n) \/ CopyFails(n) \/ StartReturns(n) \/ StopReturns(n)
       PROVE  RegisteredIsSubscribed'
  <2>1. /\ "app" \in Threads /\ calls[n]["app"].op # "register" /\ UNCHANGED loopVars
        /\ \E call : calls' = [calls EXCEPT ![n]["app"] = call]
    BY <1>10 DEF Start, CopyFails, StartReturns, StopReturns, Threads, Nothing
  <2> QED
    BY <1>9, <2>1
<1>11. ASSUME NEW n \in Nodes, NEW t \in Threads, NEW topic \in Topics,
              \/ SendReturns(n, t) \/ SendTimesOut(n, t)
              \/ Send(n, t, topic) \/ RegisterHandler(n, t, topic)
       PROVE  RegisteredIsSubscribed'
  <2>1. /\ calls[n][t].op # "register" /\ UNCHANGED loopVars
        /\ \E call : calls' = [calls EXCEPT ![n][t] = call]
    BY <1>11 DEF SendReturns, SendTimesOut, Send, RegisterHandler, Nothing
  <2> QED
    BY <1>9, <2>1
<1>12. ASSUME NEW n \in Nodes, NEW t \in Threads, SendReturns(n, t) \/ SendTimesOut(n, t)
       PROVE  RegisteredIsSubscribed'
  <2>1. calls[n][t].op # "register" /\ UNCHANGED loopVars /\ \E call : calls' = [calls EXCEPT ![n][t] = call]
    BY <1>12 DEF SendReturns, SendTimesOut
  <2> QED
    BY <1>9, <2>1
<1>13. CASE UNCHANGED vars
  BY <1>1, <1>2, <1>13 DEF vars, loopVars, nodeVars
<1> QED
  BY <1>0, <1>3, <1>4, <1>5, <1>6, <1>7, <1>8, <1>10, <1>11, <1>12, <1>13,
     SubscribedRegister, SubscribedLate, SubscribedMain DEF Next, NodeNext

\* For any nodes and topics: a topic in the set of a client that has made its subscriptions
\* and is not told to stop is subscribed, or its subscription is scheduled or about to be.
\* A registration between two subscriptions breaks the loop instead, which never gets there.
THEOREM RegisteredIsSubscribedHolds == ZmqSpec => []RegisteredIsSubscribed
<1>1. ZmqInit => RegisteredIsSubscribed
  BY DEF ZmqInit, RegisteredIsSubscribed
<1>2. RegisteredIsSubscribed /\ ZmqInv /\ [Next]_vars => RegisteredIsSubscribed'
  BY SubscribedStep
<1> QED
  BY <1>1, <1>2, ZmqAlways, PTL DEF ZmqSpec

-----------------------------------------------------------------------------
(* Handlers and stop.                                                       *)

\* A loop that calls handlers is that of the client the node has now, or it is in a
\* handler, after which it sees that it was stopped.
LoopsEnd ==
  \A c \in Clients :
    /\ handling[c] # Nothing => stage[c] = "open"
    /\ subscriber[c] => stage[c] = "open" /\ (client[c[1]] = c[2] \/ handling[c] # Nothing)

\* A step that moves no client on, or one that calls no handlers.
LEMMA LoopsEndKept ==
  ASSUME LoopsEnd, NEW c \in Clients, UNCHANGED <<client, subscriber, handling>>,
         stage[c] # "open", \A d \in Clients : d # c => stage'[d] = stage[d]
  PROVE  LoopsEnd'
BY DEF LoopsEnd

LEMMA LoopsEndStep ==
  ASSUME ZmqInv, LoopsEnd, [Next]_vars
  PROVE  LoopsEnd'
<1>0. /\ stage \in [Clients -> Stages]
      /\ subscriber \in [Clients -> BOOLEAN] /\ running \in [Clients -> BOOLEAN]
      /\ handling \in [Clients -> [op : {"none", "handle", "wait"}]]
      /\ client \in [Nodes -> 0..MaxStarts] /\ started \in [Nodes -> 0..MaxStarts]
      /\ \A c \in Clients : running[c] => client[c[1]] = c[2]
      /\ MaxStarts \in Nat
      /\ \A c \in Clients : c[1] \in Nodes /\ c[2] \in 1..MaxStarts /\ c = <<c[1], c[2]>>
  BY ZmqAssumptions DEF ZmqInv, ZmqTyped, Clients
<1>1. CASE UNCHANGED <<stage, subscriber, handling, client>>
  BY <1>1 DEF LoopsEnd
<1>2. ASSUME NEW n \in Nodes, Start(n) PROVE LoopsEnd'
  <2>1. /\ ~HasStarted(n) /\ client' = [client EXCEPT ![n] = started[n] + 1]
        /\ UNCHANGED <<stage, subscriber, handling>>
    BY <1>2 DEF Start, Startable, loopVars
  <2>2. ASSUME NEW c \in Clients, subscriber[c], c[1] = n PROVE handling[c] # Nothing
    <3>1. stage[c] = "open" /\ (client[n] = c[2] \/ handling[c] # Nothing)
      BY <2>2 DEF LoopsEnd
    <3>2. CASE client[n] = c[2]
      <4>1. client[n] # 0 /\ Of(n) = c
        BY <1>0, <2>2, <3>2 DEF Of
      <4> QED
        BY <2>1, <3>1, <4>1 DEF HasStarted
    <3> QED
      BY <3>1, <3>2
  <2>3. \A c \in Clients : c[1] # n => client'[c[1]] = client[c[1]]
    BY <1>0, <2>1
  <2> QED
    BY <2>1, <2>2, <2>3 DEF LoopsEnd
<1>3. ASSUME NEW n \in Nodes, StopReturns(n) PROVE LoopsEnd'
  <2>1. /\ stage[Of(n)] # "open" \/ handling[Of(n)] # Nothing
        /\ client' = [client EXCEPT ![n] = 0]
        /\ UNCHANGED <<started, subscriber, stage, handling>>
    BY <1>3 DEF StopReturns, loopVars
  <2>2. \A c \in Clients : client[c[1]] = c[2] /\ c[1] = n => c = Of(n)
    BY <1>0 DEF Of
  <2>3. \A c \in Clients : c[1] # n => client'[c[1]] = client[c[1]]
    BY <1>0, <2>1
  <2> QED
    BY <2>1, <2>2, <2>3 DEF LoopsEnd
<1>4. ASSUME NEW c \in Clients, Main(c) PROVE LoopsEnd'
  <2>1. CASE Subscribes(c) \/ BreakLoop(c)
    <3>1. /\ UNCHANGED <<client, subscriber, handling>> /\ stage[c] # "open"
          /\ \E to : stage' = [stage EXCEPT ![c] = to]
      BY <2>1 DEF Subscribes, OpenSubSocket, BeginSubscribing, SubscribeNext, EndSubscribing,
                  BreakLoop, MainGoesOn, nodeVars
    <3> QED
      BY <1>0, <3>1, LoopsEndKept
  <2>2. CASE OpenPubSocket(c)
    BY <1>0, <2>2 DEF OpenPubSocket, MainGoesOn, LoopsEnd, nodeVars, Stages
  <2>3. CASE BeginClosing(c)
    BY <1>0, <2>3 DEF BeginClosing, MainGoesOn, LoopsEnd, nodeVars, Stages
  <2>4. CASE EndClosing(c)
    <3>1. /\ UNCHANGED <<client, subscriber, handling>> /\ stage[c] # "open"
          /\ stage' = [stage EXCEPT ![c] = "closed"]
      BY <2>4 DEF EndClosing, MainGoesOn, nodeVars
    <3> QED
      BY <1>0, <3>1, LoopsEndKept
  <2> QED
    BY <1>4, <2>1, <2>2, <2>3, <2>4 DEF Main
<1>5. ASSUME NEW c \in Clients, Receive(c) \/ HandlerFollows(c) PROVE LoopsEnd'
  <2>1. stage[c] = "open"
    BY <1>5 DEF Receive, HandlerFollows, LoopsEnd, Nothing
  <2>2. /\ handling' = [handling EXCEPT ![c] = [op |-> "handle"]]
        /\ UNCHANGED <<nodeVars, stage, subscriber>>
    BY <1>5 DEF Receive, HandlerFollows, TakeMessage
  <2>3. [op |-> "handle"] # Nothing
    BY DEF Nothing
  <2> QED
    BY <1>0, <2>1, <2>2, <2>3 DEF LoopsEnd, nodeVars
<1>6. ASSUME NEW c \in Clients, NEW topic \in Topics, HandlerSends(c, topic)
      PROVE  LoopsEnd'
  <2>1. /\ handling[c].op # "none"
        /\ \E op \in {"handle", "wait"} : handling' = [handling EXCEPT ![c] = [handling[c] EXCEPT !.op = op]]
        /\ UNCHANGED <<nodeVars, stage, subscriber>>
    BY <1>6 DEF HandlerSends
  <2>2. handling[c] # Nothing /\ \A op \in {"handle", "wait"} : [handling[c] EXCEPT !.op = op] # Nothing
    BY <1>0, <2>1 DEF Nothing
  <2> QED
    BY <1>0, <2>1, <2>2 DEF LoopsEnd, nodeVars
<1>7. ASSUME NEW c \in Clients, HandlerReturns(c) PROVE LoopsEnd'
  <2>1. /\ handling[c] # Nothing
        /\ handling' = [handling EXCEPT ![c] = Nothing]
        /\ subscriber' = [subscriber EXCEPT ![c] = running[c]]
        /\ UNCHANGED <<nodeVars, stage>>
    BY <1>7 DEF HandlerReturns, Nothing
  <2> QED
    BY <1>0, <2>1 DEF LoopsEnd, nodeVars
<1>8. ASSUME NEW c \in Clients, HandlerGoesOn(c) PROVE LoopsEnd'
  <2>1. CASE HandlerSendReturns(c)
    <3>1. /\ handling[c].op # "none"
          /\ handling' = [handling EXCEPT ![c] = [handling[c] EXCEPT !.op = "handle"]]
          /\ UNCHANGED <<nodeVars, stage, subscriber>>
      BY <2>1 DEF HandlerSendReturns
    <3>2. handling[c] # Nothing /\ [handling[c] EXCEPT !.op = "handle"] # Nothing
      BY <1>0, <3>1 DEF Nothing
    <3> QED
      BY <1>0, <3>1, <3>2 DEF LoopsEnd, nodeVars
  <2> QED
    BY <1>5, <1>7, <1>8, <2>1 DEF HandlerGoesOn
<1>9. ASSUME NEW n \in Nodes, NEW t \in Threads,
             \/ CopyFails(n) \/ StartReturns(n) \/ Stop(n)
             \/ SubscribeLate(n, t) \/ SendMessage(n, t) \/ SendReturns(n, t) \/ SendTimesOut(n, t)
             \/ \E topic \in Topics : RegisterHandler(n, t, topic) \/ Send(n, t, topic)
      PROVE  LoopsEnd'
  BY <1>1, <1>9
     DEF CopyFails, StartReturns, Stop, RegisterHandler, SubscribeLate, SendMessage, SendReturns,
         SendTimesOut, Send, loopVars
<1>10. ASSUME NEW c \in Clients, Coroutine(c) \/ OthersPublish(c) PROVE LoopsEnd'
  BY <1>1, <1>10 DEF Coroutine, RunSubscribe, RunSend, OthersPublish, nodeVars
<1>11. ASSUME NEW n \in Nodes, StartClient(n) PROVE LoopsEnd'
  <2>1. /\ Of(n) \in Clients /\ stage[Of(n)] = "none"
        /\ stage' = [stage EXCEPT ![Of(n)] = "begun"]
        /\ UNCHANGED <<client, subscriber, handling>>
    BY <1>11, OfClient DEF StartClient, ZmqInv, CallsAgree
  <2> QED
    BY <1>0, <2>1, LoopsEndKept
<1>12. ASSUME NEW n \in Nodes, NEW t \in Threads, RegisterTopic(n, t) PROVE LoopsEnd'
  <2> DEFINE c == <<n, calls[n][t].client>>
  <2>1. calls[n][t] \in Calls /\ calls[n][t].op = "register"
    BY <1>12 DEF RegisterTopic, ZmqInv, ZmqTyped
  <2>2. c \in Clients
    BY <2>1, CallRegister DEF Clients
  <2>3. /\ UNCHANGED <<client, subscriber, handling>>
        /\ stage' = stage \/ (stage[c] = "subscribing" /\ stage' = [stage EXCEPT ![c] = "overtaken"])
    BY <1>12 DEF RegisterTopic
  <2> HIDE DEF c
  <2>4. CASE stage' = stage
    BY <1>1, <2>3, <2>4
  <2>5. CASE stage[c] = "subscribing" /\ stage' = [stage EXCEPT ![c] = "overtaken"]
    BY <1>0, <2>2, <2>3, <2>5, LoopsEndKept
  <2> QED
    BY <2>3, <2>4, <2>5
<1>13. CASE UNCHANGED vars
  BY <1>1, <1>13 DEF vars, loopVars, nodeVars
<1>14. CASE NodeNext
  <2>1. PICK n \in Nodes :
          \/ Start(n) \/ StartClient(n) \/ CopyFails(n) \/ StartReturns(n) \/ Stop(n) \/ StopReturns(n)
          \/ \E t \in Threads :
               \/ RegisterTopic(n, t) \/ SubscribeLate(n, t)
               \/ SendMessage(n, t) \/ SendReturns(n, t) \/ SendTimesOut(n, t)
               \/ \E topic \in Topics : RegisterHandler(n, t, topic) \/ Send(n, t, topic)
    BY <1>14 DEF NodeNext
  <2>2. "app" \in Threads
    BY DEF Threads
  <2> QED
    BY <2>1, <2>2, <1>2, <1>3, <1>9, <1>11, <1>12
<1> QED
  BY <1>4, <1>5, <1>6, <1>8, <1>10, <1>13, <1>14 DEF Next

LEMMA LoopsAlwaysEnd == ZmqSpec => []LoopsEnd
<1>1. ZmqInit => LoopsEnd
  BY DEF ZmqInit, LoopsEnd
<1>2. LoopsEnd /\ ZmqInv /\ [Next]_vars => LoopsEnd'
  BY LoopsEndStep
<1> QED
  BY <1>1, <1>2, ZmqAlways, PTL DEF ZmqSpec

\* What handlers have seen changes only where a message is taken.
LEMMA OnlyTaken ==
  ASSUME [Next]_vars, delivered' # delivered
  PROVE  \E d \in Clients : Receive(d) \/ HandlerFollows(d)
<1>1. ~UNCHANGED vars
  BY DEF vars, histVars
<1>2. ~NodeNext
  <2>1. ASSUME NEW n \in Nodes
        PROVE  /\ ~Start(n) /\ ~StartClient(n) /\ ~CopyFails(n) /\ ~StartReturns(n)
               /\ ~Stop(n) /\ ~StopReturns(n)
    BY DEF Start, StartClient, CopyFails, StartReturns, Stop, StopReturns, histVars
  <2>2. ASSUME NEW n \in Nodes, NEW t \in Threads
        PROVE  /\ ~RegisterTopic(n, t) /\ ~SubscribeLate(n, t) /\ ~SendMessage(n, t)
               /\ ~SendReturns(n, t) /\ ~SendTimesOut(n, t)
               /\ \A topic \in Topics : ~RegisterHandler(n, t, topic) /\ ~Send(n, t, topic)
    BY DEF RegisterHandler, RegisterTopic, SubscribeLate, SendMessage, SendReturns, SendTimesOut,
           Send, histVars
  <2> QED
    BY <2>1, <2>2 DEF NodeNext
<1>3. ASSUME NEW d \in Clients
      PROVE  ~Main(d) /\ ~Coroutine(d) /\ ~OthersPublish(d)
  BY DEF Main, Subscribes, OpenSubSocket, BeginSubscribing, SubscribeNext, EndSubscribing, BreakLoop,
         OpenPubSocket, BeginClosing, EndClosing, MainGoesOn, Coroutine, RunSubscribe, RunSend,
         OthersPublish, histVars
<1>4. ASSUME NEW d \in Clients
      PROVE  /\ ~HandlerSendReturns(d) /\ ~HandlerReturns(d)
             /\ \A topic \in Topics : ~HandlerSends(d, topic)
  BY DEF HandlerSendReturns, HandlerReturns, HandlerSends, histVars
<1> QED
  BY <1>1, <1>2, <1>3, <1>4 DEF Next, HandlerGoesOn

\* For any nodes and bounds no handler begins on the loop of a client that was stopped,
\* once stop has returned, also where it has not seen the loop's thread end.
THEOREM NoHandlerAfterStopHolds == ZmqSpec => NoHandlerAfterStop
<1>1. ASSUME LoopsEnd, ZmqInv, [Next]_vars, NEW c \in Clients, delivered'[c] # delivered[c]
      PROVE  client[c[1]] = c[2]
  <2>1. PICK d \in Clients : Receive(d) \/ HandlerFollows(d)
    BY <1>1, OnlyTaken
  <2>2. d = c
    BY <1>1, <2>1 DEF Receive, HandlerFollows, TakeMessage, ZmqInv, ZmqTyped
  <2>3. CASE Receive(c)
    BY <1>1, <2>3 DEF Receive, LoopFree, LoopsEnd
  <2>4. CASE HandlerFollows(c)
    BY <1>1, <2>4 DEF HandlerFollows, ZmqInv, ZmqTyped
  <2> QED
    BY <2>1, <2>2, <2>3, <2>4
<1>2. LoopsEnd /\ ZmqInv /\ [Next]_vars
        => [\A c \in Clients : delivered'[c] # delivered[c] => client[c[1]] = c[2]]_vars
  BY <1>1
<1> QED
  BY <1>2, LoopsAlwaysEnd, ZmqAlways, PTL DEF ZmqSpec, NoHandlerAfterStop

-----------------------------------------------------------------------------
(* Order.                                                                   *)

\* The messages of d on their way to one client: the last a handler has seen, those at
\* the socket, those that d has still to send, and the last that d has scheduled.
Ordered(d, seen, in, out, last) ==
  /\ seen <= last
  /\ \A i \in DOMAIN in : in[i].from = d => seen < in[i].number /\ in[i].number <= last
  /\ \A i, j \in DOMAIN in :
       i < j /\ in[i].from = d /\ in[j].from = d => in[i].number < in[j].number
  /\ \A k \in DOMAIN out : out[k].op = "send" =>
       /\ out[k].message.from = d
       /\ seen < out[k].message.number /\ out[k].message.number <= last
  /\ \A k, l \in DOMAIN out :
       k < l /\ out[k].op = "send" /\ out[l].op = "send"
         => out[k].message.number < out[l].message.number
  /\ \A i \in DOMAIN in, k \in DOMAIN out :
       in[i].from = d /\ out[k].op = "send" => in[i].number < out[k].message.number

OrderInv ==
  \A c, d \in Clients : Ordered(d, delivered[c][d], inbound[c], scheduled[d], sends[d])

LEMMA AppendFacts ==
  ASSUME NEW S, NEW q \in Seq(S), NEW e
  PROVE  /\ DOMAIN Append(q, e) = 1..(Len(q) + 1) /\ DOMAIN q = 1..Len(q) /\ Len(q) \in Nat
         /\ \A i \in 1..(Len(q) + 1) : Append(q, e)[i] = IF i \in 1..Len(q) THEN q[i] ELSE e
OBVIOUS

LEMMA TailFacts ==
  ASSUME NEW S, NEW q \in Seq(S), q # <<>>
  PROVE  /\ DOMAIN Tail(q) = 1..(Len(q) - 1) /\ DOMAIN q = 1..Len(q) /\ Len(q) \in Nat \ {0}
         /\ \A i \in 1..(Len(q) - 1) : i + 1 \in 1..Len(q) /\ Tail(q)[i] = q[i + 1]
         /\ 1 \in 1..Len(q) /\ Head(q) = q[1]
OBVIOUS

LEMMA OrderedNumbers ==
  /\ \A m \in Message : m.number \in Nat
  /\ \A k \in Coroutines : k.op = "send" => k.message \in Message
BY DEF Message, Coroutines

LEMMA OrderedSchedules ==
  ASSUME NEW d, NEW seen \in Nat, NEW last \in Nat, NEW in \in Seq(Message), NEW out \in Seq(Coroutines),
         Ordered(d, seen, in, out, last), NEW m, m.from = d, m.number = last + 1
  PROVE  Ordered(d, seen, in, Append(out, [op |-> "send", message |-> m]), last + 1)
<1> DEFINE k == [op |-> "send", message |-> m]
           o == Append(out, k)
<1>1. /\ DOMAIN o = 1..(Len(out) + 1) /\ DOMAIN out = 1..Len(out) /\ Len(out) \in Nat
      /\ \A i \in 1..(Len(out) + 1) : o[i] = IF i \in 1..Len(out) THEN out[i] ELSE k
  BY AppendFacts
<1>2. k.op = "send" /\ k.message = m
  OBVIOUS
<1>3. \A i \in DOMAIN in : in[i].number \in Nat
  BY OrderedNumbers
<1>4. \A i \in DOMAIN out : out[i].op = "send" => out[i].message.number \in Nat
  BY OrderedNumbers
<1> HIDE DEF k, o
<1>5. seen <= last + 1
  BY DEF Ordered
<1>6. \A i \in DOMAIN in : in[i].from = d => seen < in[i].number /\ in[i].number <= last + 1
  BY <1>3 DEF Ordered
<1>7. \A i \in DOMAIN o : o[i].op = "send" =>
        /\ o[i].message.from = d
        /\ seen < o[i].message.number /\ o[i].message.number <= last + 1
  BY <1>1, <1>2, <1>4 DEF Ordered
<1>8. \A i, j \in DOMAIN o : i < j /\ o[i].op = "send" /\ o[j].op = "send"
                              => o[i].message.number < o[j].message.number
  <2> SUFFICES ASSUME NEW i \in DOMAIN o, NEW j \in DOMAIN o, i < j, o[i].op = "send", o[j].op = "send"
               PROVE  o[i].message.number < o[j].message.number
    OBVIOUS
  <2>1. i \in DOMAIN out /\ o[i] = out[i]
    BY <1>1
  <2>2. CASE j \in DOMAIN out
    BY <1>1, <2>1, <2>2 DEF Ordered
  <2>3. CASE j \notin DOMAIN out
    BY <1>1, <1>2, <1>4, <2>1, <2>3 DEF Ordered
  <2> QED
    BY <2>2, <2>3
<1>9. \A i \in DOMAIN in, j \in DOMAIN o :
        in[i].from = d /\ o[j].op = "send" => in[i].number < o[j].message.number
  BY <1>1, <1>2, <1>3, <1>4 DEF Ordered
<1> QED
  BY <1>5, <1>6, <1>7, <1>8, <1>9 DEF Ordered, o, k

LEMMA OrderedRegisters ==
  ASSUME NEW d, NEW seen, NEW last, NEW in, NEW out \in Seq(Coroutines),
         Ordered(d, seen, in, out, last), NEW k, k.op # "send"
  PROVE  Ordered(d, seen, in, Append(out, k), last)
BY AppendFacts DEF Ordered

LEMMA OrderedTakes ==
  ASSUME NEW d, NEW seen, NEW last, NEW in, NEW out \in Seq(Coroutines), out # <<>>,
         Ordered(d, seen, in, out, last)
  PROVE  Ordered(d, seen, in, Tail(out), last)
BY TailFacts DEF Ordered

LEMMA OrderedSends ==
  ASSUME NEW d, NEW seen \in Nat, NEW last \in Nat, NEW in \in Seq(Message), NEW out \in Seq(Coroutines),
         out # <<>>, Head(out).op = "send", Ordered(d, seen, in, out, last)
  PROVE  Ordered(d, seen, Append(in, Head(out).message), Tail(out), last)
<1> DEFINE m == Head(out).message
           i2 == Append(in, m)
           o2 == Tail(out)
<1>1. /\ DOMAIN o2 = 1..(Len(out) - 1) /\ DOMAIN out = 1..Len(out) /\ Len(out) \in Nat \ {0}
      /\ \A i \in 1..(Len(out) - 1) : i + 1 \in 1..Len(out) /\ o2[i] = out[i + 1]
      /\ 1 \in 1..Len(out) /\ Head(out) = out[1]
  BY TailFacts
<1>2. /\ DOMAIN i2 = 1..(Len(in) + 1) /\ DOMAIN in = 1..Len(in) /\ Len(in) \in Nat
      /\ \A i \in 1..(Len(in) + 1) : i2[i] = IF i \in 1..Len(in) THEN in[i] ELSE m
  BY AppendFacts
<1>3. m.from = d /\ seen < m.number /\ m.number <= last /\ m = out[1].message /\ out[1].op = "send"
  BY <1>1 DEF Ordered
<1>4. Ordered(d, seen, in, o2, last)
  BY OrderedTakes
<1> HIDE DEF m, i2, o2
<1>5. \A i \in DOMAIN in : in[i].from = d => in[i].number < m.number
  BY <1>1, <1>3 DEF Ordered
<1>6. \A k \in DOMAIN o2 : o2[k].op = "send" => m.number < o2[k].message.number
  <2> SUFFICES ASSUME NEW k \in DOMAIN o2, o2[k].op = "send" PROVE m.number < o2[k].message.number
    OBVIOUS
  <2>1. k + 1 \in DOMAIN out /\ o2[k] = out[k + 1] /\ 1 < k + 1 /\ 1 \in DOMAIN out
    BY <1>1
  <2> QED
    BY <1>3, <2>1 DEF Ordered
<1>7. \A i \in DOMAIN i2 : i2[i].from = d => seen < i2[i].number /\ i2[i].number <= last
  BY <1>2, <1>3 DEF Ordered
<1>8. \A i, j \in DOMAIN i2 :
        i < j /\ i2[i].from = d /\ i2[j].from = d => i2[i].number < i2[j].number
  BY <1>2, <1>5 DEF Ordered
<1>9. \A i \in DOMAIN i2, k \in DOMAIN o2 :
        i2[i].from = d /\ o2[k].op = "send" => i2[i].number < o2[k].message.number
  BY <1>2, <1>4, <1>6 DEF Ordered
<1> QED
  BY <1>4, <1>7, <1>8, <1>9 DEF Ordered, m, i2, o2

LEMMA OrderedOthers ==
  ASSUME NEW d, NEW seen, NEW last, NEW in \in Seq(Message), NEW out,
         Ordered(d, seen, in, out, last), NEW m, m.from # d
  PROVE  Ordered(d, seen, Append(in, m), out, last)
BY AppendFacts DEF Ordered

LEMMA OrderedReceives ==
  ASSUME NEW d, NEW seen, NEW last, NEW in \in Seq(Message), NEW out, in # <<>>,
         Ordered(d, seen, in, out, last)
  PROVE  /\ Ordered(d, seen, Tail(in), out, last)
         /\ Head(in).from = d => seen < Head(in).number /\ Ordered(d, Head(in).number, Tail(in), out, last)
<1>1. /\ DOMAIN Tail(in) = 1..(Len(in) - 1) /\ DOMAIN in = 1..Len(in) /\ Len(in) \in Nat \ {0}
      /\ \A i \in 1..(Len(in) - 1) : i + 1 \in 1..Len(in) /\ Tail(in)[i] = in[i + 1]
      /\ 1 \in 1..Len(in) /\ Head(in) = in[1]
  BY TailFacts
<1>2. Ordered(d, seen, Tail(in), out, last)
  BY <1>1 DEF Ordered
<1>3. ASSUME Head(in).from = d
      PROVE  seen < Head(in).number /\ Ordered(d, Head(in).number, Tail(in), out, last)
  <2>1. /\ in[1].from = d /\ seen < in[1].number /\ in[1].number <= last
        /\ \A i \in DOMAIN Tail(in) : Tail(in)[i].from = d => in[1].number < Tail(in)[i].number
        /\ \A k \in DOMAIN out : out[k].op = "send" => in[1].number < out[k].message.number
    BY <1>1, <1>3 DEF Ordered
  <2> QED
    BY <1>1, <1>2, <2>1 DEF Ordered
<1> QED
  BY <1>2, <1>3

LEMMA OrderedDrops ==
  ASSUME NEW d, NEW seen, NEW last, NEW in, NEW out, Ordered(d, seen, in, out, last)
  PROVE  Ordered(d, seen, <<>>, out, last) /\ Ordered(d, seen, in, <<>>, last)
         /\ Ordered(d, seen, <<>>, <<>>, last)
<1>1. DOMAIN <<>> = {}
  <2>1. Len(<<>>) = 0 /\ DOMAIN <<>> = {}
    OBVIOUS
  <2> QED
    BY <2>1
<1> QED
  BY <1>1 DEF Ordered

LEMMA OrderTyped ==
  ASSUME ZmqTyped
  PROVE  /\ inbound \in [Clients -> Seq(Message)] /\ scheduled \in [Clients -> Seq(Coroutines)]
         /\ sends \in [Clients -> 0..MaxInputs] /\ delivered \in [Clients -> [Clients -> 0..MaxInputs]]
         /\ \A c, d \in Clients : sends[d] \in Nat /\ delivered[c][d] \in Nat
BY ZmqAssumptions DEF ZmqTyped

LEMMA OrderSchedule ==
  ASSUME ZmqTyped, OrderInv, NEW e \in Clients, NEW topic, Schedule(e, topic),
         UNCHANGED <<inbound, delivered>>
  PROVE  OrderInv'
<1> DEFINE m == NextMessage(e, topic)
<1>1. /\ sends' = [sends EXCEPT ![e] = @ + 1]
      /\ scheduled' = [scheduled EXCEPT ![e] = Append(@, [op |-> "send", message |-> m])]
  BY DEF Schedule
<1>2. m.from = e /\ m.number = sends[e] + 1
  BY DEF NextMessage
<1> HIDE DEF m
<1> SUFFICES ASSUME NEW c \in Clients, NEW d \in Clients
             PROVE  Ordered(d, delivered[c][d], inbound[c], scheduled'[d], sends'[d])
  BY DEF OrderInv
<1>3. Ordered(d, delivered[c][d], inbound[c], scheduled[d], sends[d])
  BY DEF OrderInv
<1>4. CASE d = e
  <2>1. /\ sends'[d] = sends[d] + 1
        /\ scheduled'[d] = Append(scheduled[d], [op |-> "send", message |-> m])
        /\ inbound[c] \in Seq(Message) /\ scheduled[d] \in Seq(Coroutines)
        /\ sends[d] \in Nat /\ delivered[c][d] \in Nat
    BY <1>1, <1>4, OrderTyped
  <2>2. Ordered(d, delivered[c][d], inbound[c],
                Append(scheduled[d], [op |-> "send", message |-> m]), sends[d] + 1)
    BY <1>2, <1>3, <1>4, <2>1, OrderedSchedules
  <2> QED
    BY <2>1, <2>2
<1>5. CASE d # e
  BY <1>1, <1>3, <1>5, OrderTyped
<1> QED
  BY <1>4, <1>5

LEMMA OrderLoop ==
  ASSUME ZmqTyped, OrderInv, NEW e \in Clients, 
         Main(e) \/ Coroutine(e) \/ Receive(e) \/ HandlerFollows(e)
  PROVE  /\ OrderInv'
         /\ \A c, d \in Clients :
              delivered'[c][d] # delivered[c][d] => delivered'[c][d] > delivered[c][d]
<1>0. /\ inbound \in [Clients -> Seq(Message)] /\ scheduled \in [Clients -> Seq(Coroutines)]
      /\ \A c, d \in Clients : sends[d] \in Nat /\ delivered[c][d] \in Nat
  BY OrderTyped
<1>1. CASE UNCHANGED <<delivered, inbound, scheduled, sends>>
  BY <1>1 DEF OrderInv
<1>2. CASE EndClosing(e) \/ BreakLoop(e)
  <2>1. /\ scheduled' = [scheduled EXCEPT ![e] = <<>>]
        /\ inbound' = [inbound EXCEPT ![e] = <<>>] \/ inbound' = inbound
        /\ UNCHANGED <<sends, delivered>>
    BY <1>2 DEF EndClosing, BreakLoop, MainGoesOn, histVars
  <2>2. ASSUME NEW c \in Clients, NEW d \in Clients
        PROVE  Ordered(d, delivered[c][d], inbound'[c], scheduled'[d], sends[d])
    <3>1. Ordered(d, delivered[c][d], inbound[c], scheduled[d], sends[d])
      BY DEF OrderInv
    <3>2. inbound'[c] \in {inbound[c], <<>>} /\ scheduled'[d] \in {scheduled[d], <<>>}
      BY <1>0, <2>1
    <3> QED
      BY <3>1, <3>2, OrderedDrops
  <2> QED
    BY <2>1, <2>2 DEF OrderInv
<1>3. CASE RunSubscribe(e)
  <2>1. /\ scheduled[e] # <<>> /\ scheduled' = [scheduled EXCEPT ![e] = Tail(@)]
        /\ UNCHANGED <<sends, delivered, inbound>>
    BY <1>3 DEF RunSubscribe, histVars
  <2>2. ASSUME NEW c \in Clients, NEW d \in Clients
        PROVE  Ordered(d, delivered[c][d], inbound[c], scheduled'[d], sends[d])
    <3>1. Ordered(d, delivered[c][d], inbound[c], scheduled[d], sends[d])
      BY DEF OrderInv
    <3>2. scheduled'[d] = IF d = e THEN Tail(scheduled[d]) ELSE scheduled[d]
      BY <1>0, <2>1
    <3> QED
      BY <1>0, <2>1, <3>1, <3>2, OrderedTakes
  <2> QED
    BY <2>1, <2>2 DEF OrderInv
<1>4. CASE RunSend(e)
  <2> DEFINE m == Head(scheduled[e]).message
  <2>1. /\ scheduled[e] # <<>> /\ Head(scheduled[e]).op = "send"
        /\ scheduled' = [scheduled EXCEPT ![e] = Tail(@)]
        /\ Publish(m) \/ UNCHANGED inbound
        /\ UNCHANGED <<sends, delivered>>
    BY <1>4 DEF RunSend
  <2>2. m.from = e
    <3>1. scheduled[e] \in Seq(Coroutines) /\ Ordered(e, delivered[e][e], inbound[e], scheduled[e], sends[e])
      BY <1>0 DEF OrderInv
    <3>2. 1 \in DOMAIN scheduled[e] /\ Head(scheduled[e]) = scheduled[e][1]
      BY <2>1, <3>1, TailFacts
    <3> QED
      BY <2>1, <3>1, <3>2 DEF Ordered
  <2>3. ASSUME NEW c \in Clients, NEW d \in Clients
        PROVE  Ordered(d, delivered[c][d], inbound'[c], scheduled'[d], sends[d])
    <3>1. Ordered(d, delivered[c][d], inbound[c], scheduled[d], sends[d])
      BY DEF OrderInv
    <3>2. /\ scheduled'[d] = IF d = e THEN Tail(scheduled[d]) ELSE scheduled[d]
          /\ inbound[c] \in Seq(Message) /\ scheduled[d] \in Seq(Coroutines)
          /\ sends[d] \in Nat /\ delivered[c][d] \in Nat
      BY <1>0, <2>1
    <3>3. inbound'[c] = Append(inbound[c], m) \/ inbound'[c] = inbound[c]
      BY <2>1 DEF Publish
    <3>4. CASE d = e
      <4>1. Ordered(d, delivered[c][d], Append(inbound[c], m), Tail(scheduled[d]), sends[d])
        BY <2>1, <3>1, <3>2, <3>4, OrderedSends
      <4>2. Ordered(d, delivered[c][d], inbound[c], Tail(scheduled[d]), sends[d])
        BY <2>1, <3>1, <3>2, <3>4, OrderedTakes
      <4> QED
        BY <3>2, <3>3, <3>4, <4>1, <4>2
    <3>5. CASE d # e
      <4> HIDE DEF m
      <4>1. Ordered(d, delivered[c][d], Append(inbound[c], m), scheduled[d], sends[d])
        BY <2>2, <3>1, <3>2, <3>5, OrderedOthers
      <4> QED
        BY <3>1, <3>2, <3>3, <3>5, <4>1
    <3> QED
      BY <3>4, <3>5
  <2> QED
    BY <2>1, <2>3 DEF OrderInv
<1>5. CASE /\ inbound[e] # <<>> /\ inbound' = [inbound EXCEPT ![e] = Tail(@)]
            /\ delivered' = [delivered EXCEPT ![e][Head(inbound[e]).from] = Head(inbound[e]).number]
            /\ UNCHANGED <<scheduled, sends>>
  <2> DEFINE m == Head(inbound[e])
  <2>1. /\ inbound[e] # <<>> /\ inbound' = [inbound EXCEPT ![e] = Tail(@)]
        /\ delivered' = [delivered EXCEPT ![e][m.from] = m.number]
        /\ UNCHANGED <<scheduled, sends>>
    BY <1>5
  <2>2. m.from \in Clients
    <3>1. m \in Message
      BY <1>0, <2>1, SeqFacts
    <3> QED
      BY <3>1 DEF Message
  <2>3. ASSUME NEW c \in Clients, NEW d \in Clients
        PROVE  delivered'[c][d] = IF c = e /\ d = m.from THEN m.number ELSE delivered[c][d]
    BY <2>1, <2>2, OrderTyped
  <2>4. ASSUME NEW c \in Clients, NEW d \in Clients
        PROVE  /\ Ordered(d, delivered'[c][d], inbound'[c], scheduled[d], sends[d])
               /\ delivered'[c][d] # delivered[c][d] => delivered'[c][d] > delivered[c][d]
    <3>1. Ordered(d, delivered[c][d], inbound[c], scheduled[d], sends[d])
      BY DEF OrderInv
    <3>2. CASE c # e
      BY <1>0, <2>1, <2>3, <3>1, <3>2
    <3>3. CASE c = e /\ d # m.from
      <4>1. Ordered(d, delivered[c][d], Tail(inbound[c]), scheduled[d], sends[d])
        BY <1>0, <2>1, <3>1, <3>3, OrderedReceives
      <4> QED
        BY <1>0, <2>1, <2>3, <3>3, <4>1
    <3>4. CASE c = e /\ d = m.from
      <4>1. /\ Ordered(d, m.number, Tail(inbound[c]), scheduled[d], sends[d])
            /\ delivered[c][d] < m.number
        BY <1>0, <2>1, <3>1, <3>4, OrderedReceives
      <4>2. delivered'[c][d] = m.number /\ inbound'[c] = Tail(inbound[c])
        BY <1>0, <2>1, <2>3, <3>4
      <4>3. m.number \in Nat /\ delivered[c][d] \in Nat
        BY <1>0, <2>1, SeqFacts, OrderedNumbers
      <4> QED
        BY <4>1, <4>2, <4>3
    <3> QED
      BY <3>2, <3>3, <3>4
  <2> QED
    BY <2>1, <2>4 DEF OrderInv
<1>6. CASE Receive(e) \/ HandlerFollows(e)
  <2>1. TakeMessage(e) /\ UNCHANGED <<scheduled, sends>>
    BY <1>6 DEF Receive, HandlerFollows
  <2> QED
    BY <1>1, <1>5, <2>1 DEF TakeMessage
<1>7. CASE Subscribes(e) \/ OpenPubSocket(e) \/ BeginClosing(e)
  <2>1. UNCHANGED <<delivered, inbound, scheduled, sends>>
    BY <1>7 DEF Subscribes, OpenSubSocket, BeginSubscribing, SubscribeNext, EndSubscribing,
                OpenPubSocket, BeginClosing, MainGoesOn, histVars
  <2> QED
    BY <1>1, <2>1
<1> QED
  BY <1>2, <1>3, <1>4, <1>6, <1>7 DEF Main, Coroutine

LEMMA OrderStep ==
  ASSUME ZmqInv, OrderInv, [Next]_vars
  PROVE  /\ OrderInv'
         /\ \A c, d \in Clients :
              delivered'[c][d] # delivered[c][d] => delivered'[c][d] > delivered[c][d]
<1>0. ZmqTyped
  BY DEF ZmqInv
<1>1. ASSUME UNCHANGED <<delivered, inbound, scheduled, sends>> PROVE OrderInv' /\ UNCHANGED delivered
  BY <1>1 DEF OrderInv
<1>2. ASSUME NEW n \in Nodes, NEW t \in Threads, SubscribeLate(n, t)
      PROVE  OrderInv' /\ UNCHANGED delivered
  <2>1. UNCHANGED <<delivered, inbound, sends>>
    BY <1>2 DEF SubscribeLate, histVars
  <2>2. PICK e, k : /\ k.op # "send"
                    /\ scheduled' = scheduled \/ scheduled' = [scheduled EXCEPT ![e] = Append(@, k)]
    BY <1>2 DEF SubscribeLate
  <2>3. ASSUME NEW c \in Clients, NEW d \in Clients
        PROVE  Ordered(d, delivered[c][d], inbound[c], scheduled'[d], sends[d])
    <3>1. Ordered(d, delivered[c][d], inbound[c], scheduled[d], sends[d])
      BY DEF OrderInv
    <3>2. /\ scheduled[d] \in Seq(Coroutines)
          /\ scheduled'[d] = scheduled[d] \/ scheduled'[d] = Append(scheduled[d], k)
      BY <1>0, <2>2, OrderTyped
    <3>3. Ordered(d, delivered[c][d], inbound[c], Append(scheduled[d], k), sends[d])
      BY <2>2, <3>1, <3>2, OrderedRegisters
    <3> QED
      BY <3>1, <3>2, <3>3
  <2> QED
    BY <2>1, <2>3 DEF OrderInv
<1>3. ASSUME NEW n \in Nodes, NEW t \in Threads, SendMessage(n, t)
      PROVE  OrderInv' /\ UNCHANGED delivered
  <2>1. UNCHANGED <<delivered, inbound>>
    BY <1>3 DEF SendMessage, histVars
  <2>2. CASE client[n] # 0 /\ Schedule(Of(n), calls[n][t].topic)
    BY <1>0, <2>1, <2>2, OfClient, OrderSchedule
  <2>3. CASE UNCHANGED <<sends, scheduled>>
    BY <1>1, <2>1, <2>3
  <2> QED
    BY <1>3, <2>2, <2>3 DEF SendMessage, CanSchedule
<1>4. ASSUME NEW c \in Clients, NEW topic \in Topics, HandlerSends(c, topic)
      PROVE  OrderInv' /\ UNCHANGED delivered
  <2>1. c[1] \in Nodes /\ client[c[1]] # 0 /\ Schedule(Of(c[1]), topic) /\ UNCHANGED <<delivered, inbound>>
    BY <1>4 DEF HandlerSends, CanSchedule, Clients
  <2> QED
    BY <1>0, <2>1, OfClient, OrderSchedule
<1>5. ASSUME NEW n \in Nodes,
             \/ Start(n) \/ StartClient(n) \/ CopyFails(n) \/ StartReturns(n) \/ Stop(n) \/ StopReturns(n)
             \/ \E t \in Threads : \/ RegisterTopic(n, t) \/ SendReturns(n, t) \/ SendTimesOut(n, t)
                                   \/ \E topic \in Topics : RegisterHandler(n, t, topic) \/ Send(n, t, topic)
      PROVE  OrderInv' /\ UNCHANGED delivered
  <2>1. UNCHANGED <<delivered, inbound, scheduled, sends>>
    BY <1>5 DEF Start, StartClient, CopyFails, StartReturns, Stop, StopReturns, RegisterTopic,
                RegisterHandler, SendReturns, SendTimesOut, Send, loopVars, histVars
  <2> QED
    BY <1>1, <2>1
<1>6. ASSUME NEW c \in Clients, HandlerSendReturns(c) \/ HandlerReturns(c) \/ OthersPublish(c)
      PROVE  OrderInv' /\ UNCHANGED delivered
  BY <1>1, <1>6 DEF HandlerSendReturns, HandlerReturns, OthersPublish, histVars
<1>7. CASE UNCHANGED vars
  BY <1>1, <1>7 DEF vars, loopVars, histVars
<1>8. CASE NodeNext
  <2>1. OrderInv' /\ UNCHANGED delivered
    BY <1>2, <1>3, <1>5, <1>8 DEF NodeNext
  <2> QED
    BY <2>1
<1>9. ASSUME NEW c \in Clients, Main(c) \/ Coroutine(c) \/ Receive(c) \/ HandlerFollows(c)
      PROVE  /\ OrderInv'
             /\ \A d, e \in Clients :
                  delivered'[d][e] # delivered[d][e] => delivered'[d][e] > delivered[d][e]
  BY <1>0, <1>9, OrderLoop
<1> QED
  BY <1>4, <1>6, <1>7, <1>8, <1>9 DEF Next, HandlerGoesOn

\* For any nodes, threads and bounds, with restarts, losses, timeouts and stops: each
\* handler sees the messages of a client in the order of their sends.
THEOREM InOrderHolds == ZmqSpec => InOrder
<1>1. ZmqInit => OrderInv
  <2>1. Len(<<>>) = 0 /\ DOMAIN <<>> = {}
    OBVIOUS
  <2> QED
    BY <2>1 DEF ZmqInit, OrderInv, Ordered
<1>2. OrderInv /\ ZmqInv /\ [Next]_vars => OrderInv'
  BY OrderStep
<1>3. OrderInv /\ ZmqInv /\ [Next]_vars
        => [\A c, d \in Clients :
              delivered'[c][d] # delivered[c][d] => delivered'[c][d] > delivered[c][d]]_vars
  BY OrderStep
<1> QED
  BY <1>1, <1>2, <1>3, ZmqAlways, PTL DEF ZmqSpec, InOrder
=============================================================================
