-------------------------- MODULE KspsClientProofs --------------------------
(***************************************************************************)
(* Proofs about KspsClient, for any number of connections, reconnecting    *)
(* goroutines, topics and programs and any capacity of the queue.          *)
(***************************************************************************)
EXTENDS KspsClient, TLAPS

\* Requests name a topic.
Requests == {m \in Message : m.action \in {"subscribe", "unsubscribe"} => m.topic \in Topics}

\* Where an actor may stand, and what its call returns to.
Standing(p, a) ==
    /\ a \in Actor
    /\ a.msg \in Requests
    /\ a.pc = "up" => a.conn \in Sessions
    /\ a.pc = "add" => a.msg.action = "subscribe"
    /\ a.pc = "tell" => a.msg.action = "unsubscribe"
    /\ p = App => /\ a.pc \in {"dial", "up", "idle", "gone", "send", "add", "tell", "close",
                               "close.conn"}
                  /\ a.pc = "send" => a.next = "idle"
    /\ p \in Sessions => /\ a.pc \in {"over", "loop", "conn", "read", "callback", "send", "add",
                                      "tell"}
                         /\ a.pc = "send" => a.next = "callback"
    /\ p \in Reconnectors => /\ a.pc \in {"over", "check", "dial", "up", "send", "snapshot",
                                          "resub", "release"}
                             /\ a.pc = "send" => a.next \in {"snapshot", "resub"}

ActorsOK == act \in [Actors -> Actor] /\ \A p \in Actors : Standing(p, act[p])

SendersOK ==
    /\ sender \in [Sessions -> Sender]
    /\ \A n \in Sessions : sender[n].msg \in Requests

QueueOK == queue \in Seq(Requests) /\ Len(queue) <= QueueCap

ServerOK == server \in [Sessions -> [registered : BOOLEAN, topics : SUBSET Topics]]

FlagsOK ==
    /\ program \in Programs
    /\ connected \in BOOLEAN /\ reconnecting \in BOOLEAN /\ done \in BOOLEAN
    /\ Conn \in Sessions \cup {None}
    /\ spawned \in Nat
    /\ subscriptions \subseteq Topics
    /\ socket \in [Sessions -> {"open", "broken", "closed"}]

TypeInv == ActorsOK /\ SendersOK /\ QueueOK /\ ServerOK /\ FlagsOK

\* Who may become, or is, the reader of the client: a handler that has not
\* ended, and an actor that may dial.
Holds(p) == IF p \in Sessions THEN ~At(p, "over") ELSE act[p].pc \in {"check", "dial", "up"}

\* There is one of them at a time, or one goroutine about to reconnect.
OneToken ==
    /\ spawned \in {0, 1}
    /\ spawned = 1 => \A p \in Actors : ~Holds(p)
    /\ \A p, q \in Actors : Holds(p) /\ Holds(q) => p = q

-----------------------------------------------------------------------------
(* Types *)

\* One actor moves to a place where it may stand.
LEMMA MoveOK ==
    ASSUME ActorsOK, NEW p \in Actors, NEW a, Standing(p, a), act' = [act EXCEPT ![p] = a]
    PROVE  ActorsOK'
BY DEF ActorsOK, Standing

\* What a call leaves of its caller.
LEMMA SendOK ==
    ASSUME TypeInv, NEW p \in Actors, Send(p)
    PROVE  TypeInv'
<1>1. ActorsOK'
  <2> DEFINE a == [act[p] EXCEPT !.pc = act[p].next, !.msg = Ping, !.next = "over"]
  <2>1. Standing(p, act[p]) /\ p \in {App} \cup Sessions \cup Reconnectors
    BY DEF TypeInv, ActorsOK, Actors
  <2>2. Standing(p, a)
    BY <2>1, ClientAssumption DEF Standing, Send, At, Actor, Labels, Requests, Message, Ping
  <2>3. act' = [act EXCEPT ![p] = a]
    BY DEF Send, TypeInv, ActorsOK
  <2>4. QED BY <2>2, <2>3, MoveOK DEF TypeInv
<1>2. QueueOK'
  <2>1. act[p].msg \in Requests
    BY DEF TypeInv, ActorsOK, Standing
  <2>2. queue \in Seq(Requests) /\ Len(queue) <= QueueCap /\ QueueCap \in Nat
    BY ClientAssumption DEF TypeInv, QueueOK
  <2>3. \/ queue' = queue
        \/ Len(queue) < QueueCap /\ queue' = Append(queue, act[p].msg)
    BY DEF Send, Room
  <2>4. QED BY <2>1, <2>2, <2>3 DEF QueueOK
<1>3. QED BY <1>1, <1>2 DEF Send, TypeInv, SendersOK, ServerOK, FlagsOK

\* connect: a dial that fails, one that succeeds, and the start of the two
\* goroutines.
LEMMA ConnectOK ==
    ASSUME TypeInv, NEW p \in Actors, Connect(p)
    PROVE  TypeInv'
<1> USE DEF TypeInv
<1>0. Standing(p, act[p]) /\ p \in {App} \cup Sessions \cup Reconnectors /\ act \in [Actors -> Actor]
  BY DEF ActorsOK, Actors
<1>1. CASE DialFails(p)
  <2> DEFINE a == [act[p] EXCEPT !.pc = IF p # App THEN "check"
                                        ELSE IF Autorestart THEN "idle" ELSE "gone"]
  <2>1. Standing(p, a)
    BY <1>0, <1>1, ClientAssumption DEF Standing, DialFails, At, Actor, Labels
  <2>2. act' = [act EXCEPT ![p] = a]
    BY <1>0, <1>1 DEF DialFails, Goto
  <2>3. ActorsOK'
    BY <2>1, <2>2, MoveOK
  <2>4. QED BY <1>1, <2>3 DEF DialFails, SendersOK, QueueOK, ServerOK, FlagsOK
<1>2. CASE Dial(p)
  <2>1. PICK n \in Sessions : /\ socket' = [socket EXCEPT ![n] = "open"]
                              /\ Conn' = n
                              /\ act' = [act EXCEPT ![p].pc = "up", ![p].conn = n]
    BY <1>2 DEF Dial
  <2> DEFINE a == [act[p] EXCEPT !.pc = "up", !.conn = n]
  <2>2. Standing(p, a)
    BY <1>0, <1>2, ClientAssumption DEF Standing, Dial, At, Actor, Labels
  <2>3. act' = [act EXCEPT ![p] = a]
    BY <1>0, <2>1
  <2>4. ActorsOK'
    BY <2>2, <2>3, MoveOK
  <2>5. QED BY <1>2, <2>1, <2>4 DEF Dial, SendersOK, QueueOK, ServerOK, FlagsOK
<1>3. CASE Up(p)
  <2> DEFINE n == act[p].conn
             a == [NoActor EXCEPT !.pc = "send", !.next = IF p = App THEN "idle" ELSE "snapshot"]
             h == [NoActor EXCEPT !.pc = "loop"]
             w == [NoSender EXCEPT !.pc = "select"]
  <2>1. act[p].pc = "up" /\ n \in Sessions /\ p \notin Sessions
    BY <1>0, <1>3, ClientAssumption DEF Up, At, Standing
  <2>2. act' = [act EXCEPT ![n] = h, ![p] = a] /\ sender' = [sender EXCEPT ![n] = w]
    BY <1>3 DEF Up
  <2>3. h \in Actor /\ a \in Actor /\ w \in Sender /\ Ping \in Requests
    BY ClientAssumption DEF Actor, Sender, NoActor, NoSender, Ping, Requests, Message, Labels
  <2>4. Standing(n, h) /\ Standing(p, a)
    BY <1>0, <2>1, <2>3, ClientAssumption DEF Standing, NoActor
  <2>5. ActorsOK'
    BY <2>1, <2>2, <2>3, <2>4 DEF ActorsOK, Actors
  <2>6. SendersOK'
    BY <2>1, <2>2, <2>3 DEF SendersOK, NoSender
  <2>7. QED BY <1>3, <2>5, <2>6 DEF Up, QueueOK, ServerOK, FlagsOK
<1>4. QED BY <1>1, <1>2, <1>3 DEF Connect

\* The handler of a connection.
LEMMA HandlerOK ==
    ASSUME TypeInv, NEW n \in Sessions, Handler(n) \/ Read(n) \/ CallbackReturns(n)
    PROVE  TypeInv'
<1> USE DEF TypeInv
<1>0. Standing(n, act[n]) /\ n \in Actors /\ act \in [Actors -> Actor]
  BY DEF ActorsOK, Actors
<1>1. \E a : Standing(n, a) /\ act' = [act EXCEPT ![n] = a]
  <2>1. CASE HandlerLoop(n)
    <3>1. Standing(n, [act[n] EXCEPT !.pc = IF done \/ ~connected THEN "over" ELSE "conn"])
      BY <1>0, <2>1, ClientAssumption DEF Standing, HandlerLoop, At, Actor, Labels
    <3>2. QED BY <1>0, <2>1, <3>1 DEF HandlerLoop, Goto
  <2>2. CASE HandlerConn(n)
    <3>1. Standing(n, [act[n] EXCEPT !.pc = IF Conn = None THEN "over" ELSE "read", !.conn = Conn])
      BY <1>0, <2>2, ClientAssumption DEF Standing, HandlerConn, At, Actor, Labels, FlagsOK
    <3>2. QED BY <1>0, <2>2, <3>1 DEF HandlerConn
  <2>3. CASE ReadError(n)
    <3>1. Standing(n, NoActor)
      BY <1>0, ClientAssumption DEF Standing, NoActor, Actor, Labels, Ping, Requests, Message
    <3>2. QED BY <2>3, <3>1 DEF ReadError
  <2>4. CASE Read(n)
    <3>1. PICK label \in {"loop", "callback"} : act' = [act EXCEPT ![n].pc = label, ![n].conn = None]
      BY <2>4 DEF Read
    <3>2. Standing(n, [act[n] EXCEPT !.pc = label, !.conn = None])
      BY <1>0, ClientAssumption DEF Standing, Actor, Labels
    <3>3. QED BY <1>0, <3>1, <3>2
  <2>5. CASE CallbackReturns(n)
    <3>1. Standing(n, [act[n] EXCEPT !.pc = "loop"])
      BY <1>0, ClientAssumption DEF Standing, Actor, Labels
    <3>2. QED BY <1>0, <2>5, <3>1 DEF CallbackReturns, Goto
  <2>6. QED BY <2>1, <2>2, <2>3, <2>4, <2>5 DEF Handler
<1>2. ActorsOK'
  BY <1>0, <1>1, MoveOK
<1>3. UNCHANGED <<program, reconnecting, Conn, done, subscriptions, queue, sender, socket, server>>
  BY DEF Handler, HandlerLoop, HandlerConn, ReadError, Read, CallbackReturns
<1>4. connected' \in BOOLEAN
  BY Zenon DEF Handler, HandlerLoop, HandlerConn, ReadError, Read, CallbackReturns, FlagsOK
<1>5. spawned' = spawned \/ spawned' = spawned + 1
  BY DEF Handler, HandlerLoop, HandlerConn, ReadError, Read, CallbackReturns
<1>6. spawned' \in Nat
  BY <1>5 DEF FlagsOK
<1>7. QED BY <1>2, <1>3, <1>4, <1>6 DEF SendersOK, QueueOK, ServerOK, FlagsOK

\* What the server hears of a message leaves it a set of topics.
LEMMA HeardOK ==
    ASSUME NEW peer \in [registered : BOOLEAN, topics : SUBSET Topics], NEW m \in Requests
    PROVE  Heard(peer, m) \in [registered : BOOLEAN, topics : SUBSET Topics]
BY DEF Heard, Requests, Message

\* The sender of a connection.
LEMMA SenderStepOK ==
    ASSUME TypeInv, NEW n \in Sessions, SenderStop(n) \/ Sends(n)
    PROVE  TypeInv'
<1> USE DEF TypeInv
<1>0. /\ sender \in [Sessions -> Sender] /\ sender[n] \in Sender /\ sender[n].msg \in Requests
      /\ Conn \in Sessions \cup {None}
  BY DEF SendersOK, FlagsOK
<1>1. Waiting \in Sender /\ NoSender \in Sender /\ Waiting.msg \in Requests /\ NoSender.msg \in Requests
  BY DEF Waiting, NoSender, Sender, Ping, Requests, Message
<1>2. QueueOK' /\ (SenderTake(n) => Head(queue) \in Requests)
  <2>1. queue \in Seq(Requests) /\ Len(queue) <= QueueCap /\ QueueCap \in Nat
    BY ClientAssumption DEF QueueOK
  <2>2. queue' = queue \/ (queue # <<>> /\ queue' = Tail(queue))
    BY DEF SenderStop, Sends, SenderTake, SenderCheck, SenderConn, Write, WriteError
  <2>3. SenderTake(n) => queue # <<>>
    BY DEF SenderTake
  <2>4. QED BY <2>1, <2>2, <2>3 DEF QueueOK
<1>3. \E w \in Sender : w.msg \in Requests /\ sender' = [sender EXCEPT ![n] = w]
  <2>1. CASE SenderStop(n)
    BY <1>1, <2>1 DEF SenderStop
  <2>2. CASE SenderTake(n)
    <3>1. [sender[n] EXCEPT !.pc = "taken", !.msg = Head(queue)] \in Sender
      BY <1>0, <1>2, <2>2 DEF Sender, Requests
    <3>2. [sender[n] EXCEPT !.pc = "taken", !.msg = Head(queue)].msg \in Requests
      BY <1>0, <1>2, <2>2 DEF Sender
    <3>3. QED BY <1>0, <2>2, <3>1, <3>2 DEF SenderTake
  <2>3. CASE SenderCheck(n)
    <3>1. [sender[n] EXCEPT !.pc = "conn"] \in Sender /\ [sender[n] EXCEPT !.pc = "conn"].msg \in Requests
      BY <1>0 DEF Sender
    <3>2. QED BY <1>0, <1>1, <2>3, <3>1 DEF SenderCheck
  <2>4. CASE SenderConn(n)
    <3>1. /\ [sender[n] EXCEPT !.pc = "write", !.conn = Conn] \in Sender
          /\ [sender[n] EXCEPT !.pc = "write", !.conn = Conn].msg \in Requests
      BY <1>0 DEF Sender
    <3>2. QED BY <1>0, <1>1, <2>4, <3>1 DEF SenderConn
  <2>5. CASE Write(n)
    BY <1>1, <2>5 DEF Write
  <2>6. CASE WriteError(n)
    BY <1>1, <2>6 DEF WriteError
  <2>7. QED BY <2>1, <2>2, <2>3, <2>4, <2>5, <2>6 DEF Sends
<1>4. SendersOK'
  BY <1>3 DEF SendersOK
<1>5. ServerOK'
  <2>1. CASE Write(n)
    <3> DEFINE c == sender[n].conn
    <3>1. server[c] \in [registered : BOOLEAN, topics : SUBSET Topics] \/ c \notin Sessions
      BY DEF ServerOK
    <3>2. server' = server \/ server' = [server EXCEPT ![c] = Heard(server[c], sender[n].msg)]
      BY <2>1 DEF Write
    <3>3. QED BY <1>0, <3>1, <3>2, HeardOK DEF ServerOK
  <2>2. CASE ~Write(n)
    BY <2>2 DEF SenderStop, Sends, SenderTake, SenderCheck, SenderConn, WriteError, ServerOK
  <2>3. QED BY <2>1, <2>2
<1>6. UNCHANGED <<program, reconnecting, Conn, done, spawned, subscriptions, act, socket>>
  BY DEF SenderStop, Sends, SenderTake, SenderCheck, SenderConn, Write, WriteError
<1>7. connected' \in BOOLEAN
  BY DEF SenderStop, Sends, SenderTake, SenderCheck, SenderConn, Write, WriteError, FlagsOK
<1>8. QED BY <1>2, <1>4, <1>5, <1>6, <1>7 DEF FlagsOK, ActorsOK

\* The calls of the program and of callbacks.
LEMMA CallOK ==
    ASSUME TypeInv, NEW p \in Callers, Call(p) \/ Proceed(p)
    PROVE  TypeInv'
<1> USE DEF TypeInv
<1>0. /\ p \in Actors /\ p \in {App} \cup Sessions /\ p \notin Reconnectors
      /\ Standing(p, act[p]) /\ act \in [Actors -> Actor]
      /\ program.topics \subseteq Topics /\ program.leaves \subseteq Topics
  <2>1. program \in [topics : SUBSET Topics, leaves : SUBSET Topics, publishes : BOOLEAN,
                     closes : BOOLEAN]
    BY ClientAssumption DEF FlagsOK
  <2>2. QED BY <2>1, ClientAssumption DEF ActorsOK, Actors
<1> USE <1>0
<1> DEFINE Request(what, t) == [action |-> what, topic |-> t]
<1>1. \A t \in Topics : Request("subscribe", t) \in Requests /\ Request("unsubscribe", t) \in Requests
  BY DEF Requests, Message
<1>2. Request("publish", None) \in Requests /\ Ping \in Requests /\ Requests \subseteq Message
  BY DEF Requests, Message, Ping
<1>3. \E a : Standing(p, a) /\ act' = [act EXCEPT ![p] = a]
  <2>1. ASSUME NEW t \in program.topics, Subscribe(p, t)
        PROVE  \E a : Standing(p, a) /\ act' = [act EXCEPT ![p] = a]
    <3>1. Standing(p, [act[p] EXCEPT !.pc = "add", !.msg = Request("subscribe", t)])
      <4>1. PICK m \in Requests : m = Request("subscribe", t) /\ m.action = "subscribe"
        BY <1>1
      <4>2. Standing(p, [act[p] EXCEPT !.pc = "add", !.msg = m])
        BY <1>2, <4>1, ClientAssumption DEF Standing, Actor, Labels
      <4>3. QED BY <4>1, <4>2
    <3>2. act' = [act EXCEPT ![p] = [act[p] EXCEPT !.pc = "add", !.msg = Request("subscribe", t)]]
      BY <2>1 DEF Subscribe
    <3>3. QED BY <3>1, <3>2
  <2>2. ASSUME NEW t \in program.leaves, Unsubscribe(p, t)
        PROVE  \E a : Standing(p, a) /\ act' = [act EXCEPT ![p] = a]
    <3>1. Standing(p, [act[p] EXCEPT !.pc = "tell", !.msg = Request("unsubscribe", t)])
      <4>1. PICK m \in Requests : m = Request("unsubscribe", t) /\ m.action = "unsubscribe"
        BY <1>1
      <4>2. Standing(p, [act[p] EXCEPT !.pc = "tell", !.msg = m])
        BY <1>2, <4>1, ClientAssumption DEF Standing, Actor, Labels
      <4>3. QED BY <4>1, <4>2
    <3>2. act' = [act EXCEPT ![p] = [act[p] EXCEPT !.pc = "tell", !.msg = Request("unsubscribe", t)]]
      BY <2>2 DEF Unsubscribe
    <3>3. QED BY <3>1, <3>2
  <2>3. \A m \in Requests :
            Standing(p, [act[p] EXCEPT !.pc = "send", !.msg = m, !.next = Rest(p)])
    BY <1>2, ClientAssumption DEF Standing, Rest, Actor, Labels
  <2>4. ASSUME NEW m \in Requests, Sending(p, m, Rest(p))
        PROVE  \E a : Standing(p, a) /\ act' = [act EXCEPT ![p] = a]
    <3>1. act' = [act EXCEPT ![p] = [act[p] EXCEPT !.pc = "send", !.msg = m, !.next = Rest(p)]]
      BY <2>4 DEF Sending
    <3>2. QED BY <2>3, <3>1
  <2>5. CASE Publish(p)
    BY <1>2, <2>4, <2>5 DEF Publish
  <2>6. CASE SubscribeAdd(p)
    <3>1. act[p].msg \in Requests
      BY DEF Standing
    <3>2. QED BY <2>4, <2>6, <3>1 DEF SubscribeAdd
  <2>7. CASE UnsubscribeTell(p)
    <3>1. act[p].msg \in Requests
      BY DEF Standing
    <3>2. Standing(p, [act[p] EXCEPT !.pc = Rest(p), !.msg = Ping])
      BY <1>2, ClientAssumption DEF Standing, Rest, Actor, Labels
    <3>3. CASE connected
      BY <2>4, <2>7, <3>1, <3>3 DEF UnsubscribeTell
    <3>4. CASE ~connected
      <4>1. act' = [act EXCEPT ![p] = [act[p] EXCEPT !.pc = Rest(p), !.msg = Ping]]
        BY <2>7, <3>4 DEF UnsubscribeTell
      <4>2. QED BY <3>2, <4>1
    <3>5. QED BY <3>3, <3>4
  <2>8. CASE Close(p) \/ CloseDone(p) \/ CloseConn(p)
    <3>1. PICK label \in {"close", "close.conn", "idle"} :
              act' = [act EXCEPT ![p] = [act[p] EXCEPT !.pc = label]]
      BY <2>8 DEF Close, CloseDone, CloseConn, Goto
    <3>2. p = App
      BY <2>8, ClientAssumption DEF Close, CloseDone, CloseConn, At, Standing
    <3>3. Standing(p, [act[p] EXCEPT !.pc = label])
      BY <3>2, ClientAssumption DEF Standing, Actor, Labels
    <3>4. QED BY <3>1, <3>3
  <2>9. QED BY <2>1, <2>2, <2>5, <2>6, <2>7, <2>8 DEF Call, Proceed
<1>4. ActorsOK'
  BY <1>3, MoveOK
<1>5. subscriptions' \subseteq Topics
  <2>1. CASE SubscribeAdd(p)
    <3>1. act[p].msg.topic \in Topics
      BY <2>1 DEF SubscribeAdd, At, Standing, Requests
    <3>2. QED BY <2>1, <3>1 DEF SubscribeAdd, FlagsOK
  <2>2. CASE ~SubscribeAdd(p)
    BY <2>2 DEF Call, Proceed, Subscribe, Unsubscribe, UnsubscribeTell, Publish, Close, CloseDone,
                CloseConn, FlagsOK
  <2>3. QED BY <2>1, <2>2
<1>6. /\ connected' \in BOOLEAN /\ done' \in BOOLEAN
      /\ Conn' \in Sessions \cup {None}
  BY Zenon DEF Call, Proceed, Subscribe, Unsubscribe, UnsubscribeTell, Publish, Close, CloseDone,
               CloseConn, SubscribeAdd, FlagsOK
<1>7. ServerOK' /\ socket' \in [Sessions -> {"open", "broken", "closed"}]
  <2>1. CASE CloseConn(p)
    <3>1. NoPeer \in [registered : BOOLEAN, topics : SUBSET Topics]
      BY DEF NoPeer
    <3>2. \/ server' = server /\ socket' = socket
          \/ /\ server' = [server EXCEPT ![Conn] = NoPeer]
             /\ socket' = [socket EXCEPT ![Conn] = "closed"]
      BY <2>1 DEF CloseConn, Ends
    <3>3. QED BY <3>1, <3>2 DEF ServerOK, FlagsOK
  <2>2. CASE ~CloseConn(p)
    BY <2>2 DEF Call, Proceed, Subscribe, Unsubscribe, UnsubscribeTell, Publish, Close, CloseDone,
                SubscribeAdd, ServerOK, FlagsOK
  <2>3. QED BY <2>1, <2>2
<1>8. UNCHANGED <<program, reconnecting, spawned, queue, sender>>
  BY DEF Call, Proceed, Subscribe, Unsubscribe, UnsubscribeTell, Publish, Close, CloseDone,
         CloseConn, SubscribeAdd
<1>9. QED BY <1>4, <1>5, <1>6, <1>7, <1>8 DEF SendersOK, QueueOK, FlagsOK

\* The goroutines that reconnect.
LEMMA ReconnectOK ==
    ASSUME TypeInv, NEW r \in Reconnectors, Reconnect(r)
    PROVE  TypeInv'
<1> USE DEF TypeInv
<1>0. r \in Actors /\ Standing(r, act[r]) /\ act \in [Actors -> Actor] /\ r \notin {App} \cup Sessions
  BY ClientAssumption DEF ActorsOK, Actors
<1> USE <1>0
<1>1. \E a : Standing(r, a) /\ act' = [act EXCEPT ![r] = a]
  <2>1. \A label \in {"check", "dial", "release"} : Standing(r, [act[r] EXCEPT !.pc = label])
    BY ClientAssumption DEF Standing, Actor, Labels
  <2>2. CASE Enter(r)
    BY <2>1, <2>2 DEF Enter, Goto
  <2>3. CASE Check(r)
    BY <2>1, <2>3 DEF Check, Goto
  <2>4. CASE Snapshot(r)
    <3>1. Standing(r, [act[r] EXCEPT !.pc = "resub", !.left = subscriptions])
      BY ClientAssumption DEF Standing, Actor, Labels, FlagsOK
    <3>2. QED BY <2>4, <3>1 DEF Snapshot
  <2>5. CASE Resubscribe(r)
    <3>1. CASE act[r].left = {}
      BY <2>1, <2>5, <3>1 DEF Resubscribe, Goto
    <3>2. ASSUME NEW t \in act[r].left,
                 act' = [act EXCEPT ![r].pc = "send", ![r].next = "resub",
                                    ![r].msg = [action |-> "subscribe", topic |-> t],
                                    ![r].left = @ \ {t}]
          PROVE  \E a : Standing(r, a) /\ act' = [act EXCEPT ![r] = a]
      <4>1. t \in Topics
        BY DEF Standing, Actor
      <4>2. [action |-> "subscribe", topic |-> t] \in Requests
        BY <4>1 DEF Requests, Message
      <4>3. PICK m \in Requests : m = [action |-> "subscribe", topic |-> t]
        BY <4>2
      <4>4. m \in Message /\ act[r].left \ {t} \in SUBSET Topics
        BY <4>1 DEF Requests, Standing, Actor
      <4>5. Standing(r, [act[r] EXCEPT !.pc = "send", !.next = "resub", !.msg = m,
                                       !.left = act[r].left \ {t}])
        BY <4>4, ClientAssumption DEF Standing, Actor, Labels
      <4>6. act' = [act EXCEPT ![r] = [act[r] EXCEPT !.pc = "send", !.next = "resub", !.msg = m,
                                                     !.left = act[r].left \ {t}]]
        BY <3>2, <4>3
      <4>7. QED BY <4>5, <4>6
    <3>3. QED BY <2>5, <3>1, <3>2 DEF Resubscribe
  <2>6. CASE Release(r)
    <3>1. Standing(r, NoActor)
      BY ClientAssumption DEF Standing, NoActor, Actor, Labels, Ping, Requests, Message
    <3>2. QED BY <2>6, <3>1 DEF Release
  <2>7. QED BY <2>2, <2>3, <2>4, <2>5, <2>6 DEF Reconnect
<1>2. ActorsOK'
  BY <1>1, MoveOK
<1>3. spawned' \in Nat
  <2>1. spawned' = spawned \/ (spawned > 0 /\ spawned' = spawned - 1)
    BY DEF Reconnect, Enter, Check, Snapshot, Resubscribe, Release
  <2>2. QED BY <2>1 DEF FlagsOK
<1>4. reconnecting' \in BOOLEAN
  BY Zenon DEF Reconnect, Enter, Check, Snapshot, Resubscribe, Release, FlagsOK
<1>5. UNCHANGED <<program, connected, Conn, done, subscriptions, queue, sender, socket, server>>
  BY DEF Reconnect, Enter, Check, Snapshot, Resubscribe, Release
<1>6. QED BY <1>2, <1>3, <1>4, <1>5 DEF SendersOK, QueueOK, ServerOK, FlagsOK

LEMMA BreakOK ==
    ASSUME TypeInv, NEW n \in Sessions, Break(n)
    PROVE  TypeInv'
BY DEF TypeInv, Break, Ends, NoPeer, ActorsOK, SendersOK, QueueOK, ServerOK, FlagsOK

LEMMA NextTypes == TypeInv /\ [Next]_vars => TypeInv'
<1> SUFFICES ASSUME TypeInv, [Next]_vars PROVE TypeInv'
  OBVIOUS
<1>1. CASE Refused
  BY <1>1 DEF TypeInv, Refused, ActorsOK, SendersOK, QueueOK, ServerOK, FlagsOK
<1>2. CASE UNCHANGED vars
  BY <1>2 DEF TypeInv, vars, ActorsOK, SendersOK, QueueOK, ServerOK, FlagsOK
<1>3. QED
  BY <1>1, <1>2, ConnectOK, SendOK, CallOK, HandlerOK, SenderStepOK, BreakOK, ReconnectOK DEF Next

LEMMA InitTypes == Init => TypeInv
<1> SUFFICES ASSUME Init PROVE TypeInv
  OBVIOUS
<1>1. NoActor \in Actor /\ Ping \in Requests /\ NoSender \in Sender
  BY DEF NoActor, NoSender, Actor, Sender, Ping, Requests, Message, Labels
<1>2. ActorsOK
  BY <1>1, ClientAssumption DEF Init, ActorsOK, Actors, Standing, NoActor, Actor, Labels
<1>3. SendersOK
  BY <1>1 DEF Init, SendersOK, NoSender
<1>4. QueueOK
  BY ClientAssumption DEF Init, QueueOK
<1>5. ServerOK /\ FlagsOK
  BY DEF Init, ServerOK, FlagsOK, NoPeer
<1>6. QED BY <1>2, <1>3, <1>4, <1>5 DEF TypeInv

LEMMA TypeInvTypes == TypeInv => TypeOK
<1> SUFFICES ASSUME TypeInv PROVE TypeOK
  OBVIOUS
<1>1. queue \in Seq(Message)
  BY DEF TypeInv, QueueOK, Requests
<1>2. QED BY <1>1 DEF TypeInv, TypeOK, ActorsOK, SendersOK, QueueOK, ServerOK, FlagsOK

LEMMA TypesHold == Spec => []TypeInv
BY InitTypes, NextTypes, PTL DEF Spec

\* The state stays within its types: flags, queue, actors, senders, sockets and
\* what the server knows.
THEOREM TypeCorrect == Spec => []TypeOK
BY TypesHold, TypeInvTypes, PTL

-----------------------------------------------------------------------------
(* One reader *)

\* Who moves from one place to another, and whether it holds the token there.
LEMMA TokenMoves ==
    ASSUME TypeInv, OneToken, NEW p \in Actors,
           \A q \in Actors \ {p} : act'[q].pc = act[q].pc,
           \/ Holds(p)' = Holds(p) /\ spawned' = spawned
           \/ ~Holds(p)' /\ (spawned' = spawned \/ (Holds(p) /\ spawned' = spawned + 1))
           \/ Holds(p)' /\ spawned > 0 /\ spawned' = spawned - 1
    PROVE  OneToken'
<1>1. spawned \in {0, 1} /\ spawned' \in {0, 1}
  BY DEF OneToken
<1>2. \A q \in Actors \ {p} : Holds(q)' = Holds(q)
  BY DEF Holds, At
<1>3. CASE Holds(p)' = Holds(p) /\ spawned' = spawned
  BY <1>2, <1>3, Zenon DEF OneToken
<1>4. CASE ~Holds(p)' /\ (spawned' = spawned \/ (Holds(p) /\ spawned' = spawned + 1))
  BY <1>1, <1>2, <1>4 DEF OneToken
<1>5. CASE Holds(p)' /\ spawned > 0 /\ spawned' = spawned - 1
  BY <1>1, <1>2, <1>5 DEF OneToken
<1>6. QED BY <1>3, <1>4, <1>5

\* The token is handed on by Up: from the one that has dialed to the handler
\* of the new connection.
LEMMA UpKeepsToken ==
    ASSUME TypeInv, OneToken, NEW p \in Actors, Up(p)
    PROVE  OneToken'
<1> DEFINE n == act[p].conn
<1>1. act[p].pc = "up" /\ n \in Sessions /\ p \notin Sessions /\ n \in Actors /\ act \in [Actors -> Actor]
  BY ClientAssumption DEF Up, At, TypeInv, ActorsOK, Standing, Actors
<1>2. Holds(p)
  BY <1>1 DEF Holds
<1>3. /\ act'[n].pc = "loop" /\ act'[p].pc = "send" /\ spawned' = spawned
      /\ \A q \in Actors \ {n, p} : act'[q] = act[q]
  BY <1>1 DEF Up, NoActor
<1>4. ~Holds(p)' /\ \A q \in Actors \ {n, p} : Holds(q)' = Holds(q)
  BY <1>1, <1>3 DEF Holds, At
<1>5. \A q \in Actors : Holds(q)' => q = n
  BY <1>2, <1>4, Zenon DEF OneToken
<1>6. spawned' = 0
  BY <1>2, <1>3 DEF OneToken
<1>7. QED BY <1>5, <1>6 DEF OneToken

LEMMA NextToken == TypeInv /\ OneToken /\ [Next]_vars => OneToken'
<1> SUFFICES ASSUME TypeInv, OneToken, [Next]_vars PROVE OneToken'
  OBVIOUS
<1> USE DEF Holds, At
<1>0. act \in [Actors -> Actor] /\ \A p \in Actors : Standing(p, act[p])
  BY DEF TypeInv, ActorsOK
<1>1. ASSUME NEW p \in Actors, DialFails(p) \/ Dial(p) PROVE OneToken'
  <2>1. act[p].pc = "dial" /\ p \notin Sessions
    BY <1>0, <1>1, ClientAssumption DEF DialFails, Dial, Standing, Actors
  <2>2. \A q \in Actors \ {p} : act'[q].pc = act[q].pc
    BY <1>0, <1>1 DEF DialFails, Dial, Goto
  <2>3. CASE DialFails(p)
    BY <1>0, <2>1, <2>2, <2>3, TokenMoves DEF DialFails, Goto
  <2>4. CASE Dial(p)
    <3>1. act'[p].pc = "up" /\ spawned' = spawned
      BY <1>0, <2>4 DEF Dial
    <3>2. QED BY <2>1, <2>2, <3>1, TokenMoves
  <2>5. QED BY <1>1, <2>3, <2>4
<1>2. ASSUME NEW p \in Actors, Send(p) PROVE OneToken'
  <2>1. /\ act[p].pc = "send" /\ act'[p].pc = act[p].next /\ spawned' = spawned
        /\ \A q \in Actors \ {p} : act'[q].pc = act[q].pc
    BY <1>0, <1>2 DEF Send
  <2>2. Holds(p)' = Holds(p)
    BY <1>0, <2>1, ClientAssumption DEF Standing, Actors
  <2>3. QED BY <2>1, <2>2, TokenMoves
<1>3. ASSUME NEW p \in Callers, Call(p) \/ Proceed(p) PROVE OneToken'
  <2>1. p \in Actors /\ p \in {App} \cup Sessions
    BY ClientAssumption DEF Actors
  <2>2. /\ spawned' = spawned
        /\ \A q \in Actors \ {p} : act'[q].pc = act[q].pc
        /\ act[p].pc \notin {"over", "check", "dial", "up"}
        /\ act'[p].pc \notin {"over", "check", "dial", "up"}
    <3>1. Rest(p) \in {"idle", "callback"}
      BY DEF Rest
    <3>2. CASE Call(p)
      BY <1>0, <2>1, <3>1, <3>2
         DEF Call, Subscribe, Unsubscribe, Publish, Close, Sending, Goto, Actor, Message
    <3>3. CASE SubscribeAdd(p) \/ UnsubscribeTell(p)
      BY <1>0, <2>1, <3>1, <3>3 DEF SubscribeAdd, UnsubscribeTell, Sending, Actor, Message
    <3>4. CASE CloseDone(p) \/ CloseConn(p)
      BY <1>0, <2>1, <3>4 DEF CloseDone, CloseConn, Goto, Actor
    <3>5. QED BY <1>3, <3>2, <3>3, <3>4 DEF Proceed
  <2>3. QED BY <2>1, <2>2, TokenMoves
<1>4. ASSUME NEW n \in Sessions, Handler(n) \/ Read(n) \/ CallbackReturns(n) PROVE OneToken'
  <2>1. n \in Actors
    BY DEF Actors
  <2>2. \A q \in Actors \ {n} : act'[q].pc = act[q].pc
    BY <1>0, <1>4 DEF Handler, HandlerLoop, HandlerConn, ReadError, Read, CallbackReturns, Goto
  <2>3. act[n].pc # "over"
    BY <1>4 DEF Handler, HandlerLoop, HandlerConn, ReadError, Read, CallbackReturns
  <2>4. \/ spawned' = spawned
        \/ act'[n].pc = "over" /\ spawned' = spawned + 1
    BY <1>0, <1>4, <2>1 DEF Handler, HandlerLoop, HandlerConn, ReadError, Read, CallbackReturns, NoActor
  <2>5. QED BY <2>1, <2>2, <2>3, <2>4, TokenMoves
<1>5. ASSUME NEW r \in Reconnectors, Reconnect(r) PROVE OneToken'
  <2>1. r \in Actors /\ r \notin Sessions
    BY ClientAssumption DEF Actors
  <2>2. \A q \in Actors \ {r} : act'[q].pc = act[q].pc
    BY <1>0, <1>5, <2>1 DEF Reconnect, Enter, Check, Snapshot, Resubscribe, Release, Goto
  <2>3. CASE Enter(r)
    BY <1>0, <2>1, <2>2, <2>3, TokenMoves DEF Enter, Goto
  <2>4. CASE Check(r)
    BY <1>0, <2>1, <2>2, <2>4, TokenMoves DEF Check, Goto
  <2>5. CASE Snapshot(r) \/ Resubscribe(r) \/ Release(r)
    <3>1. /\ spawned' = spawned
          /\ act'[r].pc \notin {"check", "dial", "up"}
      <4>1. CASE Snapshot(r)
        BY <1>0, <2>1, <4>1 DEF Snapshot
      <4>2. CASE Release(r)
        BY <1>0, <2>1, <4>2 DEF Release, NoActor
      <4>3. CASE Resubscribe(r)
        <5>1. CASE act[r].left = {}
          BY <1>0, <2>1, <4>3, <5>1 DEF Resubscribe, Goto, Actor
        <5>2. CASE act[r].left # {}
          <6>1. PICK t \in act[r].left :
                    act' = [act EXCEPT ![r].pc = "send", ![r].next = "resub",
                                       ![r].msg = [action |-> "subscribe", topic |-> t],
                                       ![r].left = @ \ {t}]
            BY <4>3, <5>2 DEF Resubscribe
          <6>2. act'[r].pc = "send"
            BY <1>0, <2>1, <6>1 DEF Actor, Message
          <6>3. QED BY <4>3, <6>2 DEF Resubscribe
        <5>3. QED BY <5>1, <5>2
      <4>4. QED BY <2>5, <4>1, <4>2, <4>3
    <3>2. QED BY <2>1, <2>2, <3>1, TokenMoves
  <2>6. QED BY <1>5, <2>3, <2>4, <2>5 DEF Reconnect
<1>6. CASE Refused
  <2>1. spawned' = spawned - 1 /\ spawned > 0 /\ act' = act
    BY <1>6 DEF Refused
  <2>2. QED BY <2>1 DEF OneToken
<1>7. ASSUME NEW n \in Sessions, SenderStop(n) \/ Sends(n) \/ Break(n) PROVE OneToken'
  BY <1>7 DEF SenderStop, Sends, SenderTake, SenderCheck, SenderConn, Write, WriteError, Break, OneToken
<1>8. CASE UNCHANGED vars
  BY <1>8 DEF vars, OneToken
<1>9. QED
  BY <1>1, <1>2, <1>3, <1>4, <1>5, <1>6, <1>7, <1>8, UpKeepsToken DEF Next, Connect

LEMMA TokenHolds == Spec => []OneToken
<1>1. Init => OneToken
  BY DEF Init, OneToken, Holds, At, NoActor, Actors
<1>2. QED BY <1>1, TypesHold, NextToken, PTL DEF Spec

\* At most one handler runs, whatever connections break and however many
\* goroutines try to reconnect.  The compare-and-swap on reconnecting is not
\* needed for it: a handler that ends hands at most one goroutine on.
THEOREM OneReaderAtATime == Spec => []OneReader
<1>1. OneToken => OneReader
  BY DEF OneToken, OneReader, Holds, Actors
<1>2. QED BY <1>1, TokenHolds, PTL

-----------------------------------------------------------------------------
(* Subscriptions survive.  All of this is under SendersEnd: without it two    *)
(* senders share the queue, and the property is false.                        *)

Sub(t) == [action |-> "subscribe", topic |-> t]

\* Only topics that are left are unsubscribed from.
Allowed(m) == m.action = "unsubscribe" => m.topic \in program.leaves

LeavesOK ==
    /\ \A k \in DOMAIN queue : Allowed(queue[k])
    /\ \A p \in Actors : Allowed(act[p].msg)
    /\ \A n \in Sessions : Allowed(sender[n].msg)

\* The compare-and-swap admits one goroutine to reconnect, after NewClient.
OneReconnects ==
    /\ \A r \in Reconnectors : ~At(r, "over") => reconnecting
    /\ \A r, s \in Reconnectors : ~At(r, "over") /\ ~At(s, "over") => r = s
    /\ act[App].pc \in {"dial", "up"} => \A r \in Reconnectors : At(r, "over")

\* Until Close, what runs belongs to client.Conn, and a client that is
\* connected has a handler and a sender.
Current ==
    /\ At(App, "close.conn") => done
    /\ connected => spawned = 0 /\ \A p \in Actors : act[p].pc \notin {"check", "dial", "up"}
    /\ \A p \in Actors : At(p, "up") => /\ act[p].conn = Conn \/ done
                                       /\ \A n \in Sessions : sender[n].pc = "over"
    /\ ~done => /\ \A n \in Sessions : ~At(n, "over") \/ sender[n].pc # "over" => Conn = n
                /\ \A n \in Sessions : sender[n].pc = "write" => sender[n].conn = n
                /\ connected => Conn # None /\ ~At(Conn, "over") /\ sender[Conn].pc # "over"

\* NewClient has not sent its ping.
Starting == act[App].pc \in {"dial", "up"} \/ (At(App, "send") /\ act[App].msg = Ping)

\* Until then nothing is subscribed to, and no callback runs.
QuietStart ==
    Starting => subscriptions = {} /\ \A n \in Sessions : act[n].pc \in {"over", "loop", "conn", "read"}

\* The client has a connection that works.
Working == connected /\ ~done /\ socket[Conn] = "open"

\* A sender has taken a message that it has not written.
Holds1(n, m) == sender[n].pc \in {"taken", "conn", "write"} /\ sender[n].msg = m

\* The server knows of the client when it comes to the k-th message.
AnnouncedBefore(k) ==
    server[Conn].registered \/ Holds1(Conn, Ping) \/ \E j \in 1..(k - 1) : queue[j] = Ping

\* A reconnecting goroutine is to send its ping.
Announces(r) == At(r, "send") /\ act[r].next = "snapshot" /\ act[r].msg = Ping

PingIsAhead ==
    Working => \/ AnnouncedBefore(Len(queue) + 1)
               \/ At(App, "send") /\ act[App].msg = Ping
               \/ \E r \in Reconnectors : Announces(r)

\* A request is on its way, behind the ping.
Underway(t) ==
    \/ Holds1(Conn, Sub(t)) /\ server[Conn].registered
    \/ \E k \in DOMAIN queue : queue[k] = Sub(t) /\ AnnouncedBefore(k)
    \/ /\ \E p \in Actors : At(p, "send") /\ act[p].msg = Sub(t)
       /\ AnnouncedBefore(Len(queue) + 1)

\* resubscribeAll will ask for the topic.
ToAsk(t) ==
    \E r \in Reconnectors : \/ Announces(r) \/ At(r, "snapshot")
                            \/ act[r].pc \in {"resub", "send"} /\ t \in act[r].left

Promise ==
    Working => \A t \in subscriptions \ program.leaves :
        t \in server[Conn].topics \/ Underway(t) \/ ToAsk(t)

SurvivalInv ==
    LeavesOK /\ OneReconnects /\ Current /\ QuietStart /\ PingIsAhead /\ Promise

\* The steps of an actor but Up leave the others where they are.
LEMMA OthersStay ==
    ASSUME TypeInv, NEW p \in Actors,
           \/ DialFails(p) \/ Dial(p) \/ Send(p) \/ Call(p) \/ Proceed(p)
           \/ Handler(p) \/ Read(p) \/ CallbackReturns(p) \/ Reconnect(p)
    PROVE  \A q \in Actors \ {p} : act'[q] = act[q]
<1>0. act \in [Actors -> Actor]
  BY DEF TypeInv, ActorsOK
<1>1. CASE DialFails(p) \/ Dial(p) \/ Send(p)
  BY <1>0, <1>1 DEF DialFails, Dial, Send, Goto
<1>2. CASE Call(p) \/ Proceed(p)
  BY <1>0, <1>2 DEF Call, Proceed, Subscribe, SubscribeAdd, Unsubscribe, UnsubscribeTell, Publish, Close,
                    CloseDone, CloseConn, Sending, Goto
<1>3. CASE Handler(p) \/ Read(p) \/ CallbackReturns(p)
  BY <1>0, <1>3 DEF Handler, HandlerLoop, HandlerConn, ReadError, Read, CallbackReturns, Goto
<1>4. CASE Reconnect(p)
  BY <1>0, <1>4 DEF Reconnect, Enter, Check, Snapshot, Resubscribe, Release, Goto
<1>5. QED BY <1>1, <1>2, <1>3, <1>4

\* Where a handler goes when it has read a message.
LEMMA ReadFacts ==
    ASSUME TypeInv, NEW n \in Sessions, Read(n)
    PROVE  /\ act'[n].pc \in {"loop", "callback"}
           /\ subscriptions = {} => act'[n].pc = "loop"
           /\ act'[n].msg = act[n].msg
<1>0. act \in [Actors -> Actor] /\ n \in Actors
  BY DEF TypeInv, ActorsOK, Actors
<1>1. PICK label \in {"loop"} \cup {"callback" : t \in subscriptions \cap Asked(n)} :
          act' = [act EXCEPT ![n].pc = label, ![n].conn = None]
  BY DEF Read
<1>2. act'[n].pc = label /\ act'[n].msg = act[n].msg
  BY <1>0, <1>1 DEF Actor
<1>3. QED BY <1>1, <1>2

\* The steps of a sender.
LEMMA SenderFacts ==
    ASSUME TypeInv, NEW n \in Sessions, SenderStop(n) \/ Sends(n)
    PROVE  /\ \A m \in Sessions \ {n} : sender'[m] = sender[m]
           /\ sender'[n].pc = "write" => SenderConn(n) /\ sender'[n].conn = Conn
           /\ sender'[n].pc = "over" => SenderStop(n) \/ WriteError(n)
           /\ SenderTake(n) => sender'[n].pc = "taken" /\ sender'[n].msg = Head(queue)
           /\ SenderCheck(n) /\ connected =>
                  sender'[n].pc = "conn" /\ sender'[n].msg = sender[n].msg
           /\ SenderConn(n) /\ Conn # None =>
                  sender'[n].pc = "write" /\ sender'[n].msg = sender[n].msg
<1>0. sender \in [Sessions -> Sender]
  BY DEF TypeInv, SendersOK
<1>1. Waiting.pc = "select" /\ NoSender.pc = "over"
  BY DEF Waiting, NoSender
<1>2. CASE SenderStop(n)
  BY <1>0, <1>1, <1>2 DEF SenderStop, SenderTake, SenderCheck, SenderConn
<1>3. CASE SenderTake(n)
  BY <1>0, <1>3 DEF SenderTake, SenderCheck, SenderConn, Sender, Message
<1>4. CASE SenderCheck(n)
  <2>1. IF connected THEN sender' = [sender EXCEPT ![n] = [sender[n] EXCEPT !.pc = "conn"]]
                     ELSE sender' = [sender EXCEPT ![n] = Waiting]
    BY <1>0, <1>4 DEF SenderCheck
  <2>2. QED BY <1>0, <1>1, <1>4, <2>1 DEF SenderTake, SenderCheck, SenderConn, Sender
<1>5. CASE SenderConn(n)
  <2>1. IF Conn = None THEN sender' = [sender EXCEPT ![n] = Waiting]
        ELSE sender' = [sender EXCEPT ![n] = [sender[n] EXCEPT !.pc = "write", !.conn = Conn]]
    BY <1>0, <1>5 DEF SenderConn
  <2>2. QED BY <1>0, <1>1, <1>5, <2>1 DEF SenderTake, SenderCheck, SenderConn, Sender
<1>6. CASE Write(n) \/ WriteError(n)
  BY <1>0, <1>1, <1>6 DEF Write, WriteError, SenderTake, SenderCheck, SenderConn
<1>7. QED BY <1>2, <1>3, <1>4, <1>5, <1>6 DEF Sends

\* What Up does to the actors and senders.
LEMMA UpFacts ==
    ASSUME TypeInv, OneToken, NEW p \in Actors, Up(p)
    PROVE  /\ act[p].pc = "up" /\ p \notin Sessions /\ act[p].conn \in Sessions
           /\ act'[act[p].conn].pc = "loop" /\ act'[act[p].conn].msg = Ping
           /\ act'[p].pc = "send" /\ act'[p].msg = Ping
           /\ act'[p].next = IF p = App THEN "idle" ELSE "snapshot"
           /\ \A q \in Actors \ {p, act[p].conn} : act'[q] = act[q] /\ ~Holds(q)
           /\ ~Holds(act[p].conn)
           /\ sender'[act[p].conn] = Waiting
           /\ \A n \in Sessions \ {act[p].conn} : sender'[n] = sender[n]
           /\ connected' = TRUE
           /\ UNCHANGED <<program, reconnecting, Conn, done, spawned, subscriptions, queue, socket,
                          server>>
<1>1. act[p].pc = "up" /\ act[p].conn \in Sessions /\ p \notin Sessions /\ act \in [Actors -> Actor]
  BY ClientAssumption DEF Up, At, TypeInv, ActorsOK, Standing, Actors
<1>2. act[p].conn \in Actors /\ sender \in [Sessions -> Sender]
  BY <1>1 DEF Actors, TypeInv, SendersOK
<1>3. Holds(p)
  BY <1>1 DEF Holds
<1>4. \A q \in Actors \ {p} : ~Holds(q)
  BY <1>3 DEF OneToken
<1>5. /\ act'[act[p].conn].pc = "loop" /\ act'[act[p].conn].msg = Ping
      /\ act'[p].pc = "send" /\ act'[p].msg = Ping
      /\ act'[p].next = IF p = App THEN "idle" ELSE "snapshot"
  BY <1>1, <1>2 DEF Up, NoActor
<1>6. \A q \in Actors \ {p, act[p].conn} : act'[q] = act[q]
  BY <1>1, <1>2 DEF Up
<1>7. QED BY <1>1, <1>2, <1>4, <1>5, <1>6 DEF Up, Waiting

\* Messages to the server: those of the queue, of actors and of senders.
LEMMA LeavesStep == TypeInv /\ OneToken /\ LeavesOK /\ [Next]_vars => LeavesOK'
<1> SUFFICES ASSUME TypeInv, OneToken, LeavesOK, [Next]_vars PROVE LeavesOK'
  OBVIOUS
<1> USE DEF LeavesOK
<1>0. /\ act \in [Actors -> Actor] /\ sender \in [Sessions -> Sender] /\ queue \in Seq(Requests)
      /\ program' = program
  <2>1. program' = program
    BY DEF Next, vars, Connect, DialFails, Dial, Up, Send, Call, Proceed, Subscribe, SubscribeAdd,
           Unsubscribe, UnsubscribeTell, Publish, Close, CloseDone, CloseConn, Handler, HandlerLoop,
           HandlerConn, ReadError, Read, CallbackReturns, Reconnect, Enter, Check, Snapshot,
           Resubscribe, Release, Refused, SenderStop, Sends, SenderTake, SenderCheck, SenderConn,
           Write, WriteError, Break
  <2>2. QED BY <2>1 DEF TypeInv, ActorsOK, SendersOK, QueueOK
<1>1. \A m : Allowed(m)' = Allowed(m)
  BY <1>0 DEF Allowed
<1>2. Allowed(Ping) /\ Allowed(NoActor.msg) /\ Allowed(NoSender.msg) /\ Allowed(Waiting.msg)
  BY DEF Allowed, Ping, NoActor, NoSender, Waiting
<1>3. ASSUME NEW p \in Actors, Allowed(act'[p].msg), \A q \in Actors \ {p} : act'[q] = act[q],
             UNCHANGED <<queue, sender>>
      PROVE  LeavesOK'
  BY <1>1, <1>3
<1>4. ASSUME NEW p \in Actors, DialFails(p) \/ Dial(p) PROVE LeavesOK'
  <2>1. act'[p].msg = act[p].msg /\ UNCHANGED <<queue, sender>>
    BY <1>0, <1>4 DEF DialFails, Dial, Goto, Actor, Message
  <2>2. QED BY <1>3, <1>4, <2>1, OthersStay
<1>5. ASSUME NEW p \in Actors, Up(p) PROVE LeavesOK'
  <2>1. \A q \in Actors : Allowed(act'[q].msg)
    <3>1. act'[act[p].conn].msg = Ping /\ act'[p].msg = Ping
      BY <1>5, UpFacts, Zenon
    <3>2. \A q \in Actors \ {p, act[p].conn} : act'[q] = act[q]
      BY <1>5, UpFacts, Zenon
    <3>3. QED BY <1>2, <3>1, <3>2
  <2>2. \A n \in Sessions : Allowed(sender'[n].msg)
    BY <1>2, <1>5, UpFacts
  <2>3. queue' = queue
    BY <1>5, UpFacts
  <2>4. QED BY <1>1, <2>1, <2>2, <2>3
<1>6. ASSUME NEW p \in Actors, Send(p) PROVE LeavesOK'
  <2>1. act'[p].msg = Ping /\ sender' = sender
    BY <1>0, <1>6 DEF Send, Actor, Message
  <2>2. queue' = queue \/ queue' = Append(queue, act[p].msg)
    BY <1>6 DEF Send
  <2>3. \A k \in DOMAIN queue' : Allowed(queue'[k])
    BY <1>0, <2>2
  <2>4. QED BY <1>1, <1>2, <1>6, <2>1, <2>3, OthersStay
<1>7. ASSUME NEW p \in Callers, Call(p) \/ Proceed(p) PROVE LeavesOK'
  <2>1. p \in Actors
    BY ClientAssumption DEF Actors
  <2>2. UNCHANGED <<queue, sender>>
    BY <1>7 DEF Call, Proceed, Subscribe, SubscribeAdd, Unsubscribe, UnsubscribeTell, Publish, Close,
                CloseDone, CloseConn
  <2>3. Allowed(act'[p].msg)
    <3>1. CASE Publish(p) \/ (\E t \in program.topics : Subscribe(p, t))
      BY <1>0, <2>1, <3>1 DEF Publish, Subscribe, Sending, Allowed, Actor, Message
    <3>2. ASSUME NEW t \in program.leaves, Unsubscribe(p, t) PROVE Allowed(act'[p].msg)
      BY <1>0, <2>1, <3>2 DEF Unsubscribe, Allowed, Actor, Message
    <3>3. CASE SubscribeAdd(p) \/ UnsubscribeTell(p)
      BY <1>0, <1>2, <2>1, <3>3 DEF SubscribeAdd, UnsubscribeTell, Sending, Actor, Message
    <3>4. CASE Close(p) \/ CloseDone(p) \/ CloseConn(p)
      BY <1>0, <2>1, <3>4 DEF Close, CloseDone, CloseConn, Goto, Actor, Message
    <3>5. QED BY <1>7, <3>1, <3>2, <3>3, <3>4 DEF Call, Proceed
  <2>4. QED BY <1>3, <1>7, <2>1, <2>2, <2>3, OthersStay
<1>8. ASSUME NEW n \in Sessions, Handler(n) \/ Read(n) \/ CallbackReturns(n) PROVE LeavesOK'
  <2>1. n \in Actors
    BY DEF Actors
  <2>2. act'[n].msg = act[n].msg \/ act'[n] = NoActor
    BY <1>0, <1>8, <2>1 DEF Handler, HandlerLoop, HandlerConn, ReadError, Read, CallbackReturns, Goto,
                            Actor, Message
  <2>3. UNCHANGED <<queue, sender>>
    BY <1>8 DEF Handler, HandlerLoop, HandlerConn, ReadError, Read, CallbackReturns
  <2>4. QED BY <1>2, <1>3, <1>8, <2>1, <2>2, <2>3, OthersStay
<1>9. ASSUME NEW r \in Reconnectors, Reconnect(r) PROVE LeavesOK'
  <2>1. r \in Actors
    BY DEF Actors
  <2>2. UNCHANGED <<queue, sender>>
    BY <1>9 DEF Reconnect, Enter, Check, Snapshot, Resubscribe, Release
  <2>3. CASE Resubscribe(r) /\ act[r].left # {}
    <3>1. PICK t \in act[r].left :
              act' = [act EXCEPT ![r].pc = "send", ![r].next = "resub",
                                 ![r].msg = [action |-> "subscribe", topic |-> t],
                                 ![r].left = @ \ {t}]
      BY <2>3 DEF Resubscribe
    <3>2. act'[r].msg = [action |-> "subscribe", topic |-> t]
      BY <1>0, <2>1, <3>1 DEF Actor, Message
    <3>3. Allowed(act'[r].msg)
      BY <3>2 DEF Allowed
    <3>4. QED BY <1>3, <1>9, <2>1, <2>2, <3>3, OthersStay
  <2>4. CASE ~(Resubscribe(r) /\ act[r].left # {})
    <3>1. act'[r].msg = act[r].msg \/ act'[r] = NoActor
      BY <1>0, <1>9, <2>1, <2>4
         DEF Reconnect, Enter, Check, Snapshot, Resubscribe, Release, Goto, Actor, Message
    <3>2. QED BY <1>2, <1>3, <1>9, <2>1, <2>2, <3>1, OthersStay
  <2>5. QED BY <2>3, <2>4
<1>10. ASSUME NEW n \in Sessions, SenderStop(n) \/ Sends(n) PROVE LeavesOK'
  <2>1. act' = act
    BY <1>10 DEF SenderStop, Sends, SenderTake, SenderCheck, SenderConn, Write, WriteError
  <2>2. CASE SenderTake(n)
    <3>1. queue # <<>> /\ queue' = Tail(queue) /\ sender'[n].msg = Head(queue)
          /\ \A m \in Sessions \ {n} : sender'[m] = sender[m]
      BY <1>0, <2>2 DEF SenderTake, Sender, Message
    <3>2. Allowed(Head(queue)) /\ \A k \in DOMAIN Tail(queue) : Allowed(Tail(queue)[k])
      BY <1>0, <3>1
    <3>3. QED BY <1>1, <2>1, <3>1, <3>2
  <2>3. CASE ~SenderTake(n)
    <3>1. queue' = queue
      BY <1>10, <2>3 DEF SenderStop, Sends, SenderCheck, SenderConn, Write, WriteError
    <3>2. sender'[n].msg = sender[n].msg \/ sender'[n] = NoSender \/ sender'[n] = Waiting
      BY <1>0, <1>10, <2>3 DEF SenderStop, Sends, SenderCheck, SenderConn, Write, WriteError, Sender, Message
    <3>3. \A m \in Sessions \ {n} : sender'[m] = sender[m]
      BY <1>0, <1>10, <2>3 DEF SenderStop, Sends, SenderCheck, SenderConn, Write, WriteError
    <3>4. QED BY <1>1, <1>2, <2>1, <3>1, <3>2, <3>3
  <2>4. QED BY <2>2, <2>3
<1>11. CASE Refused \/ (\E n \in Sessions : Break(n)) \/ UNCHANGED vars
  BY <1>1, <1>11 DEF Refused, Break, vars
<1>12. QED
  BY <1>4, <1>5, <1>6, <1>7, <1>8, <1>9, <1>10, <1>11 DEF Next, Connect

\* One goroutine reconnects.
LEMMA OneReconnectsStep ==
    TypeInv /\ OneToken /\ OneReconnects /\ [Next]_vars => OneReconnects'
<1> SUFFICES ASSUME TypeInv, OneToken, OneReconnects, [Next]_vars PROVE OneReconnects'
  OBVIOUS
<1> USE DEF At
<1>0. /\ act \in [Actors -> Actor] /\ App \in Actors /\ App \notin Sessions \cup Reconnectors
      /\ Reconnectors \subseteq Actors /\ Sessions \subseteq Actors
      /\ Sessions \cap Reconnectors = {}
      /\ \A p \in Actors : Standing(p, act[p])
  BY ClientAssumption DEF TypeInv, ActorsOK, Actors
<1>1. ASSUME \A r \in Reconnectors : act'[r].pc = "over" <=> act[r].pc = "over",
             reconnecting' = reconnecting,
             act'[App].pc \in {"dial", "up"} => act[App].pc \in {"dial", "up"}
      PROVE  OneReconnects'
  BY <1>1 DEF OneReconnects
<1>2. ASSUME NEW p \in Actors, DialFails(p) \/ Dial(p) \/ Send(p) PROVE OneReconnects'
  <2>1. reconnecting' = reconnecting
    BY <1>2 DEF DialFails, Dial, Send
  <2>2. /\ act[p].pc # "over" /\ act'[p].pc # "over"
        /\ act'[p].pc \in {"dial", "up"} => act[p].pc \in {"dial", "up"}
    <3>1. CASE DialFails(p) \/ Dial(p)
      BY <1>0, <3>1 DEF DialFails, Dial, Goto, Actor
    <3>2. CASE Send(p)
      <4>1. act[p].pc = "send" /\ act'[p].pc = act[p].next
        BY <1>0, <3>2 DEF Send, Actor, Message
      <4>2. QED BY <1>0, <4>1 DEF Standing, Actors
    <3>3. QED BY <1>2, <3>1, <3>2
  <2>3. QED BY <1>0, <1>1, <1>2, <2>1, <2>2, OthersStay
<1>3. ASSUME NEW p \in Actors, Up(p) PROVE OneReconnects'
  <2>1. /\ act[p].pc = "up" /\ act[p].conn \in Sessions
        /\ act'[p].pc = "send" /\ reconnecting' = reconnecting
        /\ \A q \in Actors \ {p, act[p].conn} : act'[q] = act[q]
    BY <1>3, UpFacts, Zenon
  <2>2. act[p].conn \notin Reconnectors /\ act[p].conn # App
    BY <1>0, <2>1
  <2>3. QED BY <1>0, <1>1, <2>1, <2>2
<1>4. ASSUME NEW p \in Callers, Call(p) \/ Proceed(p) PROVE OneReconnects'
  <2>1. p \in Actors /\ p \in {App} \cup Sessions
    BY ClientAssumption DEF Actors
  <2>2. reconnecting' = reconnecting
    BY <1>4 DEF Call, Proceed, Subscribe, SubscribeAdd, Unsubscribe, UnsubscribeTell, Publish, Close,
                CloseDone, CloseConn
  <2>3. act'[p].pc \notin {"dial", "up"}
    BY <1>0, <1>4, <2>1
       DEF Call, Proceed, Subscribe, SubscribeAdd, Unsubscribe, UnsubscribeTell, Publish, Close,
           CloseDone, CloseConn, Sending, Goto, Actor, Message, Rest
  <2>4. QED BY <1>0, <1>1, <1>4, <2>1, <2>2, <2>3, OthersStay
<1>5. ASSUME NEW n \in Sessions, Handler(n) \/ Read(n) \/ CallbackReturns(n) PROVE OneReconnects'
  <2>1. reconnecting' = reconnecting
    BY <1>5 DEF Handler, HandlerLoop, HandlerConn, ReadError, Read, CallbackReturns
  <2>2. QED BY <1>0, <1>1, <1>5, <2>1, OthersStay
<1>6. ASSUME NEW r \in Reconnectors, Reconnect(r) PROVE OneReconnects'
  <2>1. \A q \in Actors \ {r} : act'[q] = act[q]
    BY <1>0, <1>6, OthersStay
  <2>2. CASE Enter(r)
    <3>1. /\ ~reconnecting /\ reconnecting' /\ spawned > 0 /\ \A s \in Reconnectors : act[s].pc = "over"
      BY <2>2 DEF Enter, Admitted, OneReconnects
    <3>2. ~Holds(App)
      BY <1>0, <3>1 DEF OneToken
    <3>3. QED BY <1>0, <2>1, <3>1, <3>2 DEF OneReconnects, Holds
  <2>3. CASE Release(r)
    <3>1. act[r].pc = "release" /\ act'[r].pc = "over"
      BY <1>0, <2>3 DEF Release, NoActor
    <3>2. QED BY <1>0, <2>1, <3>1 DEF OneReconnects
  <2>4. CASE Check(r) \/ Snapshot(r) \/ Resubscribe(r)
    <3>1. reconnecting' = reconnecting /\ act[r].pc # "over"
      BY <2>4 DEF Check, Snapshot, Resubscribe
    <3>2. act'[r].pc # "over"
      <4>1. CASE Check(r) \/ Snapshot(r)
        BY <1>0, <4>1 DEF Check, Snapshot, Goto, Actor
      <4>2. CASE Resubscribe(r)
        <5>1. CASE act[r].left = {}
          BY <1>0, <4>2, <5>1 DEF Resubscribe, Goto, Actor
        <5>2. CASE act[r].left # {}
          <6>1. PICK t \in act[r].left :
                    act' = [act EXCEPT ![r].pc = "send", ![r].next = "resub",
                                       ![r].msg = [action |-> "subscribe", topic |-> t],
                                       ![r].left = @ \ {t}]
            BY <4>2, <5>2 DEF Resubscribe
          <6>2. QED BY <1>0, <6>1 DEF Actor, Message
        <5>3. QED BY <5>1, <5>2
      <4>3. QED BY <2>4, <4>1, <4>2
    <3>3. QED BY <1>0, <1>1, <2>1, <3>1, <3>2
  <2>5. QED BY <1>6, <2>2, <2>3, <2>4 DEF Reconnect
<1>7. ASSUME act' = act, reconnecting' = reconnecting PROVE OneReconnects'
  BY <1>1, <1>7
<1>8. ASSUME NEW n \in Sessions, SenderStop(n) \/ Sends(n) \/ Break(n) PROVE OneReconnects'
  BY <1>7, <1>8 DEF SenderStop, Sends, SenderTake, SenderCheck, SenderConn, Write, WriteError, Break
<1>9. CASE Refused \/ UNCHANGED vars
  BY <1>7, <1>9 DEF Refused, vars
<1>10. QED
  BY <1>2, <1>3, <1>4, <1>5, <1>6, <1>8, <1>9 DEF Next, Connect

\* The handler and the sender that run are those of client.Conn.
LEMMA CurrentStep ==
    TypeInv /\ OneToken /\ OneReconnects /\ Current /\ SendersEnd /\ [Next]_vars => Current'
<1> SUFFICES ASSUME TypeInv, OneToken, OneReconnects, Current, SendersEnd, [Next]_vars PROVE Current'
  OBVIOUS
<1> USE DEF At
<1>0. /\ act \in [Actors -> Actor] /\ sender \in [Sessions -> Sender]
      /\ App \in Actors /\ App \notin Sessions \cup Reconnectors
      /\ Reconnectors \subseteq Actors /\ Sessions \subseteq Actors
      /\ Sessions \cap Reconnectors = {} /\ None \notin Sessions
      /\ Conn \in Sessions \cup {None} /\ spawned \in Nat
      /\ \A p \in Actors : Standing(p, act[p])
  BY ClientAssumption DEF TypeInv, ActorsOK, SendersOK, FlagsOK, Actors
<1>1. ASSUME NEW p \in Actors, \A q \in Actors \ {p} : act'[q] = act[q],
             act'[p].pc # "close.conn" \/ done', act'[p].pc # "up",
             (connected' /\ act'[p].pc \in {"check", "dial"}) => FALSE,
             connected' => connected, connected' => spawned' = spawned,
             p \in Sessions => act[p].pc # "over",
             p \in Sessions /\ connected' /\ ~done' => act'[p].pc # "over",
             UNCHANGED <<Conn, sender>>, done => done'
      PROVE  Current'
  BY <1>0, <1>1 DEF Current
<1>2. ASSUME NEW p \in Actors, DialFails(p) PROVE Current'
  <2>1. act[p].pc = "dial" /\ act'[p].pc \in {"check", "idle", "gone"} /\ p \notin Sessions
    BY <1>0, <1>2 DEF DialFails, Goto, Actor, Standing, Actors
  <2>2. UNCHANGED <<connected, Conn, sender, done>>
    BY <1>2 DEF DialFails
  <2>3. ~connected
    BY <2>1 DEF Current
  <2>4. QED BY <1>1, <1>2, <2>1, <2>2, <2>3, OthersStay
<1>3. ASSUME NEW p \in Actors, Dial(p) PROVE Current'
  <2>1. PICK n \in Sessions : /\ Conn' = n
                              /\ act' = [act EXCEPT ![p].pc = "up", ![p].conn = n]
    BY <1>3 DEF Dial
  <2>2. /\ act[p].pc = "dial" /\ p \notin Sessions /\ \A m \in Sessions : sender[m].pc = "over"
        /\ UNCHANGED <<connected, done, sender>>
    BY <1>0, <1>3 DEF Dial, Standing, Actors
  <2>3. act'[p].pc = "up" /\ act'[p].conn = n /\ \A q \in Actors \ {p} : act'[q] = act[q]
    BY <1>0, <2>1 DEF Actor
  <2>4. ~connected
    BY <2>2 DEF Current
  <2>5. \A q \in Actors \ {p} : ~Holds(q)
    BY <2>2 DEF OneToken, Holds
  <2>6. /\ \A m \in Sessions : act'[m].pc = "over"
        /\ \A q \in Actors \ {p} : act'[q].pc \notin {"check", "dial", "up"}
    <3>1. \A m \in Sessions : m # p
      BY <2>2
    <3>2. \A q \in Actors : act[q].pc \in {"check", "dial", "up"} => Holds(q)
      BY <1>0 DEF Holds, Standing
    <3>3. QED BY <1>0, <2>3, <2>5, <3>1, <3>2 DEF Holds
  <2>7. act'[App].pc = "close.conn" => done
    BY <1>0, <2>3 DEF Current
  <2>8. QED BY <2>1, <2>2, <2>3, <2>4, <2>6, <2>7 DEF Current
<1>4. ASSUME NEW p \in Actors, Up(p) PROVE Current'
  <2> DEFINE n == act[p].conn
  <2>1. /\ act[p].pc = "up" /\ p \notin Sessions /\ n \in Sessions
        /\ act'[n].pc = "loop" /\ act'[p].pc = "send"
        /\ \A q \in Actors \ {p, n} : act'[q] = act[q] /\ ~Holds(q)
        /\ UNCHANGED <<Conn, done, spawned>>
    BY <1>4, UpFacts, Zenon
  <2>2. sender'[n] = Waiting /\ \A m \in Sessions \ {n} : sender'[m] = sender[m]
    BY <1>4, UpFacts, Zenon
  <2>3. Holds(p)
    BY <2>1 DEF Holds
  <2>4. spawned' = 0
    BY <2>1, <2>3 DEF OneToken
  <2>5. (n = Conn \/ done) /\ \A m \in Sessions : sender[m].pc = "over"
    BY <2>1 DEF Current
  <2>6. \A q \in Actors : act'[q].pc \notin {"check", "dial", "up"}
    BY <1>0, <2>1 DEF Holds, Standing
  <2>7. \A m \in Sessions \ {n} : act'[m].pc = "over"
    BY <1>0, <2>1 DEF Holds
  <2>8. Waiting.pc = "select"
    BY DEF Waiting, NoSender
  <2>9. \A m \in Sessions : sender'[m].pc \in {"select", "over"} /\ (sender'[m].pc # "over" => m = n)
    BY <2>2, <2>5, <2>8
  <2>10. act'[App].pc = "close.conn" => done'
    BY <1>0, <2>1 DEF Current
  <2>11. QED BY <1>0, <2>1, <2>2, <2>4, <2>5, <2>6, <2>7, <2>8, <2>9, <2>10 DEF Current
<1>5. ASSUME NEW p \in Actors, Send(p) PROVE Current'
  <2>1. act[p].pc = "send" /\ act'[p].pc = act[p].next
    BY <1>0, <1>5 DEF Send, Actor, Message
  <2>2. act'[p].pc \in {"idle", "callback", "snapshot", "resub"}
    BY <1>0, <2>1 DEF Standing, Actors
  <2>3. UNCHANGED <<connected, Conn, sender, done, spawned>>
    BY <1>5 DEF Send
  <2>4. QED BY <1>1, <1>5, <2>1, <2>2, <2>3, OthersStay
<1>6. ASSUME NEW p \in Callers, Call(p) \/ Proceed(p) PROVE Current'
  <2>1. p \in Actors /\ p \in {App} \cup Sessions /\ Rest(p) \in {"idle", "callback"}
    BY ClientAssumption DEF Actors, Rest
  <2>2. \A q \in Actors \ {p} : act'[q] = act[q]
    BY <1>6, <2>1, OthersStay
  <2>3. CASE Close(p)
    <3>1. act'[p].pc = "close" /\ p = App /\ ~connected'
      BY <1>0, <2>1, <2>3 DEF Close, Goto, Actor
    <3>2. QED BY <1>0, <1>1, <2>1, <2>2, <2>3, <3>1 DEF Close
  <2>4. CASE CloseDone(p)
    <3>1. act[p].pc = "close" /\ act'[p].pc = "close.conn" /\ done'
      BY <1>0, <2>1, <2>4 DEF CloseDone, Goto, Actor
    <3>2. QED BY <1>0, <1>1, <2>1, <2>2, <2>4, <3>1 DEF CloseDone
  <2>5. CASE CloseConn(p)
    <3>1. act[p].pc = "close.conn" /\ act'[p].pc = "idle" /\ UNCHANGED <<connected, done, spawned, sender>>
      BY <1>0, <2>1, <2>5 DEF CloseConn, Goto, Actor
    <3>2. p = App
      BY <1>0, <2>1, <3>1 DEF Standing
    <3>3. done
      BY <3>1, <3>2 DEF Current
    <3>4. QED BY <1>0, <2>2, <3>1, <3>2, <3>3 DEF Current
  <2>6. CASE ~(Close(p) \/ CloseDone(p) \/ CloseConn(p))
    <3>1. act[p].pc # "over" /\ act'[p].pc \in {"add", "tell", "send", "idle", "callback"}
      BY <1>0, <1>6, <2>1, <2>6
         DEF Call, Proceed, Subscribe, SubscribeAdd, Unsubscribe, UnsubscribeTell, Publish,
             Sending, Actor, Message
    <3>2. UNCHANGED <<connected, Conn, sender, done, spawned>>
      BY <1>6, <2>6 DEF Call, Proceed, Subscribe, SubscribeAdd, Unsubscribe, UnsubscribeTell, Publish
    <3>3. QED BY <1>1, <2>1, <2>2, <3>1, <3>2
  <2>7. QED BY <2>3, <2>4, <2>5, <2>6
<1>7. ASSUME NEW n \in Sessions, Handler(n) \/ Read(n) \/ CallbackReturns(n) PROVE Current'
  <2>1. \A q \in Actors \ {n} : act'[q] = act[q]
    BY <1>0, <1>7, OthersStay
  <2>2. act[n].pc # "over" /\ UNCHANGED <<Conn, sender, done>>
    BY <1>7 DEF Handler, HandlerLoop, HandlerConn, ReadError, Read, CallbackReturns
  <2>3. CASE ReadError(n)
    <3>1. act'[n].pc = "over" /\ ~connected'
      BY <1>0, <2>3 DEF ReadError, NoActor
    <3>2. QED BY <1>0, <1>1, <2>1, <2>2, <3>1
  <2>4. CASE ~ReadError(n)
    <3>1. UNCHANGED <<connected, spawned>>
      BY <1>7, <2>4 DEF Handler, HandlerLoop, HandlerConn, Read, CallbackReturns
    <3>2. act'[n].pc \in {"over", "conn", "read", "loop", "callback"}
      <4>1. CASE HandlerLoop(n) \/ HandlerConn(n) \/ CallbackReturns(n)
        BY <1>0, <4>1 DEF HandlerLoop, HandlerConn, CallbackReturns, Goto, Actor
      <4>2. CASE Read(n)
        BY <1>0, <4>2, ReadFacts
      <4>3. QED BY <1>7, <2>4, <4>1, <4>2 DEF Handler
    <3>3. act'[n].pc = "over" => ~connected \/ done
      <4>1. CASE HandlerLoop(n)
        BY <1>0, <4>1 DEF HandlerLoop, Goto, Actor
      <4>2. CASE HandlerConn(n)
        <5>1. done \/ Conn = n
          BY <2>2 DEF Current
        <5>2. QED BY <1>0, <4>2, <5>1 DEF HandlerConn, Actor
      <4>3. CASE CallbackReturns(n)
        BY <1>0, <4>3 DEF CallbackReturns, Goto, Actor
      <4>4. CASE Read(n)
        BY <1>0, <4>4, ReadFacts
      <4>5. QED BY <1>7, <2>4, <4>1, <4>2, <4>3, <4>4 DEF Handler
    <3>4. QED BY <1>0, <1>1, <2>1, <2>2, <3>1, <3>2, <3>3
  <2>5. QED BY <2>3, <2>4
<1>8. ASSUME NEW r \in Reconnectors, Reconnect(r) PROVE Current'
  <2>1. \A q \in Actors \ {r} : act'[q] = act[q]
    BY <1>0, <1>8, OthersStay
  <2>2. UNCHANGED <<connected, Conn, sender, done>>
    BY <1>8 DEF Reconnect, Enter, Check, Snapshot, Resubscribe, Release
  <2>3. CASE Enter(r)
    <3>1. act'[r].pc = "check" /\ spawned > 0
      BY <1>0, <2>3 DEF Enter, Goto, Actor
    <3>2. ~connected
      BY <3>1 DEF Current
    <3>3. QED BY <1>0, <1>1, <2>1, <2>2, <3>1, <3>2
  <2>4. CASE Check(r)
    <3>1. act[r].pc = "check" /\ act'[r].pc \in {"release", "dial"}
      BY <1>0, <2>4 DEF Check, Goto, Actor
    <3>2. ~connected
      BY <1>0, <3>1 DEF Current
    <3>3. QED BY <1>0, <1>1, <2>1, <2>2, <3>1, <3>2
  <2>5. CASE Snapshot(r) \/ Release(r)
    <3>1. act'[r].pc \in {"resub", "over"} /\ spawned' = spawned
      BY <1>0, <2>5 DEF Snapshot, Release, NoActor, Actor
    <3>2. QED BY <1>0, <1>1, <2>1, <2>2, <3>1
  <2>6. CASE Resubscribe(r)
    <3>1. spawned' = spawned
      BY <2>6 DEF Resubscribe
    <3>2. act'[r].pc \in {"release", "send"}
      <4>1. CASE act[r].left = {}
        BY <1>0, <2>6, <4>1 DEF Resubscribe, Goto, Actor
      <4>2. CASE act[r].left # {}
        <5>1. PICK t \in act[r].left :
                  act' = [act EXCEPT ![r].pc = "send", ![r].next = "resub",
                                     ![r].msg = [action |-> "subscribe", topic |-> t],
                                     ![r].left = @ \ {t}]
          BY <2>6, <4>2 DEF Resubscribe
        <5>2. QED BY <1>0, <5>1 DEF Actor, Message
      <4>3. QED BY <4>1, <4>2
    <3>3. QED BY <1>0, <1>1, <2>1, <2>2, <3>1, <3>2
  <2>7. QED BY <1>8, <2>3, <2>4, <2>5, <2>6 DEF Reconnect
<1>9. ASSUME NEW n \in Sessions, SenderStop(n) \/ Sends(n) PROVE Current'
  <2>1. UNCHANGED <<act, Conn, done, spawned>>
    BY <1>9 DEF SenderStop, Sends, SenderTake, SenderCheck, SenderConn, Write, WriteError
  <2>2. /\ sender[n].pc # "over" /\ \A m \in Sessions \ {n} : sender'[m] = sender[m]
    BY <1>0, <1>9 DEF SenderStop, Sends, SenderTake, SenderCheck, SenderConn, Write, WriteError
  <2>3. /\ connected' => connected
        /\ ~done => Conn = n
        /\ \A p \in Actors : act[p].pc # "up"
    <3>1. connected' => connected
      BY <1>9 DEF SenderStop, Sends, SenderTake, SenderCheck, SenderConn, Write, WriteError
    <3>2. QED BY <2>2, <3>1 DEF Current
  <2>4. sender'[n].pc = "write" => sender'[n].conn = Conn
    BY <1>9, SenderFacts
  <2>5. sender'[n].pc = "over" => ~connected' \/ done \/ act[n].pc = "over"
    <3>1. CASE SenderStop(n) \/ WriteError(n)
      BY <3>1 DEF SenderStop, WriteError
    <3>2. QED BY <1>9, <3>1, SenderFacts
  <2>6. QED BY <2>1, <2>2, <2>3, <2>4, <2>5 DEF Current
<1>10. ASSUME NEW n \in Sessions, Break(n) PROVE Current'
  BY <1>10 DEF Break, Current
<1>11. CASE Refused
  <2>1. spawned > 0 /\ UNCHANGED <<connected, act, Conn, done, sender>>
    BY <1>11 DEF Refused
  <2>2. QED BY <2>1 DEF Current
<1>12. CASE UNCHANGED vars
  BY <1>12 DEF vars, Current
<1>13. QED
  BY <1>2, <1>3, <1>4, <1>5, <1>6, <1>7, <1>8, <1>9, <1>10, <1>11, <1>12 DEF Next, Connect

\* Nothing is subscribed to before the first ping is sent.
LEMMA QuietStep ==
    TypeInv /\ OneToken /\ QuietStart /\ [Next]_vars => QuietStart'
<1> SUFFICES ASSUME TypeInv, OneToken, QuietStart, [Next]_vars PROVE QuietStart'
  OBVIOUS
<1> USE DEF At
<1>0. /\ act \in [Actors -> Actor] /\ sender \in [Sessions -> Sender]
      /\ App \in Actors /\ App \notin Sessions \cup Reconnectors
      /\ Reconnectors \subseteq Actors /\ Sessions \subseteq Actors
      /\ Sessions \cap Reconnectors = {}
      /\ \A p \in Actors : Standing(p, act[p])
  BY ClientAssumption DEF TypeInv, ActorsOK, SendersOK, Actors
<1> DEFINE Low == {"over", "loop", "conn", "read"}
<1>1. ASSUME Starting' => Starting, subscriptions' = subscriptions,
             \A n \in Sessions : act[n].pc \in Low => act'[n].pc \in Low
      PROVE  QuietStart'
  BY <1>1 DEF QuietStart
<1>2. ASSUME NEW p \in Actors, DialFails(p) \/ Dial(p) \/ Send(p) PROVE QuietStart'
  <2>1. \A q \in Actors \ {p} : act'[q] = act[q]
    BY <1>2, OthersStay
  <2>2. act[p].pc \notin Low /\ subscriptions' = subscriptions
    BY <1>2 DEF DialFails, Dial, Send
  <2>3. p = App => ~Starting' \/ act[App].pc = "dial"
    <3>1. CASE Send(p)
      <4>1. act[p].pc = "send" /\ act'[p].pc = act[p].next
        BY <1>0, <3>1 DEF Send, Actor, Message
      <4>2. p = App => act'[p].pc = "idle"
        BY <1>0, <4>1 DEF Standing
      <4>3. QED BY <4>2 DEF Starting
    <3>2. QED BY <1>2, <3>1 DEF DialFails, Dial
  <2>4. Starting' => Starting
    BY <1>0, <2>1, <2>3 DEF Starting
  <2>5. QED BY <1>0, <1>1, <2>1, <2>2, <2>4
<1>3. ASSUME NEW p \in Actors, Up(p) PROVE QuietStart'
  <2>1. /\ act[p].pc = "up" /\ act[p].conn \in Sessions /\ p \notin Sessions
        /\ act'[act[p].conn].pc = "loop" /\ subscriptions' = subscriptions
        /\ \A q \in Actors \ {p, act[p].conn} : act'[q] = act[q]
    BY <1>3, UpFacts, Zenon
  <2>2. Starting' => Starting
    BY <1>0, <2>1 DEF Starting
  <2>3. QED BY <1>0, <1>1, <2>1, <2>2
<1>4. ASSUME NEW p \in Callers, Call(p) \/ Proceed(p) PROVE QuietStart'
  <2>1. p \in Actors /\ p \in {App} \cup Sessions /\ Rest(p) \in {"idle", "callback"}
    BY ClientAssumption DEF Actors, Rest
  <2>2. \A q \in Actors \ {p} : act'[q] = act[q]
    BY <1>4, <2>1, OthersStay
  <2>3. act[p].pc \in {"idle", "callback", "add", "tell", "close", "close.conn"}
    BY <1>4, <2>1 DEF Call, Proceed, Subscribe, SubscribeAdd, Unsubscribe, UnsubscribeTell, Publish, Close,
                CloseDone, CloseConn
  <2>4. CASE p = App
    <3>1. ~Starting'
      <4>1. CASE Publish(p)
        BY <1>0, <2>1, <2>4, <4>1 DEF Publish, Sending, Starting, Ping, Actor, Message
      <4>2. CASE SubscribeAdd(p) \/ UnsubscribeTell(p)
        <5>1. act[p].msg # Ping
          BY <1>0, <2>1, <4>2 DEF SubscribeAdd, UnsubscribeTell, Standing, Ping
        <5>2. act'[p].pc = "idle" \/ (act'[p].pc = "send" /\ act'[p].msg = act[p].msg)
          BY <1>0, <2>1, <2>4, <4>2 DEF SubscribeAdd, UnsubscribeTell, Sending, Actor, Message, Rest
        <5>3. QED BY <2>4, <5>1, <5>2 DEF Starting
      <4>3. CASE ~(Publish(p) \/ SubscribeAdd(p) \/ UnsubscribeTell(p))
        <5>1. act'[p].pc \in {"add", "tell", "close", "close.conn", "idle"}
          BY <1>0, <1>4, <2>1, <4>3 DEF Call, Proceed, Subscribe, Unsubscribe, Close, CloseDone,
                                  CloseConn, Goto, Actor, Message
        <5>2. QED BY <2>4, <5>1 DEF Starting
      <4>4. QED BY <4>1, <4>2, <4>3
    <3>2. QED BY <3>1 DEF QuietStart
  <2>5. CASE p # App
    <3>1. p \in Sessions /\ act[p].pc \notin Low /\ ~Starting
      BY <2>1, <2>3, <2>5 DEF QuietStart
    <3>2. ~Starting'
      BY <1>0, <2>2, <2>5, <3>1 DEF Starting
    <3>3. QED BY <3>2 DEF QuietStart
  <2>6. QED BY <2>4, <2>5
<1>5. ASSUME NEW n \in Sessions, Handler(n) \/ Read(n) \/ CallbackReturns(n) PROVE QuietStart'
  <2>1. \A q \in Actors \ {n} : act'[q] = act[q]
    BY <1>0, <1>5, OthersStay
  <2>2. subscriptions' = subscriptions
    BY <1>5 DEF Handler, HandlerLoop, HandlerConn, ReadError, Read, CallbackReturns
  <2>3. Starting' = Starting
    BY <1>0, <2>1 DEF Starting
  <2>4. subscriptions = {} /\ act[n].pc \in Low => act'[n].pc \in Low
    <3>1. CASE HandlerLoop(n) \/ HandlerConn(n) \/ CallbackReturns(n)
      BY <1>0, <3>1 DEF HandlerLoop, HandlerConn, CallbackReturns, Goto, Actor
    <3>2. CASE ReadError(n)
      BY <1>0, <3>2 DEF ReadError, NoActor
    <3>3. CASE Read(n)
      BY <1>0, <3>3, ReadFacts
    <3>4. QED BY <1>5, <3>1, <3>2, <3>3 DEF Handler
  <2>5. QED BY <1>0, <2>1, <2>2, <2>3, <2>4 DEF QuietStart
<1>6. ASSUME NEW r \in Reconnectors, Reconnect(r) PROVE QuietStart'
  <2>1. \A q \in Actors \ {r} : act'[q] = act[q]
    BY <1>0, <1>6, OthersStay
  <2>2. subscriptions' = subscriptions
    BY <1>6 DEF Reconnect, Enter, Check, Snapshot, Resubscribe, Release
  <2>3. Starting' = Starting
    BY <1>0, <2>1 DEF Starting
  <2>4. QED BY <1>0, <1>1, <2>1, <2>2, <2>3
<1>7. ASSUME NEW n \in Sessions, SenderStop(n) \/ Sends(n) \/ Break(n) PROVE QuietStart'
  BY <1>7 DEF SenderStop, Sends, SenderTake, SenderCheck, SenderConn, Write, WriteError, Break,
              QuietStart, Starting
<1>8. CASE Refused \/ UNCHANGED vars
  BY <1>8 DEF Refused, vars, QuietStart, Starting
<1>9. QED
  BY <1>2, <1>3, <1>4, <1>5, <1>6, <1>7, <1>8 DEF Next, Connect

\* A step of a connection that works before and after it, as the queue, its
\* sender and the server see it.
Steady ==
    /\ Working /\ Working' /\ Conn' = Conn /\ Conn \in Sessions
    /\ \/ SenderTake(Conn) /\ UNCHANGED <<act, server, subscriptions>>
       \/ /\ Write(Conn) /\ UNCHANGED <<act, queue, subscriptions>>
          /\ server'[Conn] = Heard(server[Conn], sender[Conn].msg)
       \/ /\ server'[Conn] = server[Conn]
          /\ queue' = queue \/ \E p \in Actors : Send(p) /\ queue' = Append(queue, act[p].msg)
          /\ \A m \in Message : Holds1(Conn, m) => Holds1(Conn, m)'

\* A step after which the client works starts a connection, or is steady.
LEMMA WorkingStep ==
    ASSUME TypeInv, OneToken, Current, [Next]_vars, Working'
    PROVE  Steady \/ \E p \in Actors : Up(p)
<1> USE DEF At
<1>0. /\ act \in [Actors -> Actor] /\ sender \in [Sessions -> Sender]
      /\ server \in [Sessions -> [registered : BOOLEAN, topics : SUBSET Topics]]
      /\ socket \in [Sessions -> {"open", "broken", "closed"}]
      /\ App \in Actors /\ Sessions \subseteq Actors /\ Reconnectors \subseteq Actors
      /\ None \notin Sessions /\ Conn \in Sessions \cup {None}
  BY ClientAssumption DEF TypeInv, ActorsOK, SendersOK, ServerOK, FlagsOK, Actors
<1>1. connected' /\ ~done' /\ socket'[Conn'] = "open"
  BY DEF Working
<1>2. ASSUME UNCHANGED <<Conn, sender, socket, server>>, connected, ~done,
             queue' = queue \/ \E p \in Actors : Send(p) /\ queue' = Append(queue, act[p].msg)
      PROVE  Steady
  <2>1. Working /\ Conn \in Sessions
    BY <1>0, <1>1, <1>2 DEF Working, Current
  <2>2. \A m \in Message : Holds1(Conn, m) => Holds1(Conn, m)'
    BY <1>2 DEF Holds1
  <2>3. QED BY <1>2, <2>1, <2>2 DEF Steady
<1>3. ASSUME NEW p \in Actors, DialFails(p) \/ Send(p) PROVE Steady
  <2>1. CASE DialFails(p)
    BY <1>1, <1>2, <2>1 DEF DialFails
  <2>2. CASE Send(p)
    <3>1. connected /\ ~done /\ UNCHANGED <<Conn, sender, socket, server>>
      BY <1>1, <2>2 DEF Send
    <3>2. queue' = queue \/ queue' = Append(queue, act[p].msg)
      BY <2>2 DEF Send
    <3>3. QED BY <1>2, <2>2, <3>1, <3>2
  <2>3. QED BY <1>3, <2>1, <2>2
<1>4. ASSUME NEW p \in Actors, Dial(p) PROVE FALSE
  BY <1>1, <1>4 DEF Dial, Current
<1>5. ASSUME NEW p \in Callers, Call(p) \/ Proceed(p) PROVE Steady
  <2>1. CASE CloseConn(p)
    <3>1. p = App
      <4>1. p \in Actors /\ p \in {App} \cup Sessions
        BY ClientAssumption DEF Actors
      <4>2. QED BY <2>1, <4>1 DEF CloseConn, TypeInv, ActorsOK, Standing
    <3>2. QED BY <1>1, <2>1, <3>1 DEF CloseConn, Current
  <2>2. CASE Close(p) \/ CloseDone(p)
    BY <1>1, <2>2 DEF Close, CloseDone
  <2>3. CASE ~(Close(p) \/ CloseDone(p) \/ CloseConn(p))
    BY <1>1, <1>2, <1>5, <2>3
       DEF Call, Proceed, Subscribe, SubscribeAdd, Unsubscribe, UnsubscribeTell, Publish
  <2>4. QED BY <2>1, <2>2, <2>3
<1>6. ASSUME NEW n \in Sessions, Handler(n) \/ Read(n) \/ CallbackReturns(n) PROVE Steady
  BY <1>1, <1>2, <1>6 DEF Handler, HandlerLoop, HandlerConn, ReadError, Read, CallbackReturns
<1>7. ASSUME NEW r \in Reconnectors, Reconnect(r) PROVE Steady
  BY <1>1, <1>2, <1>7 DEF Reconnect, Enter, Check, Snapshot, Resubscribe, Release
<1>8. CASE Refused \/ UNCHANGED vars
  <2>1. UNCHANGED <<connected, done, Conn, sender, socket, server, queue>>
    BY <1>8 DEF Refused, vars
  <2>2. QED BY <1>1, <1>2, <2>1
<1>9. ASSUME NEW n \in Sessions, SenderStop(n) \/ Sends(n) PROVE Steady
  <2>1. /\ UNCHANGED <<Conn, done, socket, act, subscriptions>> /\ (connected' => connected)
        /\ sender[n].pc # "over"
    BY <1>9 DEF SenderStop, Sends, SenderTake, SenderCheck, SenderConn, Write, WriteError
  <2>2. Working /\ n = Conn /\ Conn # None /\ Conn \in Sessions
        /\ (sender[n].pc = "write" => sender[n].conn = n) /\ act[n].pc # "over"
    BY <1>0, <1>1, <2>1 DEF Working, Current
  <2>3. CASE SenderStop(n) \/ WriteError(n)
    BY <1>1, <2>2, <2>3 DEF SenderStop, WriteError, Working
  <2>4. CASE SenderTake(n)
    BY <2>1, <2>2, <2>4 DEF SenderTake, Steady
  <2>5. CASE SenderCheck(n) \/ SenderConn(n)
    <3>1. \A m \in Message : Holds1(Conn, m) => Holds1(Conn, m)'
      BY <1>9, <2>1, <2>2, <2>5, SenderFacts DEF Holds1, Working
    <3>2. UNCHANGED <<server, queue>>
      BY <2>5 DEF SenderCheck, SenderConn
    <3>3. QED BY <2>1, <2>2, <3>1, <3>2 DEF Steady
  <2>6. CASE Write(n)
    <3>1. server' = [server EXCEPT ![n] = Heard(server[n], sender[n].msg)] /\ UNCHANGED queue
      BY <2>2, <2>6 DEF Write, Working
    <3>2. server'[n] = Heard(server[n], sender[n].msg)
      BY <1>0, <3>1
    <3>3. QED BY <2>1, <2>2, <2>6, <3>1, <3>2 DEF Steady
  <2>7. QED BY <1>9, <2>3, <2>4, <2>5, <2>6 DEF Sends
<1>10. ASSUME NEW n \in Sessions, Break(n) PROVE Steady
  <2>1. /\ UNCHANGED <<Conn, connected, done, sender, queue, act, subscriptions>>
        /\ socket' = [socket EXCEPT ![n] = "broken"] /\ server' = [server EXCEPT ![n] = NoPeer]
    BY <1>10 DEF Break, Ends
  <2>2. Conn \in Sessions /\ connected /\ ~done
    BY <1>0, <1>1, <2>1 DEF Current
  <2>3. n # Conn
    BY <1>0, <1>1, <2>1, <2>2
  <2>4. server'[Conn] = server[Conn] /\ Working
    BY <1>0, <1>1, <2>1, <2>2, <2>3 DEF Working
  <2>5. \A m \in Message : Holds1(Conn, m) => Holds1(Conn, m)'
    BY <2>1 DEF Holds1
  <2>6. QED BY <2>1, <2>2, <2>4, <2>5 DEF Steady
<1>11. QED
  BY <1>3, <1>4, <1>5, <1>6, <1>7, <1>8, <1>9, <1>10 DEF Next, Connect

\* A ping stays ahead of what follows it in the queue.
LEMMA AnnouncedKept ==
    ASSUME TypeInv, Steady, NEW k \in 1..(Len(queue) + 1), AnnouncedBefore(k)
    PROVE  /\ ~SenderTake(Conn) => AnnouncedBefore(k)'
           /\ SenderTake(Conn) => IF k > 1 THEN AnnouncedBefore(k - 1)' ELSE server'[Conn].registered
<1> USE DEF At
<1>0. /\ sender \in [Sessions -> Sender] /\ queue \in Seq(Requests) /\ Conn \in Sessions
      /\ server[Conn] \in [registered : BOOLEAN, topics : SUBSET Topics]
      /\ Conn' = Conn /\ Ping \in Message
  BY DEF TypeInv, SendersOK, QueueOK, ServerOK, Steady, Ping, Message
<1>1. CASE SenderTake(Conn)
  <2>1. /\ queue # <<>> /\ queue' = Tail(queue) /\ server' = server /\ ~Holds1(Conn, Ping)
        /\ sender'[Conn].pc = "taken" /\ sender'[Conn].msg = Head(queue)
    BY <1>0, <1>1, SenderFacts DEF SenderTake, Sends, Holds1
  <2>2. CASE server[Conn].registered
    BY <1>0, <2>1, <2>2 DEF AnnouncedBefore
  <2>3. ASSUME NEW j \in 1..(k - 1), queue[j] = Ping PROVE k > 1 /\ AnnouncedBefore(k - 1)'
    <3>1. CASE j = 1
      <4>1. Holds1(Conn, Ping)'
        BY <1>0, <2>1, <2>3, <3>1 DEF Holds1
      <4>2. QED BY <2>3, <4>1 DEF AnnouncedBefore
    <3>2. CASE j > 1
      <4>1. queue'[j - 1] = Ping /\ j - 1 \in 1..((k - 1) - 1)
        BY <1>0, <2>1, <2>3, <3>2
      <4>2. QED BY <2>3, <4>1 DEF AnnouncedBefore
    <3>3. QED BY <2>3, <3>1, <3>2
  <2>4. QED BY <1>1, <2>1, <2>2, <2>3 DEF AnnouncedBefore
<1>2. CASE ~SenderTake(Conn)
  <2>1. server[Conn].registered => server'[Conn].registered
    BY <1>0, <1>2 DEF Steady, Heard
  <2>2. Holds1(Conn, Ping) => Holds1(Conn, Ping)' \/ server'[Conn].registered
    <3>1. CASE Write(Conn) /\ server'[Conn] = Heard(server[Conn], sender[Conn].msg)
      BY <1>0, <3>1 DEF Holds1, Heard, Ping
    <3>2. QED BY <1>0, <1>2, <3>1 DEF Steady
  <2>3. queue' = queue \/ \E p \in Actors : queue' = Append(queue, act[p].msg)
    BY <1>2 DEF Steady
  <2>4. \A j \in 1..(k - 1) : queue'[j] = queue[j]
    <3>1. \A p \in Actors : act[p].msg \in Requests
      BY DEF TypeInv, ActorsOK, Standing
    <3>2. QED BY <1>0, <2>3, <3>1
  <2>5. AnnouncedBefore(k)'
    BY <1>0, <2>1, <2>2, <2>4 DEF AnnouncedBefore
  <2>6. QED BY <1>2, <2>5
<1>3. QED BY <1>1, <1>2

\* The end of the queue.
LEMMA AnnouncedAtEnd ==
    ASSUME TypeInv, Steady, AnnouncedBefore(Len(queue) + 1)
    PROVE  AnnouncedBefore(Len(queue) + 1)'
<1>0. queue \in Seq(Requests) /\ Len(queue) + 1 \in 1..(Len(queue) + 1) /\ Len(queue) \in Nat
  BY DEF TypeInv, QueueOK
<1> PICK k \in 1..(Len(queue) + 1) : k = Len(queue) + 1
  BY <1>0
<1>1. CASE SenderTake(Conn)
  <2>1. queue # <<>> /\ queue' = Tail(queue)
    BY <1>1 DEF SenderTake
  <2>2. Len(queue') = Len(queue) - 1 /\ Len(queue) > 0
    BY <1>0, <2>1
  <2>3. k > 1 /\ k - 1 = Len(queue') + 1
    BY <1>0, <2>2
  <2>4. AnnouncedBefore(k - 1)'
    BY <1>1, <2>3, AnnouncedKept
  <2>5. QED BY <2>3, <2>4 DEF AnnouncedBefore
<1>2. CASE ~SenderTake(Conn)
  <2>1. \A p \in Actors : act[p].msg \in Requests
    BY DEF TypeInv, ActorsOK, Standing
  <2>2. queue' = queue \/ \E p \in Actors : queue' = Append(queue, act[p].msg)
    BY <1>2 DEF Steady
  <2>3. Len(queue') \in Nat /\ Len(queue') >= Len(queue)
    BY <1>0, <2>1, <2>2
  <2>4. AnnouncedBefore(k)'
    BY <1>2, AnnouncedKept
  <2>5. QED BY <1>0, <2>3, <2>4 DEF AnnouncedBefore
<1>3. QED BY <1>1, <1>2

\* An actor moves by its own steps, but for Up.
LEMMA OwnSteps ==
    ASSUME TypeInv, [Next]_vars, \A q \in Actors : ~Up(q), NEW p \in Actors
    PROVE  \/ act'[p] = act[p]
           \/ DialFails(p) \/ Dial(p) \/ Send(p)
           \/ p \in Callers /\ (Call(p) \/ Proceed(p))
           \/ p \in Sessions /\ (Handler(p) \/ Read(p) \/ CallbackReturns(p))
           \/ p \in Reconnectors /\ Reconnect(p)
<1>0. Callers \subseteq Actors /\ Sessions \subseteq Actors /\ Reconnectors \subseteq Actors
  BY ClientAssumption DEF Actors
<1>1. CASE \E q \in Actors : DialFails(q) \/ Dial(q) \/ Send(q)
  BY <1>1, OthersStay
<1>2. CASE \E q \in Callers : Call(q) \/ Proceed(q)
  BY <1>0, <1>2, OthersStay
<1>3. CASE \E q \in Sessions : Handler(q) \/ Read(q) \/ CallbackReturns(q)
  BY <1>0, <1>3, OthersStay
<1>4. CASE \E q \in Reconnectors : Reconnect(q)
  BY <1>0, <1>4, OthersStay
<1>5. CASE \E n \in Sessions : SenderStop(n) \/ Sends(n) \/ Break(n)
  BY <1>5 DEF SenderStop, Sends, SenderTake, SenderCheck, SenderConn, Write, WriteError, Break
<1>6. CASE Refused \/ UNCHANGED vars
  BY <1>6 DEF Refused, vars
<1>7. QED
  BY <1>1, <1>2, <1>3, <1>4, <1>5, <1>6 DEF Next, Connect

\* An actor that sends goes on when its message is in the queue.
LEMMA SenderWaits ==
    ASSUME TypeInv, [Next]_vars, \A q \in Actors : ~Up(q), NEW p \in Actors, At(p, "send")
    PROVE  act'[p] = act[p] \/ Send(p)
<1>1. Rest(p) # "send"
  BY DEF Rest
<1>2. ~(DialFails(p) \/ Dial(p) \/ Call(p) \/ Proceed(p))
  BY <1>1 DEF At, DialFails, Dial, Call, Proceed, Subscribe, SubscribeAdd, Unsubscribe, UnsubscribeTell,
         Publish, Close, CloseDone, CloseConn
<1>3. ~(Handler(p) \/ Read(p) \/ CallbackReturns(p) \/ Reconnect(p))
  BY DEF At, Handler, HandlerLoop, HandlerConn, ReadError, Read, CallbackReturns, Reconnect, Enter,
         Admitted, Check, Snapshot, Resubscribe, Release
<1>4. QED BY <1>2, <1>3, OwnSteps

\* What a send does.
LEMMA SendFacts ==
    ASSUME TypeInv, NEW p \in Actors, Send(p), Steady
    PROVE  /\ queue' = Append(queue, act[p].msg) /\ ~SenderTake(Conn)
           /\ act'[p].pc = act[p].next /\ act'[p].left = act[p].left
           /\ UNCHANGED <<subscriptions, sender>>
<1>0. act \in [Actors -> Actor] /\ sender \in [Sessions -> Sender] /\ Conn \in Sessions
  BY DEF TypeInv, ActorsOK, SendersOK, Steady
<1>1. ~done
  BY DEF Steady, Working
<1>2. ~SenderTake(Conn)
  BY <1>0, SenderFacts DEF Send, SenderTake, Sends
<1>3. QED BY <1>0, <1>1, <1>2 DEF Send, Actor, Message

\* The ping of a connection is ahead of all that is sent after it.
LEMMA PingStep ==
    ASSUME TypeInv, OneToken, Current, PingIsAhead, [Next]_vars
    PROVE  PingIsAhead'
<1> SUFFICES ASSUME Working'
             PROVE  \/ AnnouncedBefore(Len(queue) + 1)'
                    \/ (At(App, "send") /\ act[App].msg = Ping)'
                    \/ \E r \in Reconnectors : Announces(r)'
  BY DEF PingIsAhead
<1>0. App \in Actors /\ Reconnectors \subseteq Actors /\ queue \in Seq(Requests)
  BY DEF Actors, TypeInv, QueueOK
<1>1. CASE \E p \in Actors : Up(p)
  <2>1. PICK p \in Actors : Up(p)
    BY <1>1
  <2>2. /\ p \notin Sessions
        /\ act'[p].pc = "send" /\ act'[p].msg = Ping
        /\ act'[p].next = IF p = App THEN "idle" ELSE "snapshot"
    BY <2>1, UpFacts, Zenon
  <2>3. p = App \/ p \in Reconnectors
    BY <2>2 DEF Actors
  <2>4. QED BY <2>2, <2>3, ClientAssumption DEF At, Announces
<1>2. CASE ~\E p \in Actors : Up(p)
  <2>1. Steady
    BY <1>2, WorkingStep
  <2>2. CASE AnnouncedBefore(Len(queue) + 1)
    BY <2>1, <2>2, AnnouncedAtEnd
  <2>3. ASSUME NEW p \in Actors, At(p, "send"), act[p].msg = Ping
        PROVE  AnnouncedBefore(Len(queue) + 1)' \/ act'[p] = act[p]
    <3>1. CASE Send(p)
      <4>1. queue' = Append(queue, Ping)
        BY <2>1, <2>3, <3>1, SendFacts
      <4>2. Ping \in Requests
        BY DEF Ping, Requests, Message
      <4>3. Len(queue') = Len(queue) + 1 /\ queue'[Len(queue) + 1] = Ping /\ Len(queue) \in Nat
        BY <1>0, <4>1, <4>2
      <4>4. \E j \in 1..(Len(queue') + 1 - 1) : queue'[j] = Ping
        BY <4>3
      <4>5. QED BY <4>4 DEF AnnouncedBefore
    <3>2. QED BY <1>2, <2>3, <3>1, SenderWaits
  <2>4. QED BY <1>0, <2>1, <2>2, <2>3 DEF PingIsAhead, Steady, Announces, At
<1>3. QED BY <1>1, <1>2

\* The server forgets a topic when it is asked to, which is never of this one.
LEMMA TopicKept ==
    ASSUME TypeInv, LeavesOK, Steady, NEW t \in Topics \ program.leaves, t \in server[Conn].topics
    PROVE  t \in server'[Conn].topics
<1>0. Conn \in Sessions /\ server[Conn] \in [registered : BOOLEAN, topics : SUBSET Topics]
  BY DEF Steady, TypeInv, ServerOK
<1>1. Allowed(sender[Conn].msg)
  BY <1>0 DEF LeavesOK
<1>2. CASE Write(Conn) /\ server'[Conn] = Heard(server[Conn], sender[Conn].msg)
  BY <1>0, <1>1, <1>2 DEF Heard, Allowed
<1>3. CASE server'[Conn] = server[Conn]
  BY <1>3
<1>4. QED BY <1>2, <1>3 DEF Steady, SenderTake

\* A request that is on its way goes on, and the server hears it.
LEMMA UnderwayKept ==
    ASSUME TypeInv, [Next]_vars, Steady, \A q \in Actors : ~Up(q), NEW t \in Topics, Underway(t)
    PROVE  Underway(t)' \/ t \in server'[Conn].topics
<1>0. /\ sender \in [Sessions -> Sender] /\ queue \in Seq(Requests) /\ Conn \in Sessions
      /\ server[Conn] \in [registered : BOOLEAN, topics : SUBSET Topics]
      /\ Conn' = Conn /\ Sub(t) \in Requests /\ Requests \subseteq Message
      /\ \A p \in Actors : act[p].msg \in Requests
  BY DEF TypeInv, ActorsOK, Standing, SendersOK, QueueOK, ServerOK, Steady, Requests, Message, Sub
<1>1. CASE Holds1(Conn, Sub(t)) /\ server[Conn].registered
  <2>1. CASE Write(Conn) /\ server'[Conn] = Heard(server[Conn], sender[Conn].msg)
    BY <1>0, <1>1, <2>1 DEF Holds1, Heard, Sub
  <2>2. CASE server'[Conn] = server[Conn] /\ Holds1(Conn, Sub(t))'
    BY <1>0, <1>1, <2>2 DEF Underway
  <2>3. ~SenderTake(Conn)
    BY <1>1 DEF SenderTake, Holds1
  <2>4. QED BY <1>0, <1>1, <2>1, <2>2, <2>3 DEF Steady
<1>2. ASSUME NEW k \in DOMAIN queue, queue[k] = Sub(t), AnnouncedBefore(k)
      PROVE  Underway(t)'
  <2>0. k \in 1..(Len(queue) + 1) /\ k \in 1..Len(queue)
    BY <1>0, <1>2
  <2>1. CASE SenderTake(Conn)
    <3>1. /\ queue # <<>> /\ queue' = Tail(queue)
          /\ sender'[Conn].pc = "taken" /\ sender'[Conn].msg = Head(queue)
      BY <1>0, <2>1, SenderFacts DEF SenderTake, Sends
    <3>2. CASE k = 1
      <4>1. server'[Conn].registered
        BY <1>2, <2>0, <2>1, <3>2, AnnouncedKept
      <4>2. Head(queue) = Sub(t)
        BY <1>0, <1>2, <3>1, <3>2
      <4>3. QED BY <1>0, <3>1, <4>1, <4>2 DEF Underway, Holds1
    <3>3. CASE k > 1
      <4>1. AnnouncedBefore(k - 1)'
        BY <1>2, <2>0, <2>1, <3>3, AnnouncedKept
      <4>2. k - 1 \in DOMAIN queue' /\ queue'[k - 1] = Sub(t)
        BY <1>0, <1>2, <3>1, <3>3
      <4>3. QED BY <4>1, <4>2 DEF Underway
    <3>4. QED BY <2>0, <3>2, <3>3
  <2>2. CASE ~SenderTake(Conn)
    <3>1. AnnouncedBefore(k)'
      BY <1>2, <2>0, <2>2, AnnouncedKept
    <3>2. queue' = queue \/ \E p \in Actors : queue' = Append(queue, act[p].msg)
      BY <2>2 DEF Steady
    <3>3. k \in DOMAIN queue' /\ queue'[k] = Sub(t)
      BY <1>0, <1>2, <3>2
    <3>4. QED BY <3>1, <3>3 DEF Underway
  <2>3. QED BY <2>1, <2>2
<1>3. ASSUME NEW p \in Actors, At(p, "send"), act[p].msg = Sub(t), AnnouncedBefore(Len(queue) + 1)
      PROVE  Underway(t)'
  <2>1. CASE Send(p)
    <3>1. queue' = Append(queue, Sub(t)) /\ ~SenderTake(Conn)
      BY <1>3, <2>1, SendFacts
    <3>2. PICK k \in 1..(Len(queue) + 1) : k = Len(queue) + 1
      BY <1>0
    <3>3. AnnouncedBefore(k)'
      BY <1>3, <3>1, <3>2, AnnouncedKept
    <3>4. k \in DOMAIN queue' /\ queue'[k] = Sub(t)
      BY <1>0, <3>1, <3>2
    <3>5. QED BY <3>3, <3>4 DEF Underway
  <2>2. CASE act'[p] = act[p]
    <3>1. AnnouncedBefore(Len(queue) + 1)'
      BY <1>3, AnnouncedAtEnd
    <3>2. QED BY <1>3, <2>2, <3>1 DEF Underway, At
  <2>3. QED BY <1>3, <2>1, <2>2, SenderWaits
<1>4. QED BY <1>1, <1>2, <1>3 DEF Underway

\* What is added to a queue that is not announced yet: the first ping is not
\* followed by a request, and that of a reconnect by all of them.
LEMMA AskedBehindPing ==
    ASSUME TypeInv, OneToken, OneReconnects, QuietStart, PingIsAhead, Working, [Next]_vars,
           Steady, \A q \in Actors : ~Up(q), NEW t \in Topics, NEW p \in Actors,
           (At(p, "send") /\ act[p].msg = Sub(t))', ~Starting,
           \A r \in Reconnectors : Announces(r) => act'[r] = act[r]
    PROVE  Underway(t)' \/ ToAsk(t)'
<1>1. AnnouncedBefore(Len(queue) + 1) \/ \E r \in Reconnectors : Announces(r)
  BY DEF PingIsAhead, Starting
<1>2. CASE AnnouncedBefore(Len(queue) + 1)
  <2>1. AnnouncedBefore(Len(queue) + 1)'
    BY <1>2, AnnouncedAtEnd
  <2>2. QED BY <2>1 DEF Underway
<1>3. CASE \E r \in Reconnectors : Announces(r)
  BY <1>3 DEF ToAsk, Announces, At
<1>4. QED BY <1>1, <1>2, <1>3

\* resubscribeAll goes on, until it asks for the topic.
LEMMA ToAskKept ==
    ASSUME TypeInv, OneToken, OneReconnects, QuietStart, PingIsAhead, [Next]_vars, Steady,
           \A q \in Actors : ~Up(q), NEW t \in Topics, t \in subscriptions, ToAsk(t)
    PROVE  ToAsk(t)' \/ Underway(t)'
<1> USE DEF At
<1>0. act \in [Actors -> Actor] /\ Reconnectors \subseteq Actors /\ Reconnectors \cap Sessions = {}
      /\ Reconnectors \cap Callers = {}
  BY ClientAssumption DEF TypeInv, ActorsOK, Actors
<1>1. PICK r \in Reconnectors : \/ Announces(r) \/ act[r].pc = "snapshot"
                                \/ act[r].pc \in {"resub", "send"} /\ t \in act[r].left
  BY DEF ToAsk
<1>2. CASE act'[r] = act[r]
  BY <1>1, <1>2 DEF ToAsk, Announces
<1>3. CASE Send(r)
  <2>1. act[r].pc = "send" /\ act[r].next \in {"snapshot", "resub"}
    BY <1>0, <1>3 DEF Send, TypeInv, ActorsOK, Standing
  <2>2. act'[r].pc = act[r].next /\ act'[r].left = act[r].left
    BY <1>0, <1>3, SendFacts
  <2>3. QED BY <1>1, <2>1, <2>2 DEF ToAsk, Announces
<1>4. CASE Snapshot(r)
  <2>1. act'[r].pc = "resub" /\ act'[r].left = subscriptions
    BY <1>0, <1>4 DEF Snapshot, Actor
  <2>2. QED BY <2>1 DEF ToAsk
<1>5. CASE Resubscribe(r)
  <2>1. t \in act[r].left /\ act[r].pc = "resub"
    BY <1>1, <1>5 DEF Resubscribe, Announces
  <2>2. PICK u \in act[r].left :
            act' = [act EXCEPT ![r].pc = "send", ![r].next = "resub",
                               ![r].msg = [action |-> "subscribe", topic |-> u],
                               ![r].left = @ \ {u}]
    BY <1>5, <2>1 DEF Resubscribe
  <2>3. act'[r].pc = "send" /\ act'[r].msg = Sub(u) /\ act'[r].left = act[r].left \ {u}
    BY <1>0, <2>2 DEF Actor, Message, Sub
  <2>4. CASE u = t
    <3>1. ~Starting
      BY DEF QuietStart
    <3>2. \A s \in Reconnectors : ~Announces(s)
      BY <2>1 DEF OneReconnects, Announces
    <3>3. QED BY <1>0, <2>3, <2>4, <3>1, <3>2, AskedBehindPing DEF Steady
  <2>5. CASE u # t
    BY <2>1, <2>3, <2>5 DEF ToAsk
  <2>6. QED BY <2>4, <2>5
<1>6. act[r].pc \in {"send", "snapshot", "resub"}
  BY <1>1 DEF Announces
<1>7. act'[r] = act[r] \/ Send(r) \/ Snapshot(r) \/ Resubscribe(r)
  <2>1. ~(DialFails(r) \/ Dial(r) \/ Enter(r) \/ Check(r) \/ Release(r))
    BY <1>6 DEF DialFails, Dial, Enter, Admitted, Check, Release
  <2>2. QED BY <1>0, <2>1, OwnSteps DEF Reconnect
<1>8. QED BY <1>2, <1>3, <1>4, <1>5, <1>7

\* Every subscription is known to the server, or is being told to it.
LEMMA PromiseStep ==
    ASSUME TypeInv, OneToken, SurvivalInv, [Next]_vars
    PROVE  Promise'
<1> USE DEF SurvivalInv
<1> SUFFICES ASSUME Working', NEW t \in subscriptions' \ program'.leaves
             PROVE  t \in server'[Conn'].topics \/ Underway(t)' \/ ToAsk(t)'
  BY DEF Promise
<1>0. /\ App \in Actors /\ Reconnectors \subseteq Actors /\ App \notin Reconnectors
      /\ act \in [Actors -> Actor] /\ subscriptions \subseteq Topics /\ Callers \subseteq Actors
      /\ Callers \cap Reconnectors = {}
  BY ClientAssumption DEF Actors, TypeInv, ActorsOK, FlagsOK
<1>1. program' = program
  BY DEF Next, vars, Connect, DialFails, Dial, Up, Send, Call, Proceed, Subscribe, SubscribeAdd,
         Unsubscribe, UnsubscribeTell, Publish, Close, CloseDone, CloseConn, Handler, HandlerLoop,
         HandlerConn, ReadError, Read, CallbackReturns, Reconnect, Enter, Check, Snapshot,
         Resubscribe, Release, Refused, SenderStop, Sends, SenderTake, SenderCheck, SenderConn,
         Write, WriteError, Break
<1>2. CASE \E p \in Actors : Up(p)
  <2>1. PICK p \in Actors : Up(p)
    BY <1>2
  <2>2. /\ p \notin Sessions /\ subscriptions' = subscriptions /\ act[p].pc = "up"
        /\ act'[p].pc = "send" /\ act'[p].msg = Ping
        /\ act'[p].next = IF p = App THEN "idle" ELSE "snapshot"
    BY <2>1, UpFacts, Zenon
  <2>3. p # App
    BY <2>2 DEF QuietStart, Starting
  <2>4. p \in Reconnectors
    BY <2>2, <2>3 DEF Actors
  <2>5. QED BY <2>2, <2>3, <2>4 DEF ToAsk, Announces, At
<1>3. CASE ~\E p \in Actors : Up(p)
  <2>1. Steady /\ Conn' = Conn /\ Working
    BY <1>3, WorkingStep DEF Steady
  <2>2. CASE t \in subscriptions
    <3>1. t \in server[Conn].topics \/ Underway(t) \/ ToAsk(t)
      BY <1>1, <2>1, <2>2 DEF Promise
    <3>2. t \in Topics \ program.leaves
      BY <1>0, <1>1, <2>2
    <3>3. CASE t \in server[Conn].topics
      BY <2>1, <3>2, <3>3, TopicKept
    <3>4. CASE Underway(t)
      BY <1>3, <2>1, <3>2, <3>4, UnderwayKept
    <3>5. CASE ToAsk(t)
      BY <1>3, <2>1, <2>2, <3>2, <3>5, ToAskKept
    <3>6. QED BY <3>1, <3>3, <3>4, <3>5
  <2>3. CASE t \notin subscriptions
    <3>1. PICK p \in Callers : SubscribeAdd(p) /\ act[p].msg.topic = t
      BY <2>3
         DEF Next, vars, Connect, DialFails, Dial, Up, Send, Call, Proceed, Subscribe, SubscribeAdd,
             Unsubscribe, UnsubscribeTell, Publish, Close, CloseDone, CloseConn, Handler,
             HandlerLoop, HandlerConn, ReadError, Read, CallbackReturns, Reconnect, Enter, Check,
             Snapshot, Resubscribe, Release, Refused, SenderStop, Sends, SenderTake, SenderCheck,
             SenderConn, Write, WriteError, Break
    <3>2. act[p].pc = "add" /\ Standing(p, act[p])
      BY <1>0, <3>1 DEF SubscribeAdd, At, TypeInv, ActorsOK
    <3>3. t \in Topics /\ act[p].msg = Sub(t)
      BY <3>1, <3>2 DEF Standing, Requests, Message, Sub
    <3>4. act'[p].pc = "send" /\ act'[p].msg = Sub(t)
      BY <1>0, <3>1, <3>3 DEF SubscribeAdd, Sending, Actor, Message
    <3>5. ~Starting
      <4>1. p = App \/ p \in Sessions
        BY ClientAssumption
      <4>2. QED BY <3>2, <4>1 DEF QuietStart, Starting, At
    <3>6. \A r \in Reconnectors : act'[r] = act[r]
      BY <1>0, <3>1, OthersStay DEF Proceed
    <3>7. QED BY <1>0, <1>3, <2>1, <3>3, <3>4, <3>5, <3>6, AskedBehindPing DEF At
  <2>4. QED BY <2>2, <2>3
<1>4. QED BY <1>2, <1>3

\* The invariants of the first connection hold when the program starts.
LEMMA SurvivalInit == Init => SurvivalInv
<1> SUFFICES ASSUME Init PROVE SurvivalInv
  OBVIOUS
<1> USE DEF Init, At
<1>0. App \in Actors /\ App \notin Sessions \cup Reconnectors
  BY ClientAssumption DEF Actors
<1>1. /\ \A p \in Actors \ {App} : act[p] = NoActor
      /\ act[App].pc = "dial" /\ act[App].msg = Ping
      /\ \A n \in Sessions : sender[n] = NoSender
  BY <1>0 DEF NoActor
<1>2. NoActor.pc = "over" /\ NoActor.msg = Ping /\ NoSender.pc = "over" /\ NoSender.msg = Ping
  BY DEF NoActor, NoSender
<1>3. Sessions \subseteq Actors \ {App} /\ Reconnectors \subseteq Actors \ {App}
  BY <1>0 DEF Actors
<1>4. LeavesOK
  BY <1>1, <1>2 DEF LeavesOK, Allowed, Ping
<1>5. OneReconnects /\ QuietStart
  BY <1>1, <1>2, <1>3 DEF OneReconnects, QuietStart
<1>6. Current
  BY <1>1, <1>2, <1>3 DEF Current
<1>7. PingIsAhead /\ Promise
  BY DEF PingIsAhead, Promise, Working
<1>8. QED BY <1>4, <1>5, <1>6, <1>7 DEF SurvivalInv

LEMMA SurvivalHolds == SendersEnd => (Spec => []SurvivalInv)
<1> SUFFICES ASSUME SendersEnd PROVE Spec => []SurvivalInv
  OBVIOUS
<1>1. TypeInv /\ OneToken /\ SurvivalInv /\ [Next]_vars => SurvivalInv'
  <2> SUFFICES ASSUME TypeInv, OneToken, SurvivalInv, [Next]_vars PROVE SurvivalInv'
    OBVIOUS
  <2>1. LeavesOK' /\ OneReconnects'
    BY LeavesStep, OneReconnectsStep DEF SurvivalInv
  <2>2. Current'
    BY CurrentStep DEF SurvivalInv
  <2>3. QuietStart' /\ PingIsAhead'
    BY QuietStep, PingStep DEF SurvivalInv
  <2>4. Promise'
    BY PromiseStep
  <2>5. QED BY <2>1, <2>2, <2>3, <2>4 DEF SurvivalInv
<1>2. QED BY <1>1, SurvivalInit, TypesHold, TokenHolds, PTL DEF Spec

\* SubscriptionsSurvive: under the assumption that RestartEvery, slept before a
\* new dial, is longer than the sender of the connection before needs to end,
\* a client that is at rest on a connection is subscribed at the server to all
\* its topics that it never leaves, however many connections broke before and
\* wherever in connect, resubscribeAll or Subscribe they did.
THEOREM Survives == SendersEnd => (Spec => []SubscriptionsSurvive)
<1> SUFFICES ASSUME SendersEnd PROVE Spec => []SubscriptionsSurvive
  OBVIOUS
<1>1. TypeInv /\ SurvivalInv => SubscriptionsSurvive
  <2> SUFFICES ASSUME TypeInv, SurvivalInv, Settled, NEW t \in subscriptions \ program.leaves
               PROVE  t \in server[Conn].topics
    BY DEF SubscriptionsSurvive
  <2>1. Working /\ Conn \in Sessions
    BY DEF Settled, Working, TypeInv, FlagsOK
  <2>2. ~Underway(t)
    <3>1. ~Holds1(Conn, Sub(t))
      BY <2>1 DEF Settled, Holds1
    <3>2. DOMAIN queue = {}
      BY DEF Settled
    <3>3. \A p \in Actors : ~At(p, "send")
      BY DEF Settled, At
    <3>4. QED BY <3>1, <3>2, <3>3 DEF Underway
  <2>3. ~ToAsk(t)
    BY DEF Settled, ToAsk, Announces, At, Actors
  <2>4. QED BY <2>1, <2>2, <2>3 DEF SurvivalInv, Promise
<1>2. QED BY <1>1, TypesHold, SurvivalHolds, PTL
=============================================================================
