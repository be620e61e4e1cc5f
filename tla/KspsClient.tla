----------------------------- MODULE KspsClient -----------------------------
(***************************************************************************)
(* The Go client of the bus (src/ksps/client.go): NewClient and connect,   *)
(* the two goroutines of a connection (messageHandler and messageSender),  *)
(* the queue of outgoing messages that outlives connections, the calls of  *)
(* the program and of its callbacks, reconnect with resubscribeAll, Close; *)
(* and of the server what the client relies on: a connection that sent no  *)
(* ping may not subscribe, and a connection that is gone is forgotten.     *)
(*                                                                         *)
(* No lock orders these goroutines: they meet in the flags connected and   *)
(* reconnecting, in the pointer Conn, and in the queue.  Each access to    *)
(* one of them is a step.                                                  *)
(***************************************************************************)
EXTENDS Naturals, Sequences, FiniteSets

CONSTANTS Topics,
          App,           (* the goroutine of the program that uses the client     *)
          Sessions,      (* bound: connections with goroutines at one time; each  *)
                         (* name is also the messageHandler of its connection     *)
          Reconnectors,  (* bound: goroutines inside reconnect at one time        *)
          Callers,       (* who calls the client's methods: App, and the handlers *)
                         (* whose callbacks do                                    *)
          QueueCap,      (* capacity of messageQueue (1024 in the code)           *)
          Autorestart,   (* the client option                                     *)
          Programs,      (* the programs that may use the client: the topics they *)
                         (* subscribe to and those they unsubscribe from, whether *)
                         (* they publish, and whether they call Close             *)
          SendersEnd,    (* an assumption about time: RestartEvery, slept before  *)
                         (* each new dial, is longer than a messageSender takes   *)
                         (* to notice that its connection is over                 *)
          None           (* nil                                                   *)

ASSUME ClientAssumption ==
    /\ QueueCap \in Nat \ {0}
    /\ {Autorestart, SendersEnd} \subseteq BOOLEAN
    /\ Programs \subseteq [topics : SUBSET Topics, leaves : SUBSET Topics,
                            publishes : BOOLEAN, closes : BOOLEAN]
    /\ Callers \subseteq {App} \cup Sessions
    /\ App \notin Sessions \cup Reconnectors /\ Sessions \cap Reconnectors = {}
    /\ None \notin Topics \cup Sessions

VARIABLES
    program,                  (* which of Programs uses the client; it never changes *)
    connected, reconnecting,  (* the two atomic flags                            *)
    Conn,                     (* client.Conn: the connection in use, or nil      *)
    done,                     (* Done is closed                                  *)
    spawned,                  (* goroutines about to enter reconnect             *)
    subscriptions,            (* the topics with a local subscription            *)
    queue,                    (* messageQueue                                    *)
    act,                      (* the program, the handlers and the reconnectors  *)
    sender,                   (* the messageSender of each connection            *)
    socket,                   (* what the client's end of each connection sees   *)
    server                    (* what the server knows of each connection        *)

vars == <<program, connected, reconnecting, Conn, done, spawned, subscriptions, queue, act, sender,
          socket, server>>

Actors == {App} \cup Sessions \cup Reconnectors

Message == [action : {"ping", "subscribe", "unsubscribe", "publish"}, topic : Topics \cup {None}]
Ping == [action |-> "ping", topic |-> None]

Labels == {"idle", "gone", "dial", "up", "add", "tell", "send", "close", "close.conn",
           "loop", "conn", "read", "callback", "check", "snapshot", "resub", "release", "over"}

Actor == [pc : Labels, msg : Message, next : Labels, left : SUBSET Topics,
          conn : Sessions \cup {None}]
Sender == [pc : {"select", "taken", "conn", "write", "over"}, msg : Message,
           conn : Sessions \cup {None}]

NoActor == [pc |-> "over", msg |-> Ping, next |-> "over", left |-> {}, conn |-> None]
NoSender == [pc |-> "over", msg |-> Ping, conn |-> None]
NoPeer == [registered |-> FALSE, topics |-> {}]

TypeOK ==
    /\ program \in Programs
    /\ connected \in BOOLEAN /\ reconnecting \in BOOLEAN /\ done \in BOOLEAN
    /\ Conn \in Sessions \cup {None}
    /\ spawned \in Nat
    /\ subscriptions \subseteq Topics
    /\ queue \in Seq(Message) /\ Len(queue) <= QueueCap
    /\ act \in [Actors -> Actor]
    /\ sender \in [Sessions -> Sender]
    /\ socket \in [Sessions -> {"open", "broken", "closed"}]
    /\ server \in [Sessions -> [registered : BOOLEAN, topics : SUBSET Topics]]

Init ==
    /\ program \in Programs
    /\ connected = FALSE /\ reconnecting = FALSE /\ done = FALSE
    /\ Conn = None
    /\ spawned = 0
    /\ subscriptions = {}
    /\ queue = <<>>
    /\ act = [p \in Actors |-> IF p = App THEN [NoActor EXCEPT !.pc = "dial"] ELSE NoActor]
    /\ sender = [n \in Sessions |-> NoSender]
    /\ socket = [n \in Sessions |-> "closed"]
    /\ server = [n \in Sessions |-> NoPeer]

-----------------------------------------------------------------------------
(* The program counter of an actor, and sending. *)

At(p, label) == act[p].pc = label

Goto(p, label) == act' = [act EXCEPT ![p].pc = label]

\* Where an actor stands between two calls.
Rest(p) == IF p = App THEN "idle" ELSE "callback"

\* The actor calls sendMessage(m) and then goes on at next.
Sending(p, m, next) ==
    act' = [act EXCEPT ![p].pc = "send", ![p].msg = m, ![p].next = next]

\* sendMessage: it waits for room in the queue, or for Done.

\* Mutant: one message too many.
RoomPastCapacity == Len(queue) <= QueueCap

Room == Len(queue) < QueueCap

Send(p) ==
    /\ At(p, "send")
    /\ \/ /\ done
          /\ UNCHANGED queue
       \/ /\ Room
          /\ queue' = Append(queue, act[p].msg)
    /\ act' = [act EXCEPT ![p].pc = act[p].next, ![p].msg = Ping, ![p].next = "over"]
    /\ UNCHANGED <<program, connected, reconnecting, Conn, done, spawned, subscriptions,
                   sender, socket, server>>

\* A connection is over, and the server forgets it.
Ends(n, how) ==
    /\ socket' = [socket EXCEPT ![n] = how]
    /\ server' = [server EXCEPT ![n] = NoPeer]

-----------------------------------------------------------------------------
(* connect, called by NewClient and by reconnect. *)

\* A name is used again when nothing is left of its connection.
Free(n) ==
    /\ At(n, "over") /\ sender[n].pc = "over" /\ socket[n] # "open" /\ Conn # n
    /\ \A p \in Actors : act[p].conn # n
    /\ \A q \in Sessions : sender[q].conn # n

\* The dialer fails.  NewClient leaves it to reconnect, or returns no client.
DialFails(p) ==
    /\ At(p, "dial")
    /\ spawned' = IF p = App /\ Autorestart THEN spawned + 1 ELSE spawned
    /\ Goto(p, IF p # App THEN "check" ELSE IF Autorestart THEN "idle" ELSE "gone")
    /\ UNCHANGED <<program, connected, reconnecting, Conn, done, subscriptions, queue, sender,
                   socket, server>>

\* A new connection replaces client.Conn.
Dial(p) ==
    /\ At(p, "dial")
    /\ SendersEnd => \A n \in Sessions : sender[n].pc = "over"
    /\ \E n \in Sessions :
          /\ Free(n)
          /\ socket' = [socket EXCEPT ![n] = "open"]
          /\ Conn' = n
          /\ act' = [act EXCEPT ![p].pc = "up", ![p].conn = n]
    /\ UNCHANGED <<program, connected, reconnecting, done, spawned, subscriptions, queue,
                   sender, server>>

\* Mutant: only NewClient sends the ping.
UpWithoutPing(p) ==
    /\ At(p, "up")
    /\ connected' = TRUE
    /\ LET n == act[p].conn IN
          /\ act' = [act EXCEPT ![n] = [NoActor EXCEPT !.pc = "loop"],
                                ![p] = IF p = App THEN [NoActor EXCEPT !.pc = "send", !.next = "idle"]
                                       ELSE [NoActor EXCEPT !.pc = "snapshot"]]
          /\ sender' = [sender EXCEPT ![n] = [NoSender EXCEPT !.pc = "select"]]
    /\ UNCHANGED <<program, reconnecting, Conn, done, spawned, subscriptions, queue, socket,
                   server>>

\* connected is set, the two goroutines start, and the ping is sent.
Up(p) ==
    /\ At(p, "up")
    /\ connected' = TRUE
    /\ LET n == act[p].conn IN
          /\ act' = [act EXCEPT ![n] = [NoActor EXCEPT !.pc = "loop"],
                                ![p] = [NoActor EXCEPT !.pc = "send",
                                            !.next = IF p = App THEN "idle" ELSE "snapshot"]]
          /\ sender' = [sender EXCEPT ![n] = [NoSender EXCEPT !.pc = "select"]]
    /\ UNCHANGED <<program, reconnecting, Conn, done, spawned, subscriptions, queue, socket,
                   server>>

Connect(p) == DialFails(p) \/ Dial(p) \/ Up(p)

-----------------------------------------------------------------------------
(* messageHandler *)

\* The checks before a read: Done and connected, then the pointer Conn.
HandlerLoop(n) ==
    /\ At(n, "loop")
    /\ Goto(n, IF done \/ ~connected THEN "over" ELSE "conn")
    /\ UNCHANGED <<program, connected, reconnecting, Conn, done, spawned, subscriptions, queue,
                   sender, socket, server>>

HandlerConn(n) ==
    /\ At(n, "conn")
    /\ act' = [act EXCEPT ![n].pc = IF Conn = None THEN "over" ELSE "read", ![n].conn = Conn]
    /\ UNCHANGED <<program, connected, reconnecting, Conn, done, spawned, subscriptions, queue,
                   sender, socket, server>>

\* The topics the server sends messages of on the handler's connection.
Asked(n) == server[act[n].conn].topics

\* A message arrives.  If it is published on a topic with a subscription, its
\* callback runs in this goroutine; all other messages change nothing.
Read(n) ==
    /\ At(n, "read") /\ socket[act[n].conn] = "open"
    /\ \E label \in {"loop"} \cup {"callback" : t \in subscriptions \cap Asked(n)} :
          act' = [act EXCEPT ![n].pc = label, ![n].conn = None]
    /\ UNCHANGED <<program, connected, reconnecting, Conn, done, spawned, subscriptions, queue,
                   sender, socket, server>>

CallbackReturns(n) ==
    /\ At(n, "callback")
    /\ Goto(n, "loop")
    /\ UNCHANGED <<program, connected, reconnecting, Conn, done, spawned, subscriptions, queue,
                   sender, socket, server>>

\* The read fails: the client is not connected any more, and reconnects.
ReadError(n) ==
    /\ At(n, "read") /\ socket[act[n].conn] # "open"
    /\ connected' = FALSE
    /\ spawned' = IF Autorestart THEN spawned + 1 ELSE spawned
    /\ act' = [act EXCEPT ![n] = NoActor]
    /\ UNCHANGED <<program, reconnecting, Conn, done, subscriptions, queue, sender, socket,
                   server>>

Handler(n) == HandlerLoop(n) \/ HandlerConn(n) \/ ReadError(n)

-----------------------------------------------------------------------------
(* messageSender *)

\* Mutant: the stop channel of the connection is not looked at.
SenderStopOnDone(n) ==
    /\ sender[n].pc = "select" /\ done
    /\ sender' = [sender EXCEPT ![n] = NoSender]
    /\ UNCHANGED <<program, connected, reconnecting, Conn, done, spawned, subscriptions, queue,
                   act, socket, server>>

\* The select of the sender may take a message although its connection is
\* over: then the message may go out on the connection that came after.
SenderStop(n) ==
    /\ sender[n].pc = "select" /\ (done \/ At(n, "over"))
    /\ sender' = [sender EXCEPT ![n] = NoSender]
    /\ UNCHANGED <<program, connected, reconnecting, Conn, done, spawned, subscriptions, queue,
                   act, socket, server>>

SenderTake(n) ==
    /\ sender[n].pc = "select" /\ queue # <<>>
    /\ sender' = [sender EXCEPT ![n].pc = "taken", ![n].msg = Head(queue)]
    /\ queue' = Tail(queue)
    /\ UNCHANGED <<program, connected, reconnecting, Conn, done, spawned, subscriptions, act,
                   socket, server>>

Waiting == [NoSender EXCEPT !.pc = "select"]

\* Without a connection the message is dropped.
SenderCheck(n) ==
    /\ sender[n].pc = "taken"
    /\ sender' = [sender EXCEPT ![n] = IF connected THEN [@ EXCEPT !.pc = "conn"] ELSE Waiting]
    /\ UNCHANGED <<program, connected, reconnecting, Conn, done, spawned, subscriptions, queue,
                   act, socket, server>>

SenderConn(n) ==
    /\ sender[n].pc = "conn"
    /\ sender' = [sender EXCEPT ![n] = IF Conn = None THEN Waiting
                                       ELSE [@ EXCEPT !.pc = "write", !.conn = Conn]]
    /\ UNCHANGED <<program, connected, reconnecting, Conn, done, spawned, subscriptions, queue,
                   act, socket, server>>

\* handlePing, handleSubscribe and handleUnsubscribe of the server: nothing
\* but a ping is accepted from a connection without a client id.
Heard(peer, m) ==
    CASE m.action = "ping" -> [peer EXCEPT !.registered = TRUE]
      [] m.action = "subscribe" /\ peer.registered -> [peer EXCEPT !.topics = @ \cup {m.topic}]
      [] m.action = "unsubscribe" /\ peer.registered -> [peer EXCEPT !.topics = @ \ {m.topic}]
      [] OTHER -> peer

\* The write succeeds.  What is written to a broken connection is lost.
Write(n) ==
    /\ sender[n].pc = "write" /\ socket[sender[n].conn] # "closed"
    /\ LET c == sender[n].conn IN
          server' = IF socket[c] = "open"
                    THEN [server EXCEPT ![c] = Heard(server[c], sender[n].msg)]
                    ELSE server
    /\ sender' = [sender EXCEPT ![n] = Waiting]
    /\ UNCHANGED <<program, connected, reconnecting, Conn, done, spawned, subscriptions, queue,
                   act, socket>>

\* Mutant: the sender reconnects as well.
WriteErrorReconnects(n) ==
    /\ sender[n].pc = "write" /\ socket[sender[n].conn] # "open"
    /\ connected' = FALSE
    /\ spawned' = spawned + 1
    /\ sender' = [sender EXCEPT ![n] = NoSender]
    /\ UNCHANGED <<program, reconnecting, Conn, done, subscriptions, queue, act, socket,
                   server>>

\* The write fails: the sender ends, and leaves reconnecting to the handler.
WriteError(n) ==
    /\ sender[n].pc = "write" /\ socket[sender[n].conn] # "open"
    /\ connected' = FALSE
    /\ sender' = [sender EXCEPT ![n] = NoSender]
    /\ UNCHANGED <<program, reconnecting, Conn, done, spawned, subscriptions, queue, act,
                   socket, server>>

Sends(n) == SenderTake(n) \/ SenderCheck(n) \/ SenderConn(n) \/ Write(n) \/ WriteError(n)

-----------------------------------------------------------------------------
(* The calls of the program, and of callbacks. *)

\* Subscribe: nothing is done without a connection.
Subscribe(p, t) ==
    /\ At(p, Rest(p)) /\ connected
    /\ act' = [act EXCEPT ![p].pc = "add", ![p].msg = [action |-> "subscribe", topic |-> t]]
    /\ UNCHANGED <<program, connected, reconnecting, Conn, done, spawned, subscriptions, queue,
                   sender, socket, server>>

SubscribeAdd(p) ==
    /\ At(p, "add")
    /\ subscriptions' = subscriptions \cup {act[p].msg.topic}
    /\ Sending(p, act[p].msg, Rest(p))
    /\ UNCHANGED <<program, connected, reconnecting, Conn, done, spawned, queue, sender,
                   socket, server>>

\* Unsubscribe: the subscription is deleted, the server told if there is one.
Unsubscribe(p, t) ==
    /\ At(p, Rest(p))
    /\ subscriptions' = subscriptions \ {t}
    /\ act' = [act EXCEPT ![p].pc = "tell", ![p].msg = [action |-> "unsubscribe", topic |-> t]]
    /\ UNCHANGED <<program, connected, reconnecting, Conn, done, spawned, queue, sender,
                   socket, server>>

UnsubscribeTell(p) ==
    /\ At(p, "tell")
    /\ IF connected THEN Sending(p, act[p].msg, Rest(p))
       ELSE act' = [act EXCEPT ![p].pc = Rest(p), ![p].msg = Ping]
    /\ UNCHANGED <<program, connected, reconnecting, Conn, done, spawned, subscriptions, queue,
                   sender, socket, server>>

\* Publish, PublishToID and the other calls that only send a message.
Publish(p) ==
    /\ program.publishes /\ At(p, Rest(p)) /\ connected
    /\ Sending(p, [action |-> "publish", topic |-> None], Rest(p))
    /\ UNCHANGED <<program, connected, reconnecting, Conn, done, spawned, subscriptions, queue,
                   sender, socket, server>>

\* Close, Stop and Shutdown.
Close(p) ==
    /\ program.closes /\ p = App /\ At(p, "idle")
    /\ connected' = FALSE
    /\ Goto(p, "close")
    /\ UNCHANGED <<program, reconnecting, Conn, done, spawned, subscriptions, queue, sender,
                   socket, server>>

CloseDone(p) ==
    /\ At(p, "close")
    /\ done' = TRUE
    /\ Goto(p, "close.conn")
    /\ UNCHANGED <<program, connected, reconnecting, Conn, spawned, subscriptions, queue,
                   sender, socket, server>>

CloseConn(p) ==
    /\ At(p, "close.conn")
    /\ IF Conn = None THEN UNCHANGED <<socket, server>> ELSE Ends(Conn, "closed")
    /\ Conn' = None
    /\ Goto(p, "idle")
    /\ UNCHANGED <<program, connected, reconnecting, done, spawned, subscriptions, queue,
                   sender>>

Call(p) ==
    \/ \E t \in program.topics : Subscribe(p, t)
    \/ \E t \in program.leaves : Unsubscribe(p, t)
    \/ Publish(p) \/ Close(p)

Proceed(p) == SubscribeAdd(p) \/ UnsubscribeTell(p) \/ CloseDone(p) \/ CloseConn(p)

-----------------------------------------------------------------------------
(* reconnect and resubscribeAll *)

\* The compare-and-swap on reconnecting: one goroutine goes on, others return.
Admitted(r) == ~reconnecting /\ At(r, "over")

Enter(r) ==
    /\ spawned > 0 /\ Admitted(r)
    /\ spawned' = spawned - 1
    /\ reconnecting' = TRUE
    /\ Goto(r, "check")
    /\ UNCHANGED <<program, connected, Conn, done, subscriptions, queue, sender, socket,
                   server>>

Refused ==
    /\ spawned > 0 /\ reconnecting
    /\ spawned' = spawned - 1
    /\ UNCHANGED <<program, connected, reconnecting, Conn, done, subscriptions, queue, act,
                   sender, socket, server>>

\* Mutant: a closed client goes on.
CheckConnected(r) ==
    /\ At(r, "check")
    /\ Goto(r, IF connected THEN "release" ELSE "dial")
    /\ UNCHANGED <<program, connected, reconnecting, Conn, done, spawned, subscriptions, queue,
                   sender, socket, server>>

\* The head of the loop; what follows is a sleep, and connect.
Check(r) ==
    /\ At(r, "check")
    /\ Goto(r, IF done \/ connected THEN "release" ELSE "dial")
    /\ UNCHANGED <<program, connected, reconnecting, Conn, done, spawned, subscriptions, queue,
                   sender, socket, server>>

\* resubscribeAll copies the topics, and asks for each one again.
Snapshot(r) ==
    /\ At(r, "snapshot")
    /\ act' = [act EXCEPT ![r].pc = "resub", ![r].left = subscriptions]
    /\ UNCHANGED <<program, connected, reconnecting, Conn, done, spawned, subscriptions, queue,
                   sender, socket, server>>

Resubscribe(r) ==
    /\ At(r, "resub")
    /\ IF act[r].left = {} THEN Goto(r, "release")
       ELSE \E t \in act[r].left :
               act' = [act EXCEPT ![r].pc = "send", ![r].next = "resub",
                                  ![r].msg = [action |-> "subscribe", topic |-> t],
                                  ![r].left = @ \ {t}]
    /\ UNCHANGED <<program, connected, reconnecting, Conn, done, spawned, subscriptions, queue,
                   sender, socket, server>>

Release(r) ==
    /\ At(r, "release")
    /\ reconnecting' = FALSE
    /\ act' = [act EXCEPT ![r] = NoActor]
    /\ UNCHANGED <<program, connected, Conn, done, spawned, subscriptions, queue, sender,
                   socket, server>>

Reconnect(r) == Enter(r) \/ Check(r) \/ Snapshot(r) \/ Resubscribe(r) \/ Release(r)

-----------------------------------------------------------------------------
(* The network, or the server, ends a connection. *)
Break(n) ==
    /\ socket[n] = "open"
    /\ Ends(n, "broken")
    /\ UNCHANGED <<program, connected, reconnecting, Conn, done, spawned, subscriptions, queue,
                   act, sender>>

Next ==
    \/ \E p \in Actors : Connect(p) \/ Send(p)
    \/ \E p \in Callers : Call(p) \/ Proceed(p)
    \/ \E n \in Sessions : Handler(n) \/ Read(n) \/ CallbackReturns(n)
    \/ \E n \in Sessions : SenderStop(n) \/ Sends(n) \/ Break(n)
    \/ \E r \in Reconnectors : Reconnect(r)
    \/ Refused

Spec == Init /\ [][Next]_vars

\* Goroutines go on, the dialer and callbacks return, and a select whose two
\* cases are ready again and again takes each of them: it chooses at random.
\* Nobody has to call, to publish, or to keep a connection open.
FairSpec ==
    /\ Spec
    /\ \A p \in Actors : WF_vars(Connect(p)) /\ WF_vars(Send(p))
    /\ \A p \in Callers : WF_vars(Proceed(p))
    /\ \A n \in Sessions : /\ WF_vars(Handler(n)) /\ SF_vars(CallbackReturns(n))
                           /\ WF_vars(Sends(n)) /\ SF_vars(SenderStop(n))
    /\ WF_vars(Refused \/ \E r \in Reconnectors : Enter(r))
    /\ \A r \in Reconnectors : WF_vars(Reconnect(r))

-----------------------------------------------------------------------------
(* Properties *)

\* A connection is read by one goroutine at a time, and so is the client: the
\* handler of the connection before has ended when the next one starts.
OneReader ==
    \A m, n \in Sessions : ~At(m, "over") /\ ~At(n, "over") => m = n

\* The client is at rest on a working connection.
Settled ==
    /\ connected /\ ~done /\ Conn # None /\ socket[Conn] = "open"
    /\ queue = <<>> /\ spawned = 0
    /\ \A p \in Actors : act[p].pc \in {"idle", "loop", "conn", "read", "over"}
    /\ \A n \in Sessions : sender[n].pc \in {"select", "over"}

\* Whatever connections broke in between, a client at rest is subscribed at the
\* server to every topic it has a local subscription for (of topics that are
\* never left).
SubscriptionsSurvive ==
    Settled => subscriptions \ program.leaves \subseteq server[Conn].topics

\* Under FairSpec.  Close ends every goroutine of the client for good.
Ended ==
    /\ spawned = 0
    /\ \A p \in Sessions \cup Reconnectors : At(p, "over")
    /\ \A n \in Sessions : sender[n].pc = "over"
CloseEndsAll == <>done => <>[]Ended

\* Under FairSpec.  The sender of a connection ends after its handler.
SenderFollowsHandler == \A n \in Sessions : At(n, "over") ~> sender[n].pc = "over"

-----------------------------------------------------------------------------
(* What comments claim and the code does not do. *)

\* Under FairSpec.  "Automatic reconnection": a client that lost its
\* connection dials again, unless it is closed.
KeepsTrying == ~connected ~> connected \/ done \/ \E r \in Reconnectors : At(r, "dial")

\* "Now safe to close the connection": a client that was closed and has come
\* to rest holds no open connection.
ClosedMeansClosed ==
    done /\ Ended /\ At(App, "idle") => \A n \in Sessions : socket[n] # "open"

\* "Envoi non-bloquant de message": a call returns.  Under FairSpec.
SendReturns == At(App, "send") ~> ~At(App, "send")

\* A client at rest is subscribed at the server to its own topics only.
NoForgottenSubscription == Settled => server[Conn].topics \subseteq subscriptions

\* The same as SubscriptionsSurvive, for all topics.
SubscribedIsKnown == Settled => subscriptions \subseteq server[Conn].topics
=============================================================================
