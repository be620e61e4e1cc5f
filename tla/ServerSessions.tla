---------------------------- MODULE ServerSessions ----------------------------
(***************************************************************************)
(* A ServerBus (src/ksps/server.go) with its Go clients (client.go), from  *)
(* call to callback: what a client calls goes through its messageQueue, a  *)
(* connection and a session of the server, which publishes, sends, asks    *)
(* for acknowledgments and replies through the BatchWriters of the         *)
(* receivers; their handlers run callbacks, which may publish themselves   *)
(* and whose ends are acknowledged.  Every buffer on the way is bounded,   *)
(* so everybody may come to wait for somebody else.                        *)
(*                                                                         *)
(* A client has one connection here and no two have one id (KspsClient and *)
(* WsRegistry have the rest); a BatchWriter is the queue that FifoWriter   *)
(* specifies; ps.ackRequests has the part of AckRequests that clients see. *)
(***************************************************************************)
EXTENDS Naturals, Sequences, FiniteSets

CONSTANTS Clients,   (* the clients, and their ids                                *)
          Server,    (* sb.ID                                                     *)
          Topics,
          Programs,  (* what the clients do, see Program                          *)
          QueueCap,  (* capacity of a messageQueue (1024 in the code)             *)
          LinkCap,   (* bound: what the network holds in one direction            *)
          RingCap,   (* capacity of the ring of a BatchWriter (16383 in the code) *)
          None

Acked == {"publish_with_ack", "publish_to_id_with_ack"}
Sent == Acked \cup {"subscribe", "unsubscribe", "publish", "direct_message", "publish_to_server"}

\* A topic, the id of a client or of the server, nothing, or a ClientAck: the
\* how-manieth of the client.
Call == [do : {"subscribe", "unsubscribe", "publish", "publish_with_ack"}, about : Topics,
         ack : {0}]
        \cup [do : {"direct_message", "publish_to_id_with_ack"}, about : Clients \cup {Server},
              ack : {0}]
        \cup [do : {"publish_to_server", "Close"}, about : {None}, ack : {0}]
        \cup [do : {"Wait", "WaitAny", "GetStatus", "Cancel"}, about : {None}, ack : Nat \ {0}]

\* calls: the calls of each application, in order.  chats: how many messages its
\* callbacks publish.  fresh: the clients that have yet to be registered.  stops: the
\* program of the server calls Stop.
Program == [calls : [Clients -> Seq(Call)], chats : [Clients -> Nat], fresh : SUBSET Clients,
            stops : BOOLEAN]

ASSUME SessionsAssumption ==
    /\ Programs \subseteq Program
    /\ {QueueCap, LinkCap, RingCap} \subseteq Nat \ {0}
    /\ Server \notin Clients \cup Topics /\ Clients \cap Topics = {}
    /\ None \notin Clients \cup Topics \cup {Server}

VARIABLES
    program,     (* one of Programs; it does not change                           *)
    node,        (* of each client: connected, Done, its sender, its messageQueue *)
    subs,        (* client.subscriptions                                          *)
    chats,       (* how many messages its callbacks may still publish             *)
    acks,        (* its ClientAcks                                                *)
    app, handler,(* its application and its messageHandler                        *)
    answering,   (* goroutines that run a callback and then send the ack          *)
    up, down,    (* the two directions of each connection                         *)
    closed,      (* the ends that have closed each connection                     *)
    session,     (* the sessions of the server                                    *)
    ring,        (* the BatchWriter of each connection                            *)
    wsConns, connections,
    members,     (* the subscribers of each topic                                 *)
    requests,    (* the acknowledgment requests of the bus; a number is an id     *)
    tasks,       (* messages given to the worker pool, and answers of Wait        *)
    stop,        (* how far Stop is, and the connections it still has to close    *)
    panicked,    (* a client has ended with a panic                               *)
    ran          (* history: the callbacks that ended, and how                    *)

local == <<node, subs, chats, acks, app, handler, answering, ran>>
links == <<up, down, closed>>
bus == <<ring, wsConns, connections, members, requests, tasks>>
vars == <<program, local, links, session, bus, stop, panicked>>

Actions == Sent \cup {"ping", "ack", "get_ack_status", "cancel_ack",
                      "pong", "publish_ack", "ack_response", "ack_status", "reply"}
AckId == [by : Clients \cup {Server}, n : Nat]
Answer == [client : Clients \cup {Server}, ok : BOOLEAN]
Message == [action : Actions, about : Topics \cup Clients \cup {Server, None},
            ack : AckId \cup {None}, answers : SUBSET Answer]

Msg(action, about, ack, answers) ==
    [action |-> action, about |-> about, ack |-> ack, answers |-> answers]
Plain(action, about) == Msg(action, about, None, {})
Ping == Plain("ping", None)
Id(by, n) == [by |-> by, n |-> n]

TypeOK ==
    /\ program \in Programs
    /\ node \in [Clients -> [connected : BOOLEAN, done : BOOLEAN, sender : BOOLEAN,
                             queue : Seq(Message)]]
    /\ subs \in [Clients -> SUBSET Topics] /\ chats \in [Clients -> Nat]
    /\ acks \in [Clients -> Seq([client : BOOLEAN, listed : BOOLEAN, cancelled : BOOLEAN,
                                 responses : SUBSET Answer, status : SUBSET Answer,
                                 result : SUBSET Answer])]
    /\ app \in [Clients -> [at : {"idle", "send", "wait", "status", "cancel", "close"},
                            pc : Nat \ {0}, msg : Message]]
    /\ handler \in [Clients -> [at : {"read", "send", "over"}, msg : Message]]
    /\ answering \subseteq [client : Clients, ack : AckId, at : {"callback", "send"}, ok : BOOLEAN]
    /\ up \in [Clients -> Seq(Message)] /\ down \in [Clients -> Seq(Message)]
    /\ closed \in [Clients -> SUBSET {"client", "server"}]
    /\ session \in [Clients -> [at : {"read", "list", "push", "relay", "over"},
                                to : SUBSET Clients, msg : Message, reply : Message \cup {None}]]
    /\ ring \in [Clients -> Seq(Message)] /\ wsConns \subseteq Clients
    /\ connections \subseteq Clients /\ members \in [Topics -> SUBSET Clients]
    /\ requests \in Seq([for : AckId, to : SUBSET (Clients \cup {Server}), listed : BOOLEAN,
                         waiting : BOOLEAN, received : SUBSET Answer])
    /\ tasks \subseteq [to : Clients, msg : Message]
    /\ stop \in [at : {"no", "conns", "bus", "over"}, todo : SUBSET Clients]
    /\ panicked \in BOOLEAN
    /\ ran \subseteq [client : Clients \cup {Server}, ack : AckId, ok : BOOLEAN]

\* NewClient has connected, and registers with a ping.
Init ==
    /\ program \in Programs
    /\ node = [c \in Clients |-> [connected |-> TRUE, done |-> FALSE, sender |-> TRUE,
                                  queue |-> IF c \in program.fresh THEN <<Ping>> ELSE <<>>]]
    /\ subs = [c \in Clients |-> {}] /\ chats = program.chats
    /\ acks = [c \in Clients |-> <<>>]
    /\ app = [c \in Clients |-> [at |-> "idle", pc |-> 1, msg |-> Ping]]
    /\ handler = [c \in Clients |-> [at |-> "read", msg |-> Ping]]
    /\ answering = {} /\ ran = {}
    /\ up = [c \in Clients |-> <<>>] /\ down = [c \in Clients |-> <<>>]
    /\ closed = [c \in Clients |-> {}]
    /\ session = [c \in Clients |-> [at |-> "read", to |-> {}, msg |-> Ping, reply |-> None]]
    /\ ring = [c \in Clients |-> <<>>]
    /\ wsConns = Clients \ program.fresh /\ connections = Clients \ program.fresh
    /\ members = [t \in Topics |-> {}]
    /\ requests = <<>> /\ tasks = {}
    /\ stop = [at |-> "no", todo |-> {}] /\ panicked = FALSE

-----------------------------------------------------------------------------
(* sendMessage, and the goroutine that writes what is queued.                *)

\* It waits for room in the queue, or for Done.
SendMessage(c, m) ==
    /\ node[c].done \/ Len(node[c].queue) < QueueCap
    /\ node' = IF Len(node[c].queue) < QueueCap THEN [node EXCEPT ![c].queue = Append(@, m)]
               ELSE node

SenderWrites(c) ==
    LET q == node[c].queue IN
    /\ node[c].sender /\ ~node[c].done /\ node[c].connected /\ q # <<>> /\ closed[c] = {}
    /\ Len(up[c]) < LinkCap
    /\ up' = [up EXCEPT ![c] = Append(@, Head(q))]
    /\ node' = [node EXCEPT ![c].queue = Tail(q)]
    /\ UNCHANGED <<program, subs, chats, acks, app, handler, answering, ran, down, closed, session,
                   bus, stop, panicked>>

\* A write fails: reconnecting is left to the handler.
SenderFails(c) ==
    LET q == node[c].queue IN
    /\ node[c].sender /\ node[c].connected /\ q # <<>> /\ closed[c] # {}
    /\ node' = [node EXCEPT ![c].queue = Tail(q), ![c].sender = FALSE, ![c].connected = FALSE]
    /\ UNCHANGED <<program, subs, chats, acks, app, handler, answering, ran, links, session, bus,
                   stop, panicked>>

-----------------------------------------------------------------------------
(* messageHandler of client c.                                               *)

Hears(c, actions) ==
    /\ handler[c].at = "read" /\ "client" \notin closed[c]
    /\ down[c] # <<>> /\ Head(down[c]).action \in actions
    /\ down' = [down EXCEPT ![c] = Tail(@)]
    /\ UNCHANGED <<program, node, subs, app, ran, up, closed, session, bus, stop, panicked>>

Says(c, m) == handler' = [handler EXCEPT ![c] = [at |-> "send", msg |-> m]]

\* A publication: the handler runs the callback itself, which may publish.
HearsPublish(c) ==
    /\ Hears(c, {"publish"})
    /\ \/ UNCHANGED <<chats, handler>>
       \/ /\ Head(down[c]).about \in subs[c] /\ chats[c] > 0
          /\ chats' = [chats EXCEPT ![c] = @ - 1]
          /\ Says(c, Plain("publish", Head(down[c]).about))
    /\ UNCHANGED <<acks, answering>>

\* One that asks for an acknowledgment: a goroutine runs the callback, or OnId when
\* the topic was made for this client; without either, the handler says so itself.
HearsPublishAck(c) ==
    LET m == Head(down[c]) IN
    /\ Hears(c, {"publish_ack"})
    /\ \/ /\ m.about \in subs[c] \cup {c}
          /\ answering' = answering \cup
                             {[client |-> c, ack |-> m.ack, at |-> "callback", ok |-> FALSE]}
          /\ UNCHANGED handler
       \/ /\ m.about \notin subs[c] \cup {c}
          /\ Says(c, Msg("ack", None, m.ack, {[client |-> c, ok |-> FALSE]}))
          /\ UNCHANGED answering
    /\ UNCHANGED <<chats, acks>>

\* handleAckResponse and handleAckStatus: nothing is heard of an answer that is
\* empty, which the encoding leaves out, nor of one for which there is no room.
HearsAnswer(c) ==
    LET m == Head(down[c])
        n == m.ack.n
        full == IF m.action = "ack_status" THEN acks[c][n].status # {}
                ELSE acks[c][n].responses # {}
    IN
    /\ Hears(c, {"ack_response", "ack_status"})
    /\ acks' = IF ~acks[c][n].listed \/ acks[c][n].cancelled \/ full THEN acks
               ELSE IF m.action = "ack_status" THEN [acks EXCEPT ![c][n].status = m.answers]
               ELSE [acks EXCEPT ![c][n].responses = m.answers]
    /\ UNCHANGED <<chats, handler, answering>>

\* Confirmations, and direct messages, which are given to OnId.
HearsOther(c) ==
    /\ Hears(c, {"pong", "direct_message", "reply"})
    /\ UNCHANGED <<chats, acks, handler, answering>>

HandlerSends(c) ==
    /\ handler[c].at = "send" /\ SendMessage(c, handler[c].msg)
    /\ handler' = [handler EXCEPT ![c] = [at |-> "read", msg |-> Ping]]
    /\ UNCHANGED <<program, subs, chats, acks, app, answering, ran, links, session, bus, stop,
                   panicked>>

\* It cannot read any more, and the sender ends with it.
HandlerEnds(c) ==
    /\ handler[c].at = "read" /\ (closed[c] # {} \/ node[c].done \/ ~node[c].connected)
    /\ handler' = [handler EXCEPT ![c].at = "over"]
    /\ node' = [node EXCEPT ![c].connected = FALSE, ![c].sender = FALSE]
    /\ UNCHANGED <<program, subs, chats, acks, app, answering, ran, links, session, bus, stop,
                   panicked>>

\* Mutant: the deferred function does not learn of the panic.
NoPanicSeen(ok) == TRUE

\* What is acknowledged of a callback that returned (ok) or panicked.
Outcome(ok) == ok

\* The callback of an acknowledged message ends; then the ack is sent.
CallbackEnds(x, ok) ==
    /\ x.at = "callback"
    /\ ran' = ran \cup {[client |-> x.client, ack |-> x.ack, ok |-> ok]}
    /\ answering' = (answering \ {x}) \cup {[x EXCEPT !.at = "send", !.ok = Outcome(ok)]}
    /\ UNCHANGED <<program, node, subs, chats, acks, app, handler, links, session, bus, stop,
                   panicked>>

AckIsSent(x) ==
    /\ x.at = "send"
    /\ SendMessage(x.client, Msg("ack", None, x.ack, {[client |-> x.client, ok |-> x.ok]}))
    /\ answering' = answering \ {x}
    /\ UNCHANGED <<program, subs, chats, acks, app, handler, ran, links, session, bus, stop,
                   panicked>>

-----------------------------------------------------------------------------
(* The calls of an application.                                              *)

Now(c) == program.calls[c][app[c].pc]

Calls(c, what) ==
    /\ app[c].at = "idle" /\ app[c].pc <= Len(program.calls[c]) /\ Now(c).do \in what
    /\ UNCHANGED <<program, chats, handler, answering, ran, links, session, bus, stop>>

Returns(c) == app' = [app EXCEPT ![c].at = "idle", ![c].pc = @ + 1]
Sending(c, m) == app' = [app EXCEPT ![c].at = "send", ![c].msg = m]

\* Subscribe, Unsubscribe, Publish, PublishToID, PublishToServer: nothing is said
\* without a connection.
CallSimple(c) ==
    LET do == Now(c).do about == Now(c).about IN
    /\ Calls(c, Sent \ Acked)
    /\ subs' = IF do = "subscribe" /\ node[c].connected THEN [subs EXCEPT ![c] = @ \cup {about}]
               ELSE IF do = "unsubscribe" THEN [subs EXCEPT ![c] = @ \ {about}]
               ELSE subs
    /\ IF node[c].connected THEN Sending(c, Plain(do, about)) ELSE Returns(c)
    /\ UNCHANGED <<node, acks, panicked>>

\* PublishWithAck and PublishToIDWithAck: without a connection the ClientAck has no
\* client, and no channels.
CallAcked(c) ==
    LET ack == [client |-> node[c].connected, listed |-> node[c].connected, cancelled |-> FALSE,
                responses |-> {}, status |-> {}, result |-> {}] IN
    /\ Calls(c, Acked)
    /\ acks' = [acks EXCEPT ![c] = Append(@, ack)]
    /\ IF node[c].connected
       THEN Sending(c, Msg(Now(c).do, Now(c).about, Id(c, Len(acks[c]) + 1), {}))
       ELSE Returns(c)
    /\ UNCHANGED <<node, subs, panicked>>

AppSends(c) ==
    /\ app[c].at = "send" /\ SendMessage(c, app[c].msg)
    /\ IF app[c].msg.action = "get_ack_status" THEN app' = [app EXCEPT ![c].at = "status"]
       ELSE IF app[c].msg.action = "cancel_ack" THEN app' = [app EXCEPT ![c].at = "cancel"]
       ELSE Returns(c)
    /\ UNCHANGED <<program, subs, chats, acks, handler, answering, ran, links, session, bus, stop,
                   panicked>>

Mine(c) == acks[c][Now(c).ack]

\* Wait and WaitAny.
CallWait(c) ==
    /\ Calls(c, {"Wait", "WaitAny"})
    /\ IF Mine(c).cancelled THEN Returns(c) ELSE app' = [app EXCEPT ![c].at = "wait"]
    /\ UNCHANGED <<node, subs, acks, panicked>>

WaitReturns(c) ==
    LET n == Now(c).ack IN
    /\ app[c].at = "wait" /\ Mine(c).responses # {}
    /\ \E got \in IF Now(c).do = "Wait" THEN {Mine(c).responses}
                   ELSE {{r} : r \in Mine(c).responses} :
          acks' = [acks EXCEPT ![c][n].responses = {}, ![c][n].result = got]
    /\ Returns(c)
    /\ UNCHANGED <<program, node, subs, chats, handler, answering, ran, links, session, bus, stop,
                   panicked>>

\* Cancel: cancelled, then cancel_ack is sent, then the ClientAck is taken out.
\* One that has no client cannot send.
Cancels(c) ==
    /\ acks' = [acks EXCEPT ![c][Now(c).ack].cancelled = TRUE]
    /\ Sending(c, Msg("cancel_ack", None, Id(c, Now(c).ack), {}))
    /\ panicked' = ~Mine(c).client

WaitTimeout(c) ==
    /\ app[c].at = "wait" /\ Cancels(c)
    /\ UNCHANGED <<program, node, subs, chats, handler, answering, ran, links, session, bus, stop>>

CallCancel(c) ==
    /\ Calls(c, {"Cancel"})
    /\ IF Mine(c).cancelled THEN Returns(c) /\ UNCHANGED <<acks, panicked>> ELSE Cancels(c)
    /\ UNCHANGED <<node, subs>>

CancelEnds(c) ==
    /\ app[c].at = "cancel" /\ acks' = [acks EXCEPT ![c][Now(c).ack].listed = FALSE]
    /\ Returns(c)
    /\ UNCHANGED <<program, node, subs, chats, handler, answering, ran, links, session, bus, stop,
                   panicked>>

CallGetStatus(c) ==
    /\ Calls(c, {"GetStatus"})
    /\ IF Mine(c).cancelled THEN Returns(c)
       ELSE Sending(c, Msg("get_ack_status", None, Id(c, Now(c).ack), {}))
    /\ panicked' = (~Mine(c).cancelled /\ ~Mine(c).client)
    /\ UNCHANGED <<node, subs, acks>>

\* The status, or two seconds later nothing.
StatusReturns(c) ==
    /\ app[c].at = "status" /\ Returns(c)
    /\ acks' = [acks EXCEPT ![c][Now(c).ack].status = {}]
    /\ UNCHANGED <<program, node, subs, chats, handler, answering, ran, links, session, bus, stop,
                   panicked>>

\* Close, and its copies Stop and Shutdown: the goroutines are told, then the
\* connection is closed.
CallClose(c) ==
    /\ Calls(c, {"Close"}) /\ node' = [node EXCEPT ![c].connected = FALSE, ![c].done = TRUE]
    /\ app' = [app EXCEPT ![c].at = "close"]
    /\ UNCHANGED <<subs, acks, panicked>>

CloseEnds(c) ==
    /\ app[c].at = "close" /\ (Len(up[c]) < LinkCap \/ closed[c] # {})
    /\ closed' = [closed EXCEPT ![c] = @ \cup {"client"}] /\ Returns(c)
    /\ UNCHANGED <<program, node, subs, chats, acks, handler, answering, ran, up, down, session,
                   bus, stop, panicked>>

-----------------------------------------------------------------------------
(* sendToWebSocket, sendResponse, and the BatchWriter of a connection.       *)

Room(c) == Len(ring[c]) < RingCap

\* Mutant: a publisher waits for room for as long as it takes.
Patient(c) == FALSE

\* Send tries a number of times, then it drops the message.
GivesUp(c) == ~Room(c)

SendToWebSocket(c, m) ==
    /\ c \in wsConns => Room(c) \/ GivesUp(c)
    /\ ring' = IF c \in wsConns /\ Room(c) THEN [ring EXCEPT ![c] = Append(@, m)] ELSE ring

\* A client that is not in wsConns is written to in place.
SendResponse(c, m) ==
    /\ stop.at # "bus"
    /\ \/ c \in wsConns /\ SendToWebSocket(c, m) /\ UNCHANGED down
       \/ c \notin wsConns /\ closed[c] # {} /\ UNCHANGED <<ring, down>>
       \/ /\ c \notin wsConns /\ closed[c] = {} /\ Len(down[c]) < LinkCap
          /\ down' = [down EXCEPT ![c] = Append(@, m)] /\ UNCHANGED ring

WriterWrites(c) ==
    /\ ring[c] # <<>>
    /\ \/ /\ closed[c] # {} /\ ring' = [ring EXCEPT ![c] = <<>>] /\ UNCHANGED down
       \/ /\ closed[c] = {} /\ Len(down[c]) < LinkCap
          /\ ring' = [ring EXCEPT ![c] = Tail(@)]
          /\ down' = [down EXCEPT ![c] = Append(@, Head(ring[c]))]
    /\ UNCHANGED <<program, local, up, closed, session, wsConns, connections, members, requests,
                   tasks, stop, panicked>>

-----------------------------------------------------------------------------
(* handleBusActions: the session of client c handles a message to its end    *)
(* before it reads the next.                                                 *)

Receives(c, actions) ==
    /\ session[c].at = "read" /\ up[c] # <<>> /\ Head(up[c]).action \in actions
    /\ "server" \notin closed[c]
    /\ up' = [up EXCEPT ![c] = Tail(@)]
    /\ UNCHANGED <<program, local, down, closed, ring, stop, panicked>>

Reading == [at |-> "read", to |-> {}, msg |-> Ping, reply |-> None]

\* The session sends m to the clients in to, one after the other, then a reply.
Pushes(c, to, m, reply) ==
    session' = [session EXCEPT ![c] = [at |-> "push", to |-> to, msg |-> m, reply |-> reply]]
Replies(c, reply) == Pushes(c, {}, Ping, reply)
Confirms(c) == Replies(c, Plain("reply", None))
Goto(c, at) == session' = [session EXCEPT ![c].at = at]

\* handlePing: the bus knows the client first, then sb.connections does.
ReceivesPing(c) ==
    /\ Receives(c, {"ping"}) /\ stop.at # "bus"
    /\ wsConns' = wsConns \cup {c}
    /\ Goto(c, "list")
    /\ UNCHANGED <<connections, members, requests, tasks>>

PingLists(c) ==
    /\ session[c].at = "list" /\ stop.at # "conns"
    /\ connections' = connections \cup {c}
    /\ Replies(c, Plain("pong", None))
    /\ UNCHANGED <<program, local, links, ring, wsConns, members, requests, tasks, stop, panicked>>

\* handleSubscribe and handleUnsubscribe.
ReceivesSubscribe(c) ==
    LET m == Head(up[c]) IN
    /\ Receives(c, {"subscribe", "unsubscribe"})
    /\ members' = [members EXCEPT ![m.about] =
                      IF m.action = "subscribe" THEN @ \cup {c} ELSE @ \ {c}]
    /\ Confirms(c)
    /\ UNCHANGED <<wsConns, connections, requests, tasks>>

\* handlePublish, and handleDirectMessage: the server itself has OnId.
ReceivesPublish(c) ==
    LET m == Head(up[c]) IN
    /\ Receives(c, {"publish", "direct_message"})
    /\ IF m.action = "publish" THEN Pushes(c, members[m.about], m, Plain("reply", None))
       ELSE stop.at # "bus" /\ Pushes(c, {m.about} \cap wsConns, m, None)
    /\ UNCHANGED <<wsConns, connections, members, requests, tasks>>

Push(c) ==
    /\ session[c].at = "push"
    /\ \E d \in session[c].to :
          /\ SendToWebSocket(d, session[c].msg)
          /\ session' = [session EXCEPT ![c].to = @ \ {d}]
    /\ UNCHANGED <<program, local, links, wsConns, connections, members, requests, tasks, stop,
                   panicked>>

Reply(c) ==
    /\ session[c].at = "push" /\ session[c].to = {}
    /\ IF session[c].reply = None THEN UNCHANGED <<ring, down>>
       ELSE SendResponse(c, session[c].reply)
    /\ session' = [session EXCEPT ![c] = Reading]
    /\ UNCHANGED <<program, local, up, closed, wsConns, connections, members, requests, tasks, stop,
                   panicked>>

\* handlePublishToServer dials the other server and waits until it has sent.
ReceivesRelay(c) ==
    /\ Receives(c, {"publish_to_server"}) /\ Goto(c, "relay")
    /\ UNCHANGED <<wsConns, connections, members, requests, tasks>>

RelayEnds(c) ==
    /\ session[c].at = "relay" /\ Confirms(c)
    /\ UNCHANGED <<program, local, links, bus, stop, panicked>>

\* publishWithAck: the bus has an id of its own for the request that the client calls
\* m.ack.  Submitted tasks are refused once the bus is closed.
Asks(m, to, listed) ==
    /\ requests' = Append(requests, [for |-> m.ack, to |-> to, listed |-> listed, waiting |-> TRUE,
                                     received |-> {}])
    /\ tasks' = IF stop.at \in {"bus", "over"} THEN tasks
                ELSE tasks \cup {[to |-> d, msg |-> Msg("publish_ack", m.about,
                                                      Id(Server, Len(requests) + 1), {})] :
                                 d \in to \ {Server}}

\* handlePublishWithAck and handlePublishToIDWithAck: a client that is not connected
\* is not asked.
ReceivesAcked(c) ==
    LET m == Head(up[c]) IN
    /\ Receives(c, Acked)
    /\ \/ m.action = "publish_with_ack" /\ Asks(m, members[m.about], TRUE)
       \/ m.action = "publish_to_id_with_ack" /\ m.about = Server /\ Asks(m, {Server}, TRUE)
       \/ /\ m.action = "publish_to_id_with_ack" /\ m.about # Server /\ stop.at # "conns"
          /\ Asks(m, {m.about} \cap connections, m.about \in connections)
    /\ UNCHANGED <<session, wsConns, connections, members>>

\* The request an ack is for.
Meant(id) == {k \in DOMAIN requests : requests[k].listed /\ id = Id(Server, k)}

\* handleAck, under the id of the session.
ReceivesAck(c) ==
    LET m == Head(up[c]) IN
    /\ Receives(c, {"ack"})
    /\ requests' = [k \in DOMAIN requests |->
                       IF k \in Meant(m.ack)
                       THEN [requests[k] EXCEPT !.received =
                                @ \cup {[r EXCEPT !.client = c] : r \in m.answers}]
                       ELSE requests[k]]
    /\ UNCHANGED <<session, wsConns, connections, members, tasks>>

\* GetStatus: who was asked, and whether they have answered.
Status(id) ==
    LET asked == UNION {requests[k].to : k \in Meant(id)}
        received == UNION {requests[k].received : k \in Meant(id)}
    IN  {[client |-> d, ok |-> \E r \in received : r.client = d] : d \in asked}

\* handleGetAckStatus and handleCancelAck look the client's id up.
ReceivesQuestion(c) ==
    LET m == Head(up[c]) IN
    /\ Receives(c, {"get_ack_status", "cancel_ack"})
    /\ requests' = [k \in DOMAIN requests |->
                       IF m.action = "cancel_ack" /\ k \in Meant(m.ack)
                       THEN [requests[k] EXCEPT !.listed = FALSE] ELSE requests[k]]
    /\ Replies(c, IF m.action = "cancel_ack" THEN Msg("reply", None, m.ack, {})
                  ELSE Msg("ack_status", None, m.ack, Status(m.ack)))
    /\ UNCHANGED <<wsConns, connections, members, tasks>>

Without(c) == [t \in Topics |-> members[t] \ {c}]

\* The connection is over: cleanupConnection.
SessionEnds(c) ==
    /\ session[c].at = "read" /\ closed[c] # {} /\ stop.at \notin {"conns", "bus"}
    /\ closed' = [closed EXCEPT ![c] = @ \cup {"server"}]
    /\ connections' = connections \ {c} /\ wsConns' = wsConns \ {c} /\ members' = Without(c)
    /\ Goto(c, "over")
    /\ UNCHANGED <<program, local, up, down, ring, requests, tasks, stop, panicked>>

-----------------------------------------------------------------------------
(* The goroutines of the bus.                                                *)

\* A worker sends a publication, or a goroutine of a session what Wait returned.
TaskRuns(x) ==
    /\ IF x.msg.action = "ack_response" THEN SendResponse(x.to, x.msg)
       ELSE SendToWebSocket(x.to, x.msg) /\ UNCHANGED down
    /\ tasks' = tasks \ {x}
    /\ UNCHANGED <<program, local, up, closed, session, wsConns, connections, members, requests,
                   stop, panicked>>

\* The workers leave what is in their channels when the bus is closed.
TaskIsLeft(x) ==
    /\ stop.at \in {"bus", "over"} /\ x.msg.action # "ack_response" /\ tasks' = tasks \ {x}
    /\ UNCHANGED <<program, local, links, session, ring, wsConns, connections, members, requests,
                   stop, panicked>>

\* The temporary subscriber of the server itself: OnId, then handleAck.
ServerAnswers(k) ==
    /\ Server \in requests[k].to /\ requests[k].listed /\ requests[k].received = {}
    /\ stop.at \in {"no", "conns"}
    /\ ran' = ran \cup {[client |-> Server, ack |-> Id(Server, k), ok |-> TRUE]}
    /\ requests' = [requests EXCEPT ![k].received = {[client |-> Server, ok |-> TRUE]}]
    /\ UNCHANGED <<program, node, subs, chats, acks, app, handler, answering, links, session, ring,
                   wsConns, connections, members, tasks, stop, panicked>>

\* Wait of the bus returns with some of the answers: because they are all there, its
\* timeout is over or the cleanup worker has closed its channel (AckRequests).  The
\* goroutine that waited has to send them to the client.
WaitEnds(k) ==
    LET r == requests[k] IN
    /\ r.waiting
    /\ requests' = [requests EXCEPT ![k].waiting = FALSE, ![k].listed = FALSE, ![k].received = {}]
    /\ \E got \in SUBSET r.received :
          tasks' = tasks \cup {[to |-> r.for.by, msg |-> Msg("ack_response", None, r.for, got)]}
    /\ UNCHANGED <<program, local, links, session, ring, wsConns, connections, members, stop,
                   panicked>>

-----------------------------------------------------------------------------
(* Stop: closeAllConnections holds connMu, Bus.Close holds wsConnsMu.        *)

StopBegins ==
    /\ program.stops /\ stop.at = "no" /\ stop' = [at |-> "conns", todo |-> connections]
    /\ UNCHANGED <<program, local, links, session, bus, panicked>>

\* A close message is written, which may wait; then the connection is closed.
StopCloses(c) ==
    /\ stop.at = "conns" /\ c \in stop.todo /\ (closed[c] # {} \/ Len(down[c]) < LinkCap)
    /\ closed' = [closed EXCEPT ![c] = @ \cup {"server"}]
    /\ wsConns' = wsConns \ {c} /\ members' = Without(c)
    /\ stop' = [stop EXCEPT !.todo = @ \ {c}]
    /\ UNCHANGED <<program, local, up, down, session, ring, connections, requests, tasks, panicked>>

StopClosesBus ==
    /\ stop.at = "conns" /\ stop.todo = {}
    /\ connections' = {} /\ stop' = [at |-> "bus", todo |-> wsConns]
    /\ UNCHANGED <<program, local, links, session, ring, wsConns, members, requests, tasks,
                   panicked>>

\* closeAllWebSocketConnections waits for each BatchWriter to drain.
StopDrains(c) ==
    /\ stop.at = "bus" /\ c \in stop.todo /\ ring[c] = <<>>
    /\ wsConns' = wsConns \ {c} /\ stop' = [stop EXCEPT !.todo = @ \ {c}]
    /\ UNCHANGED <<program, local, links, session, ring, connections, members, requests, tasks,
                   panicked>>

StopEnds ==
    /\ stop.at = "bus" /\ stop.todo = {} /\ stop' = [stop EXCEPT !.at = "over"]
    /\ UNCHANGED <<program, local, links, session, bus, panicked>>

-----------------------------------------------------------------------------
SenderStep(c) == SenderWrites(c) \/ SenderFails(c)

HandlerStep(c) == \/ HearsPublish(c) \/ HearsPublishAck(c) \/ HearsAnswer(c) \/ HearsOther(c)
                  \/ HandlerSends(c) \/ HandlerEnds(c)

AnswerStep(x) == (\E ok \in BOOLEAN : CallbackEnds(x, ok)) \/ AckIsSent(x)

CallBegins(c) == \/ CallSimple(c) \/ CallAcked(c) \/ CallWait(c) \/ CallCancel(c)
                 \/ CallGetStatus(c) \/ CallClose(c)

\* The steps of a call that has begun.
CallStep(c) == \/ AppSends(c) \/ WaitReturns(c) \/ WaitTimeout(c) \/ CancelEnds(c)
               \/ StatusReturns(c) \/ CloseEnds(c)

SessionStep(c) == \/ ReceivesPing(c) \/ PingLists(c) \/ ReceivesSubscribe(c) \/ ReceivesPublish(c)
                  \/ Push(c) \/ Reply(c) \/ ReceivesRelay(c) \/ RelayEnds(c) \/ ReceivesAcked(c)
                  \/ ReceivesAck(c) \/ ReceivesQuestion(c) \/ SessionEnds(c)

RequestStep(k) == ServerAnswers(k) \/ WaitEnds(k)

StopStep == (\E c \in Clients : StopCloses(c) \/ StopDrains(c)) \/ StopClosesBus \/ StopEnds

Next == /\ ~panicked
        /\ \/ \E c \in Clients : \/ SenderStep(c) \/ HandlerStep(c) \/ CallBegins(c)
                                 \/ CallStep(c) \/ SessionStep(c) \/ WriterWrites(c)
           \/ \E x \in answering : AnswerStep(x)
           \/ \E x \in tasks : TaskRuns(x) \/ TaskIsLeft(x)
           \/ \E k \in DOMAIN requests : RequestStep(k)
           \/ StopBegins \/ StopStep

Spec == Init /\ [][Next]_vars

\* Every goroutine that is not blocked goes on, callbacks end, time passes; nobody is
\* obliged to begin a call.
FairSpec ==
    /\ Spec
    /\ \A c \in Clients : /\ WF_vars(~panicked /\ SenderStep(c))
                          /\ WF_vars(~panicked /\ HandlerStep(c))
                          /\ WF_vars(~panicked /\ CallStep(c))
                          /\ WF_vars(~panicked /\ SessionStep(c))
                          /\ WF_vars(~panicked /\ WriterWrites(c))
    /\ WF_vars(~panicked /\ \E x \in answering : AnswerStep(x))
    /\ WF_vars(~panicked /\ \E x \in tasks : TaskRuns(x))
    /\ WF_vars(~panicked /\ StopStep)

-----------------------------------------------------------------------------
(* Properties.                                                               *)

\* What a client is told of its own request is what happened: who is said to have
\* succeeded has run the callback for this message to its end, and who is said to
\* have failed has not (client.go:360-391, server.go:551-594, 731-796).
AnswersAreGenuine ==
    \A c \in Clients : \A n \in DOMAIN acks[c] :
    \A r \in acks[c][n].responses \cup acks[c][n].result :
        r.ok <=> \E k \in DOMAIN requests :
                    /\ requests[k].for = Id(c, n)
                    /\ [client |-> r.client, ack |-> Id(Server, k), ok |-> TRUE] \in ran

\* As long as the server is not stopped nobody waits for ever for somebody who waits
\* for him: not a handler whose callback publishes, nor a call of an application, nor
\* a session that publishes (client.go:612-622, batch.go:105-151).
EverybodyGoesOn ==
    \A c \in Clients :
        /\ handler[c].at = "send" ~> (handler[c].at # "send" \/ stop.at # "no")
        /\ app[c].at # "idle" ~> (app[c].at = "idle" \/ stop.at # "no")
        /\ session[c].at = "push" ~> (session[c].at # "push" \/ stop.at # "no")

-----------------------------------------------------------------------------
(* What is claimed of the code and does not hold.                            *)

\* "GetStatus() - Real-time status" (ksps/README.md:175): the answer to it says
\* something of a request that is waited for.
StatusIsKnown ==
    \A c \in Clients : \A k \in DOMAIN requests :
        /\ session[c].reply # None /\ session[c].reply.action = "ack_status"
        /\ requests[k].for = session[c].reply.ack /\ requests[k].waiting /\ requests[k].to # {}
        => session[c].reply.answers # {}

\* handleCancelAck confirms that it has cancelled the request (server.go:851-858).
CancelIsMeant ==
    \A c \in Clients : \A k \in DOMAIN requests :
        /\ session[c].reply # None /\ session[c].reply.action = "reply"
        /\ requests[k].for = session[c].reply.ack
        => ~requests[k].listed

\* No call ends the program of a client.
NoPanic == ~panicked

\* "Stop stop the server and close all connection" (server.go:287).
StopReturns == stop.at = "conns" ~> (stop.at = "over" \/ panicked)
=============================================================================
