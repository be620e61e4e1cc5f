----------------------------- MODULE WsRegistry -----------------------------
(***************************************************************************)
(* Who is connected and who is subscribed over WebSocket: the sessions of  *)
(* ServerBus (src/ksps/server.go: handlerBusWs, handlePing,                *)
(* handleSubscribe, handleUnsubscribe, cleanupConnection), what they call  *)
(* in the bus (src/ksps/bus.go: registerWebSocket, subscribeWebSocket,     *)
(* unsubscribeWebSocket, cleanupWebSocketClient), and the two calls of the *)
(* program that change the same maps, Unsubscribe(topic) and               *)
(* PublishToIDWithAck.                                                     *)
(*                                                                         *)
(* Four structures under four locks must agree: sb.connections, ps.wsConns *)
(* with its wsConnection objects, ps.wsSubscribers with its wsTopicData    *)
(* objects, and the topics each connection remembers.  A critical section  *)
(* is one action; an actor moves from one to the next by its pc.           *)
(***************************************************************************)
EXTENDS Naturals, FiniteSets

CONSTANTS Sessions,     (* handlers of WebSocket connections, and their sockets  *)
          Clients,      (* client ids                                            *)
          Ids,          (* Ids[s]: the ids the peer of session s pings with      *)
          Topics,       (* topics clients subscribe to                           *)
          Directs,      (* calls of PublishToIDWithAck, and their private topics *)
          Removals,     (* topics the program calls Unsubscribe(topic) on        *)
          Conns,        (* bound: the wsConnection objects memory has room for   *)
          WsTopicDatas, (* bound: the wsTopicData objects memory has room for    *)
          None          (* nil                                                   *)

ASSUME WsAssumption ==
    /\ Ids \in [Sessions -> SUBSET Clients]
    /\ Removals \subseteq Topics
    /\ Topics \cap Directs = {}         (* "__direct_<client>_<time>" is nobody else's *)
    /\ Sessions \cap (({"remove"} \X Removals) \cup ({"direct"} \X Directs)) = {}
    /\ None \notin Sessions \cup Clients \cup Topics \cup Directs \cup Conns \cup WsTopicDatas

VARIABLES
    connections,   (* sb.connections: client -> socket                            *)
    wsConns,       (* ps.wsConns: client -> wsConnection                          *)
    conn,          (* the wsConnection objects                                    *)
    wsSubscribers, (* ps.wsSubscribers: topic -> wsTopicData                      *)
    members,       (* the connections of the wsTopicData objects                  *)
    state,         (* the sockets: open, closing (a goroutine will), closed       *)
    act            (* the actors: where each one stands, and its local variables  *)

vars == <<connections, wsConns, conn, wsSubscribers, members, state, act>>

AllTopics == Topics \cup Directs

\* The goroutine that runs Unsubscribe(t) is told apart from a session by its
\* pair, so is a call of PublishToIDWithAck.
Actors == Sessions \cup ({"remove"} \X Removals) \cup ({"direct"} \X Directs)

Labels == {"read", "list", "leave", "over", "wait", "register", "sub.topic", "sub.register",
           "sub.conn", "sub.join", "sub.mark", "uns.topic", "uns.conn", "uns.forget",
           "uns.leave", "uns.drop", "cl.take", "cl.copy", "cl.topic", "cl.leave", "cl.drop",
           "rm.topic", "rm.forget"}

Actor ==
    [pc : Labels, id : Clients \cup {None},              \* the session's clientID
     client : Clients \cup {None}, socket : Sessions \cup {None}, (* arguments   *)
     topic : AllTopics \cup {None}, ref : WsTopicDatas \cup {None},
     obj : Conns \cup {None}, todo : SUBSET AllTopics, next : Clients \cup {None}]

TypeOK ==
    /\ connections \in [Clients -> Sessions \cup {None}]
    /\ wsConns \in [Clients -> Conns \cup {None}]
    /\ conn \in [Conns -> [client : Clients \cup {None}, socket : Sessions \cup {None},
                           topics : SUBSET AllTopics, active : BOOLEAN]]
    /\ wsSubscribers \in [AllTopics -> WsTopicDatas \cup {None}]
    /\ members \in [WsTopicDatas -> [Clients -> Conns \cup {None}]]
    /\ state \in [Sessions -> {"open", "closing", "closed"}]
    /\ act \in [Actors -> Actor]
    /\ \A p \in Actors :                               \* nil is never dereferenced
          /\ act[p].pc \in {"sub.join", "sub.mark", "uns.forget", "cl.copy"} => act[p].obj # None
          /\ act[p].pc \in {"sub.join", "uns.leave", "cl.leave", "rm.forget"} => act[p].ref # None

At(pc, id) ==
    [pc |-> pc, id |-> id, client |-> None, socket |-> None, topic |-> None, ref |-> None,
     obj |-> None, todo |-> {}, next |-> None]

Init ==
    /\ connections = [c \in Clients |-> None]
    /\ wsConns = [c \in Clients |-> None]
    /\ conn = [k \in Conns |-> [client |-> None, socket |-> None, topics |-> {}, active |-> FALSE]]
    /\ wsSubscribers = [t \in AllTopics |-> None]
    /\ members = [j \in WsTopicDatas |-> [c \in Clients |-> None]]
    /\ state = [s \in Sessions |-> "open"]
    /\ act = [p \in Actors |-> IF p \in Sessions THEN At("read", None) ELSE At("wait", None)]

-----------------------------------------------------------------------------
\* p goes on at pc, with its locals; p is done with what it was called for.
Goto(p, pc) == act' = [act EXCEPT ![p].pc = pc]
Done(p) ==
    act' = [act EXCEPT ![p] =
               IF p \in Sessions THEN At("read", act[p].id)
               ELSE IF p[1] = "direct" /\ act[p].pc \in {"sub.conn", "sub.mark"}
               THEN [act[p] EXCEPT !.pc = "uns.topic", !.ref = None, !.obj = None]
               ELSE At("over", None)]

Members(j) == {c \in Clients : members[j][c] # None}

\* Objects nothing refers to: not allocated yet, or garbage.
FreeTopicDatas ==
    {j \in WsTopicDatas : /\ \A t \in AllTopics : wsSubscribers[t] # j
                          /\ \A p \in Actors : act[p].ref # j}
FreeConns ==
    {k \in Conns : /\ \A c \in Clients : wsConns[c] # k
                   /\ \A p \in Actors : act[p].obj # k
                   /\ \A j \in WsTopicDatas \ FreeTopicDatas, c \in Clients : members[j][c] # k}

-----------------------------------------------------------------------------
(* registerWebSocket(c, s), under wsConnsMu. *)

\* A new object, the same one with another socket (a goroutine closes the old one),
\* or nothing to do.
Register(c, s) ==
    \/ /\ wsConns[c] = None
       /\ \E k \in FreeConns :
             /\ conn' = [conn EXCEPT ![k] =
                            [client |-> c, socket |-> s, topics |-> {}, active |-> TRUE]]
             /\ wsConns' = [wsConns EXCEPT ![c] = k]
       /\ UNCHANGED state
    \/ /\ wsConns[c] # None /\ conn[wsConns[c]].socket # s
       /\ conn' = [conn EXCEPT ![wsConns[c]].socket = s, ![wsConns[c]].active = TRUE]
       /\ LET old == conn[wsConns[c]].socket IN
          state' = [state EXCEPT ![old] = IF @ = "open" THEN "closing" ELSE @]
       /\ UNCHANGED wsConns
    \/ /\ wsConns[c] # None /\ conn[wsConns[c]].socket = s
       /\ UNCHANGED <<wsConns, conn, state>>

-----------------------------------------------------------------------------
(* A session: handlerBusWs reads a message and handles it to its end. *)

\* Mutant: the old id is not cleaned up.
PingOver(p, c) ==
    /\ act[p].pc = "read" /\ state[p] # "closed" /\ c \in Ids[p]
    /\ act' = [act EXCEPT ![p] = [@ EXCEPT !.pc = "register", !.next = c]]
    /\ UNCHANGED <<connections, wsConns, conn, wsSubscribers, members, state>>

\* handlePing: an id that changes is cleaned up first.
Ping(p, c) ==
    /\ act[p].pc = "read" /\ state[p] # "closed" /\ c \in Ids[p]
    /\ act' = [act EXCEPT ![p] =
                  IF act[p].id \notin {None, c}
                  THEN [act[p] EXCEPT !.pc = "cl.take", !.client = act[p].id, !.socket = p,
                                      !.next = c]
                  ELSE [act[p] EXCEPT !.pc = "register", !.next = c]]
    /\ UNCHANGED <<connections, wsConns, conn, wsSubscribers, members, state>>

PingRegister(p) ==
    /\ act[p].pc = "register"
    /\ Register(act[p].next, p)
    /\ act' = [act EXCEPT ![p] = At("list", act[p].next)]
    /\ UNCHANGED <<connections, wsSubscribers, members>>

PingList(p) ==
    /\ act[p].pc = "list"
    /\ connections' = [connections EXCEPT ![act[p].id] = p]
    /\ Done(p)
    /\ UNCHANGED <<wsConns, conn, wsSubscribers, members, state>>

\* handleSubscribe and handleUnsubscribe; pc is the first step of the call.
Handle(p, pc, t) ==
    /\ act[p].pc = "read" /\ state[p] # "closed" /\ act[p].id # None
    /\ act' = [act EXCEPT ![p] = [@ EXCEPT !.pc = pc, !.client = act[p].id,
                                           !.socket = p, !.topic = t]]
    /\ UNCHANGED <<connections, wsConns, conn, wsSubscribers, members, state>>

\* The goroutine registerWebSocket starts for the socket it replaced.
CloseOld(s) ==
    /\ state[s] = "closing"
    /\ state' = [state EXCEPT ![s] = "closed"]
    /\ UNCHANGED <<connections, wsConns, conn, wsSubscribers, members, act>>

\* ReadJSON fails: the peer is gone, or the socket was closed here.
Disconnect(p) ==
    /\ p \in Sessions /\ act[p].pc = "read"
    /\ state' = [state EXCEPT ![p] = "closed"]
    /\ Goto(p, IF act[p].id = None THEN "over" ELSE "leave")
    /\ UNCHANGED <<connections, wsConns, conn, wsSubscribers, members>>

\* Mutant: an entry that is not the session's own ends the cleanup.
LeaveIfListed(p) ==
    /\ act[p].pc = "leave"
    /\ IF connections[act[p].id] = p
       THEN /\ connections' = [connections EXCEPT ![act[p].id] = None]
            /\ act' = [act EXCEPT ![p] = [@ EXCEPT !.pc = "cl.take", !.client = act[p].id,
                                                   !.socket = p]]
       ELSE Goto(p, "over") /\ UNCHANGED connections
    /\ UNCHANGED <<wsConns, conn, wsSubscribers, members, state>>

\* cleanupConnection: only the session's own entry.
Leave(p) ==
    /\ act[p].pc = "leave"
    /\ connections' = IF connections[act[p].id] = p
                      THEN [connections EXCEPT ![act[p].id] = None] ELSE connections
    /\ act' = [act EXCEPT ![p] = [@ EXCEPT !.pc = "cl.take", !.client = act[p].id, !.socket = p]]
    /\ UNCHANGED <<wsConns, conn, wsSubscribers, members, state>>

-----------------------------------------------------------------------------
(* subscribeWebSocket *)

SubTopic(p) ==
    LET t == act[p].topic IN
    /\ act[p].pc = "sub.topic"
    /\ \E j \in WsTopicDatas :
          /\ \/ wsSubscribers[t] = j /\ UNCHANGED <<wsSubscribers, members>>
             \/ /\ wsSubscribers[t] = None /\ j \in FreeTopicDatas
                /\ wsSubscribers' = [wsSubscribers EXCEPT ![t] = j]
                /\ members' = [members EXCEPT ![j] = [c \in Clients |-> None]]
          /\ act' = [act EXCEPT ![p].pc = "sub.register", ![p].ref = j]
    /\ UNCHANGED <<connections, wsConns, conn, state>>

SubRegister(p) ==
    /\ act[p].pc = "sub.register"
    /\ Register(act[p].client, act[p].socket)
    /\ Goto(p, "sub.conn")
    /\ UNCHANGED <<connections, wsSubscribers, members>>

\* Mutant: the connection is not compared with nil.
SubConnUnchecked(p) ==
    /\ act[p].pc = "sub.conn"
    /\ act' = [act EXCEPT ![p].pc = "sub.join", ![p].obj = wsConns[act[p].client]]
    /\ UNCHANGED <<connections, wsConns, conn, wsSubscribers, members, state>>

SubConn(p) ==
    /\ act[p].pc = "sub.conn"
    /\ IF wsConns[act[p].client] = None THEN Done(p)
       ELSE act' = [act EXCEPT ![p].pc = "sub.join", ![p].obj = wsConns[act[p].client]]
    /\ UNCHANGED <<connections, wsConns, conn, wsSubscribers, members, state>>

SubJoin(p) ==
    /\ act[p].pc = "sub.join"
    /\ members' = [members EXCEPT ![act[p].ref][act[p].client] = act[p].obj]
    /\ Goto(p, "sub.mark")
    /\ UNCHANGED <<connections, wsConns, conn, wsSubscribers, state>>

\* Mutant: the connection does not remember the topic.
SubUnmarked(p) ==
    /\ act[p].pc = "sub.mark"
    /\ Done(p)
    /\ UNCHANGED <<connections, wsConns, conn, wsSubscribers, members, state>>

SubMark(p) ==
    /\ act[p].pc = "sub.mark"
    /\ conn' = [conn EXCEPT ![act[p].obj].topics = @ \cup {act[p].topic}]
    /\ Done(p)
    /\ UNCHANGED <<connections, wsConns, wsSubscribers, members, state>>

-----------------------------------------------------------------------------
(* unsubscribeWebSocket, and the end it shares with cleanupWebSocketClient. *)

UnsTopic(p) ==
    LET j == wsSubscribers[act[p].topic] IN
    /\ act[p].pc = "uns.topic"
    /\ IF j = None THEN Done(p)
       ELSE act' = [act EXCEPT ![p].pc = "uns.conn", ![p].ref = j]
    /\ UNCHANGED <<connections, wsConns, conn, wsSubscribers, members, state>>

UnsConn(p) ==
    LET k == wsConns[act[p].client] IN
    /\ act[p].pc = "uns.conn"
    /\ act' = [act EXCEPT ![p].pc = IF k = None THEN "uns.leave" ELSE "uns.forget", ![p].obj = k]
    /\ UNCHANGED <<connections, wsConns, conn, wsSubscribers, members, state>>

UnsForget(p) ==
    /\ act[p].pc = "uns.forget"
    /\ conn' = [conn EXCEPT ![act[p].obj].topics = @ \ {act[p].topic}]
    /\ Goto(p, "uns.leave")
    /\ UNCHANGED <<connections, wsConns, wsSubscribers, members, state>>

\* Mutant: the members are counted before the client leaves.
LeaveAfterCount(p, j, ifLast, otherwise) ==
    /\ members' = [members EXCEPT ![j][act[p].client] = None]
    /\ IF Members(j) = {} THEN Goto(p, ifLast) ELSE otherwise
    /\ UNCHANGED <<connections, wsConns, conn, wsSubscribers, state>>

\* The client leaves the wsTopicData found before; was it the last one?
LeaveTopic(p, j, ifLast, otherwise) ==
    /\ members' = [members EXCEPT ![j][act[p].client] = None]
    /\ IF Members(j) \subseteq {act[p].client} THEN Goto(p, ifLast) ELSE otherwise
    /\ UNCHANGED <<connections, wsConns, conn, wsSubscribers, state>>

UnsLeave(p) == act[p].pc = "uns.leave" /\ LeaveTopic(p, act[p].ref, "uns.drop", Done(p))

\* Under ps.mu: the topic goes if its present wsTopicData is empty now.
DropIfEmpty(t) ==
    wsSubscribers' = IF wsSubscribers[t] # None /\ Members(wsSubscribers[t]) = {}
                     THEN [wsSubscribers EXCEPT ![t] = None] ELSE wsSubscribers

UnsDrop(p) ==
    /\ act[p].pc = "uns.drop"
    /\ DropIfEmpty(act[p].topic)
    /\ Done(p)
    /\ UNCHANGED <<connections, wsConns, conn, members, state>>

-----------------------------------------------------------------------------
(* cleanupWebSocketClient, and what follows it: the new id, or the end. *)

AfterCleanup(p) ==
    act' = [act EXCEPT ![p] = IF act[p].next # None
                              THEN [At("register", act[p].id) EXCEPT !.next = act[p].next]
                              ELSE At("over", None)]

\* Only if the connection still uses the socket that failed.
SameSocket(k, s) == conn[k].socket = s

\* Mutant: the connection stays in ps.wsConns.
CleanInPlace(p) ==
    LET k == wsConns[act[p].client] IN
    /\ act[p].pc = "cl.take"
    /\ IF k # None /\ SameSocket(k, act[p].socket)
       THEN /\ conn' = [conn EXCEPT ![k].active = FALSE]
            /\ act' = [act EXCEPT ![p].pc = "cl.copy", ![p].obj = k]
       ELSE AfterCleanup(p) /\ UNCHANGED conn
    /\ UNCHANGED <<connections, wsConns, wsSubscribers, members, state>>

CleanTake(p) ==
    LET k == wsConns[act[p].client] IN
    /\ act[p].pc = "cl.take"
    /\ IF k # None /\ SameSocket(k, act[p].socket)
       THEN /\ conn' = [conn EXCEPT ![k].active = FALSE]
            /\ wsConns' = [wsConns EXCEPT ![act[p].client] = None]
            /\ act' = [act EXCEPT ![p].pc = "cl.copy", ![p].obj = k]
       ELSE AfterCleanup(p) /\ UNCHANGED <<wsConns, conn>>
    /\ UNCHANGED <<connections, wsSubscribers, members, state>>

CleanCopy(p) ==
    /\ act[p].pc = "cl.copy"
    /\ act' = [act EXCEPT ![p].pc = "cl.topic", ![p].todo = conn[act[p].obj].topics]
    /\ UNCHANGED <<connections, wsConns, conn, wsSubscribers, members, state>>

CleanTopic(p) ==
    /\ act[p].pc = "cl.topic"
    /\ \/ /\ act[p].todo = {}
          /\ AfterCleanup(p)
       \/ \E t \in act[p].todo :
             act' = [act EXCEPT ![p].pc = IF wsSubscribers[t] = None THEN "cl.topic" ELSE "cl.leave",
                                ![p].topic = t, ![p].ref = wsSubscribers[t], ![p].todo = @ \ {t}]
    /\ UNCHANGED <<connections, wsConns, conn, wsSubscribers, members, state>>

CleanLeave(p) ==
    act[p].pc = "cl.leave" /\ LeaveTopic(p, act[p].ref, "cl.drop", Goto(p, "cl.topic"))

CleanDrop(p) ==
    /\ act[p].pc = "cl.drop"
    /\ DropIfEmpty(act[p].topic)
    /\ Goto(p, "cl.topic")
    /\ UNCHANGED <<connections, wsConns, conn, members, state>>

-----------------------------------------------------------------------------
(* The program. *)

\* Unsubscribe(t), its WebSocket part: under ps.mu ...
RemoveTopic(p) ==
    LET t == p[2] IN
    /\ p[1] = "remove" /\ act[p].pc = "wait"
    /\ wsSubscribers[t] # None
    /\ wsSubscribers' = [wsSubscribers EXCEPT ![t] = None]
    /\ act' = [act EXCEPT ![p].pc = "rm.forget", ![p].ref = wsSubscribers[t]]
    /\ UNCHANGED <<connections, wsConns, conn, members, state>>

\* ... then under the lock of the wsTopicData that was removed.
RemoveForget(p) ==
    LET j == act[p].ref IN
    /\ act[p].pc = "rm.forget"
    /\ conn' = [k \in Conns |->
                   IF \E c \in Clients : members[j][c] = k
                   THEN [conn[k] EXCEPT !.topics = @ \ {p[2]}] ELSE conn[k]]
    /\ act' = [act EXCEPT ![p] = At("over", None)]
    /\ UNCHANGED <<connections, wsConns, wsSubscribers, members, state>>

\* PublishToIDWithAck(c): the socket is read from sb.connections, subscribed
\* to a private topic, and unsubscribed again after the timeout.
Direct(p, c) ==
    /\ p[1] = "direct" /\ act[p].pc = "wait"
    /\ connections[c] # None
    /\ act' = [act EXCEPT ![p] = [@ EXCEPT !.pc = "sub.topic", !.client = c,
                                           !.socket = connections[c], !.topic = p[2]]]
    /\ UNCHANGED <<connections, wsConns, conn, wsSubscribers, members, state>>

-----------------------------------------------------------------------------
\* What a call does on its own once it has begun, and what the peers choose.
Subscribing(p) == SubTopic(p) \/ SubRegister(p) \/ SubConn(p) \/ SubJoin(p) \/ SubMark(p)
Unsubscribing(p) ==
    UnsTopic(p) \/ UnsConn(p) \/ UnsForget(p) \/ UnsLeave(p) \/ UnsDrop(p)
Cleaning(p) ==
    Leave(p) \/ CleanTake(p) \/ CleanCopy(p) \/ CleanTopic(p) \/ CleanLeave(p) \/ CleanDrop(p)
Registering(p) == PingRegister(p) \/ PingList(p)

Next ==
    \/ \E p \in Sessions :
          \/ \E c \in Clients : Ping(p, c)
          \/ \E t \in Topics : Handle(p, "sub.topic", t) \/ Handle(p, "uns.topic", t)
          \/ Registering(p) \/ Cleaning(p)
          \/ CloseOld(p) \/ Disconnect(p)
    \/ \E p \in Actors : Subscribing(p) \/ Unsubscribing(p)
    \/ \E p \in {"remove"} \X Removals : RemoveTopic(p) \/ RemoveForget(p)
    \/ \E p \in {"direct"} \X Directs, c \in Clients : Direct(p, c)

Spec == Init /\ [][Next]_vars

\* Goroutines run: a call that has begun goes on to its end, a socket that is
\* being closed gets closed, and reading from a closed socket fails.  Nothing
\* makes a peer send or leave.
FairSpec ==
    /\ Spec
    /\ \A p \in Sessions :
          /\ WF_vars(Registering(p) \/ Cleaning(p) \/ Subscribing(p) \/ Unsubscribing(p))
          /\ WF_vars(CloseOld(p))
          /\ WF_vars(Disconnect(p) /\ state[p] = "closed")

-----------------------------------------------------------------------------
(* Safety. *)

\* A connection in the registry is usable: it is active (so the branch of
\* registerWebSocket that revives an inactive one is never taken), it is its
\* own client's, and so no two clients share one.
RegisteredIsUsable ==
    \A c \in Clients :
        wsConns[c] # None => conn[wsConns[c]].active /\ conn[wsConns[c]].client = c

\* No zombies: the session of the socket of a registered connection has that
\* client's id and is yet to clean it up, however ids are taken over.
RegisteredHasSession ==
    \A c \in Clients : wsConns[c] # None =>
        LET s == conn[wsConns[c]].socket IN
        act[s].id = c /\ act[s].pc \notin {"cl.copy", "cl.topic", "cl.leave", "cl.drop", "over"}

\* When nobody is in the middle of a call, a subscriber of a topic is an
\* active, registered connection: a client that left is in no topic.
Quiet == \A p \in Actors : act[p].pc \in {"read", "over", "wait"}

NoGhostSubscribers ==
    Quiet => \A t \in AllTopics, c \in Clients :
                wsSubscribers[t] # None /\ members[wsSubscribers[t]][c] # None
                    => members[wsSubscribers[t]][c] = wsConns[c]

\* When nobody is in the middle of a call, no empty topic is left: one would
\* stay in ps.wsSubscribers and keep checkTopicEmpty from ever removing the
\* internal side of the topic.
NoEmptyTopics ==
    Quiet => \A t \in AllTopics : wsSubscribers[t] # None => Members(wsSubscribers[t]) # {}

-----------------------------------------------------------------------------
(* Liveness. *)

\* A socket that was closed leaves the registry for good, even if a call of
\* its session was about to put it back.
ClosedIsForgotten ==
    \A s \in Sessions :
        state[s] = "closed"
            ~> [](\A c \in Clients : wsConns[c] # None => conn[wsConns[c]].socket # s)

-----------------------------------------------------------------------------
(* What comments claim and the code does not do. *)

\* "Confirmer la souscription": the topics of a registered connection have it
\* as a member when nobody is in the middle of a call.
SubscribedIsReached ==
    Quiet => \A c \in Clients : wsConns[c] # None =>
                \A t \in conn[wsConns[c]].topics :
                    /\ wsSubscribers[t] # None
                    /\ members[wsSubscribers[t]][c] = wsConns[c]

\* "Ne devrait pas arriver après Register": subscribeWebSocket finds the client
\* it has just registered.
RegisteredIsFound ==
    \A p \in Actors : act[p].pc = "sub.conn" => wsConns[act[p].client] # None

\* "Évite les race-conditions de reconnexion": the cleanup of a connection
\* takes no other connection out of a topic.
CleanupTakesOnlyItsOwn ==
    [][\A p \in Sessions :
          act[p].pc = "cl.leave" /\ act'[p] # act[p]
              => members[act[p].ref][act[p].client] \in {None, act[p].obj}]_vars

\* The same comment of registerWebSocket's takeover ("Reconnexion éclair"): a
\* connection never goes back to a socket that was closed for a newer one.
TakeoverIsFinal ==
    [][\A c \in Clients :
          LET k == wsConns[c] IN
          k # None /\ wsConns'[c] = k /\ conn'[k].socket # conn[k].socket
              => state[conn'[k].socket] = "open"]_vars

\* "Fix ID Leak": sb.connections lists no socket whose session is over.
ListedHasSession ==
    \A c \in Clients : connections[c] # None => act[connections[c]].pc # "over"

\* "Fix Invisible Client": a client whose session waits for messages and
\* whose connection is registered in the bus is listed in sb.connections.
RegisteredIsListed ==
    Quiet => \A c \in Clients : wsConns[c] # None => connections[c] # None
=============================================================================
