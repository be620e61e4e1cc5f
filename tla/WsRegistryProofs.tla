-------------------------- MODULE WsRegistryProofs --------------------------
(***************************************************************************)
(* Proofs about WsRegistry, for any number of sessions, clients, topics    *)
(* and objects, and whatever ids the peers use.                            *)
(*                                                                         *)
(* Every step moves at most one actor and does one of three things to the  *)
(* registry: it registers a socket, takes a connection out, or leaves both *)
(* the map and what identifies a connection alone (lemma RegistryStep).    *)
(* That a registered connection has a live session needs more, SessionInv: *)
(* a session whose cleanup has passed its first step, or that is about to  *)
(* take a new id, has nothing in the registry.                             *)
(*                                                                         *)
(* What holds when no call is under way (no empty topic stays, no client   *)
(* that left is in a topic) needs to know, of every intermediate state,    *)
(* which actor will put it right: an empty topic has an actor that is to   *)
(* fill it or drop it (EmptyIsMinded), a member has the session that will  *)
(* take it out (MembersMinded), a private topic its own call (PrivateOK).  *)
(***************************************************************************)
EXTENDS WsRegistry, TLAPS

InSubscribe == {"sub.topic", "sub.register", "sub.conn", "sub.join", "sub.mark"}
InUnsubscribe == {"uns.topic", "uns.conn", "uns.forget", "uns.leave", "uns.drop"}
InCleanup == {"cl.take", "cl.copy", "cl.topic", "cl.leave", "cl.drop"}

\* What an actor needs at its next step has been set.
LocalsSet(r) ==
    /\ r.pc \in InSubscribe \cup InUnsubscribe \cup InCleanup => r.client \in Clients
    /\ r.pc \in InSubscribe \cup {"cl.take"} => r.socket \in Sessions
    /\ r.pc \in InSubscribe \cup InUnsubscribe \cup {"cl.leave", "cl.drop"}
          => r.topic \in AllTopics
    /\ r.pc \in {"sub.register", "sub.conn", "sub.join", "uns.conn", "uns.forget", "uns.leave",
                 "cl.leave", "rm.forget"} => r.ref \in WsTopicDatas
    /\ r.pc \in {"sub.join", "sub.mark", "uns.forget", "cl.copy"} => r.obj \in Conns
    /\ r.pc = "register" => r.next \in Clients
    /\ r.pc \in {"list", "leave"} => r.id \in Clients

ActorsOK == act \in [Actors -> Actor] /\ \A p \in Actors : LocalsSet(act[p])

Connection == [client : Clients \cup {None}, socket : Sessions \cup {None},
               topics : SUBSET AllTopics, active : BOOLEAN]

\* A registered connection has a socket.
RegistryOK ==
    /\ wsConns \in [Clients -> Conns \cup {None}]
    /\ conn \in [Conns -> Connection]
    /\ \A c \in Clients : wsConns[c] # None => conn[wsConns[c]].socket \in Sessions

TopicsOK ==
    /\ wsSubscribers \in [AllTopics -> WsTopicDatas \cup {None}]
    /\ members \in [WsTopicDatas -> [Clients -> Conns \cup {None}]]

SocketsOK ==
    /\ connections \in [Clients -> Sessions \cup {None}]
    /\ state \in [Sessions -> {"open", "closing", "closed"}]

TypeInv == ActorsOK /\ RegistryOK /\ TopicsOK /\ SocketsOK

\* The session of p has nothing in the registry.
Absent(p) == \A c \in Clients : wsConns[c] # None => conn[wsConns[c]].socket # p

\* The calls of a session are made for its own id and its own socket; after
\* the first step of its cleanup, and when it is about to take a new id, none
\* of its connections is registered.
SessionOK(p, r) ==
    /\ r.pc \in InSubscribe \cup InUnsubscribe \cup InCleanup => r.client = r.id
    /\ r.pc \in InSubscribe \cup InCleanup => r.socket = p
    /\ r.pc \in {"cl.copy", "cl.topic", "cl.leave", "cl.drop", "over"} => Absent(p)
    /\ r.pc = "register" /\ r.next # r.id => Absent(p)

SessionInv ==
    /\ \A p \in Sessions : SessionOK(p, act[p])
    /\ \A c \in Clients : wsConns[c] # None => act[conn[wsConns[c]].socket].id = c
    /\ \A p \in Actors \ Sessions : act[p].pc \in {"wait", "rm.forget", "over"}

-----------------------------------------------------------------------------
(* Actors. *)

\* The actors are apart, and None is nobody.
LEMMA Apart ==
    /\ Sessions \subseteq Actors
    /\ ({"remove"} \X Removals) \cup ({"direct"} \X Directs) \subseteq Actors \ Sessions
    /\ None \notin Sessions \cup Clients \cup AllTopics \cup Conns \cup WsTopicDatas
BY WsAssumption DEF Actors, AllTopics

\* A step that gives one actor a well-formed record.
LEMMA Moved ==
    ASSUME ActorsOK, NEW p \in Actors, NEW r \in Actor, LocalsSet(r),
           act' = [act EXCEPT ![p] = r]
    PROVE  ActorsOK'
<1>1. act' \in [Actors -> Actor]
  BY DEF ActorsOK
<1>2. \A q \in Actors : act'[q] = IF q = p THEN r ELSE act[q]
  BY DEF ActorsOK
<1>3. QED BY <1>1, <1>2, Zenon DEF ActorsOK

\* A step from one pc to another that needs no more.
LEMMA WentTo ==
    ASSUME ActorsOK, NEW p \in Actors, NEW pc \in Labels, Goto(p, pc),
           LocalsSet([act[p] EXCEPT !.pc = pc])
    PROVE  ActorsOK'
<1> DEFINE r == [act[p] EXCEPT !.pc = pc]
<1>1. r \in Actor
  BY DEF ActorsOK, Actor
<1>2. act' = [act EXCEPT ![p] = r]
  BY Zenon DEF Goto
<1>3. QED BY <1>1, <1>2, Moved, Zenon

\* The records a finished call leaves behind.
LEMMA AtType ==
    ASSUME NEW pc \in Labels, NEW id \in Clients \cup {None}
    PROVE  /\ At(pc, id) \in Actor
           /\ At(pc, id).pc = pc /\ At(pc, id).id = id
BY DEF At, Actor

LEMMA Finished ==
    ASSUME ActorsOK, NEW p \in Actors, Done(p)
    PROVE  ActorsOK'
<1> USE DEF ActorsOK
<1>1. act[p] \in Actor /\ LocalsSet(act[p])
  OBVIOUS
<1> DEFINE a == At("read", act[p].id)
           b == [act[p] EXCEPT !.pc = "uns.topic", !.ref = None, !.obj = None]
           c == At("over", None)
<1>2. a \in Actor /\ LocalsSet(a) /\ c \in Actor /\ LocalsSet(c)
  BY <1>1 DEF At, Actor, Labels, LocalsSet, InSubscribe, InUnsubscribe, InCleanup
<1>3. CASE p \in Sessions
  <2>1. act' = [act EXCEPT ![p] = a]
    BY <1>3, Zenon DEF Done
  <2>2. QED BY <1>2, <2>1, Moved, Zenon
<1>4. CASE p \notin Sessions /\ p[1] = "direct" /\ act[p].pc \in {"sub.conn", "sub.mark"}
  <2>1. b \in Actor /\ LocalsSet(b)
    BY <1>1, <1>4 DEF Actor, Labels, LocalsSet, InSubscribe, InUnsubscribe, InCleanup
  <2>2. act' = [act EXCEPT ![p] = b]
    BY <1>4, Zenon DEF Done
  <2>3. QED BY <2>1, <2>2, Moved, Zenon
<1>5. CASE p \notin Sessions /\ ~(p[1] = "direct" /\ act[p].pc \in {"sub.conn", "sub.mark"})
  <2>1. act' = [act EXCEPT ![p] = c]
    BY <1>5, Zenon DEF Done
  <2>2. QED BY <1>2, <2>1, Moved, Zenon
<1>6. QED BY <1>3, <1>4, <1>5, Zenon

LEMMA CleanedUp ==
    ASSUME ActorsOK, NEW p \in Actors, AfterCleanup(p)
    PROVE  ActorsOK'
<1> USE DEF ActorsOK
<1> DEFINE a == [At("register", act[p].id) EXCEPT !.next = act[p].next]
           b == At("over", None)
<1>1. act[p] \in Actor
  OBVIOUS
<1>2. b \in Actor /\ LocalsSet(b)
  BY DEF At, Actor, Labels, LocalsSet, InSubscribe, InUnsubscribe, InCleanup
<1>3. CASE act[p].next # None
  <2>1. a \in Actor /\ LocalsSet(a)
    BY <1>1, <1>3 DEF At, Actor, Labels, LocalsSet, InSubscribe, InUnsubscribe, InCleanup
  <2>2. act' = [act EXCEPT ![p] = a]
    BY <1>3, Zenon DEF AfterCleanup
  <2>3. QED BY <2>1, <2>2, Moved, Zenon
<1>4. CASE act[p].next = None
  <2>1. act' = [act EXCEPT ![p] = b]
    BY <1>4, Zenon DEF AfterCleanup
  <2>2. QED BY <1>2, <2>1, Moved, Zenon
<1>5. QED BY <1>3, <1>4
\* handlePing keeps the new id until the old one is cleaned up, or registers it.
LEMMA Pinged ==
    ASSUME NEW a \in Actor, NEW c \in Clients, NEW s \in Sessions
    PROVE  /\ LET r == [a EXCEPT !.pc = "register", !.next = c] IN r \in Actor /\ LocalsSet(r)
           /\ a.id # None =>
                 LET r == [a EXCEPT !.pc = "cl.take", !.client = a.id, !.socket = s, !.next = c]
                 IN  r \in Actor /\ LocalsSet(r)
<1> DEFINE b == [a EXCEPT !.pc = "register", !.next = c]
           r == [a EXCEPT !.pc = "cl.take", !.client = a.id, !.socket = s, !.next = c]
<1>1. b \in Actor /\ r \in Actor
  <2>1. a.id \in Clients \cup {None}
    BY DEF Actor
  <2>2. QED BY <2>1 DEF Actor, Labels
<1>2. /\ b.pc = "register" /\ b.next = c
      /\ r.pc = "cl.take" /\ r.client = a.id /\ r.socket = s
      /\ a.id # None => r.client \in Clients
  BY DEF Actor
<1> HIDE DEF b, r
<1>3. LocalsSet(b)
  BY <1>2 DEF LocalsSet, InSubscribe, InUnsubscribe, InCleanup
<1>4. a.id # None => LocalsSet(r)
  BY <1>2 DEF LocalsSet, InSubscribe, InUnsubscribe, InCleanup
<1>5. QED BY <1>1, <1>3, <1>4 DEF b, r

\* Steps of a session: its messages, its end, and its new id.
LEMMA SessionMoves ==
    ASSUME TypeInv, NEW p \in Sessions,
           \/ \E c \in Clients : Ping(p, c)
           \/ \E t \in Topics : Handle(p, "sub.topic", t) \/ Handle(p, "uns.topic", t)
           \/ Registering(p) \/ Disconnect(p) \/ CloseOld(p)
    PROVE  ActorsOK'
<1> USE DEF TypeInv, ActorsOK
<1>1. p \in Actors /\ act[p] \in Actor /\ LocalsSet(act[p])
  BY Apart
<1>2. ASSUME NEW c \in Clients, Ping(p, c) PROVE ActorsOK'
  <2> DEFINE a == [act[p] EXCEPT !.pc = "cl.take", !.client = act[p].id, !.socket = p, !.next = c]
             b == [act[p] EXCEPT !.pc = "register", !.next = c]
  <2>1. act' = [act EXCEPT ![p] = IF act[p].id \notin {None, c} THEN a ELSE b]
    BY <1>2, Zenon DEF Ping
  <2>2. act[p].id \notin {None, c} => a \in Actor /\ LocalsSet(a)
    <3>1. act[p].id \notin {None, c} => act[p].id # None
      OBVIOUS
    <3>2. QED BY <1>1, <3>1, Pinged, Zenon
  <2>3. b \in Actor /\ LocalsSet(b)
    BY <1>1, Pinged, Zenon
  <2> HIDE DEF a, b
  <2>4. \E r \in Actor : LocalsSet(r) /\ act' = [act EXCEPT ![p] = r]
    BY <2>1, <2>2, <2>3
  <2>5. QED BY <1>1, <2>4, Moved, Zenon
<1>3. ASSUME NEW t \in Topics, NEW pc \in {"sub.topic", "uns.topic"}, Handle(p, pc, t)
      PROVE  ActorsOK'
  <2> DEFINE r == [act[p] EXCEPT !.pc = pc, !.client = act[p].id, !.socket = p, !.topic = t]
  <2>1. r \in Actor /\ LocalsSet(r)
    BY <1>1, <1>3 DEF Handle, Actor, Labels, LocalsSet, InSubscribe, InUnsubscribe, InCleanup,
                      AllTopics
  <2>2. act' = [act EXCEPT ![p] = r]
    BY <1>3, Zenon DEF Handle
  <2>3. QED BY <1>1, <2>1, <2>2, Moved, Zenon
<1>4. CASE PingRegister(p)
  <2> DEFINE r == At("list", act[p].next)
  <2>1. r \in Actor /\ LocalsSet(r)
    BY <1>1, <1>4 DEF PingRegister, At, Actor, Labels, LocalsSet, InSubscribe, InUnsubscribe,
                      InCleanup
  <2>2. act' = [act EXCEPT ![p] = r]
    BY <1>4, Zenon DEF PingRegister
  <2>3. QED BY <1>1, <2>1, <2>2, Moved, Zenon
<1>5. CASE PingList(p)
  BY <1>1, <1>5, Finished, Zenon DEF PingList
<1>6. CASE Disconnect(p)
  <2>1. PICK pc \in {"over", "leave"} : Goto(p, pc) /\ (pc = "leave" => act[p].id # None)
    BY <1>6 DEF Disconnect
  <2>2. pc \in Labels /\ LocalsSet([act[p] EXCEPT !.pc = pc])
    BY <1>1, <2>1 DEF Actor, Labels, LocalsSet, InSubscribe, InUnsubscribe, InCleanup
  <2>3. QED BY <1>1, <2>1, <2>2, WentTo, Zenon
<1>7. CASE CloseOld(p)
  BY <1>7 DEF CloseOld
<1>8. QED BY <1>2, <1>3, <1>4, <1>5, <1>6, <1>7 DEF Registering

\* Steps of subscribeWebSocket.
LEMMA SubscribeMoves ==
    ASSUME TypeInv, NEW p \in Actors, Subscribing(p)
    PROVE  ActorsOK'
<1> USE DEF TypeInv, ActorsOK
<1>1. act[p] \in Actor /\ LocalsSet(act[p])
  OBVIOUS
<1>2. CASE SubTopic(p)
  <2>1. PICK j \in WsTopicDatas :
           act' = [act EXCEPT ![p].pc = "sub.register", ![p].ref = j]
    BY <1>2, Zenon DEF SubTopic
  <2> DEFINE r == [act[p] EXCEPT !.pc = "sub.register", !.ref = j]
  <2>2. act[p].pc = "sub.topic"
    BY <1>2, Zenon DEF SubTopic
  <2>3. r \in Actor /\ LocalsSet(r)
    BY <1>1, <2>2 DEF Actor, Labels, LocalsSet, InSubscribe, InUnsubscribe, InCleanup
  <2>4. act' = [act EXCEPT ![p] = r]
    BY <2>1, Zenon
  <2>5. QED BY <2>3, <2>4, Moved, Zenon
<1>3. CASE SubRegister(p)
  <2>1. "sub.conn" \in Labels /\ LocalsSet([act[p] EXCEPT !.pc = "sub.conn"])
    BY <1>1, <1>3 DEF SubRegister, Actor, Labels, LocalsSet, InSubscribe, InUnsubscribe, InCleanup
  <2>2. QED BY <1>3, <2>1, WentTo, Zenon DEF SubRegister
<1>4. CASE SubConn(p)
  <2> DEFINE k == wsConns[act[p].client]
             r == [act[p] EXCEPT !.pc = "sub.join", !.obj = k]
  <2>1. CASE k = None
    BY <1>4, <2>1, Finished, Zenon DEF SubConn
  <2>2. CASE k # None
    <3>1. act[p].pc = "sub.conn" /\ act[p].client \in Clients
      BY <1>1, <1>4 DEF SubConn, LocalsSet, InSubscribe
    <3>2. k \in Conns
      BY <2>2, <3>1 DEF RegistryOK
    <3>3. act' = [act EXCEPT ![p] = r]
      BY <1>4, <2>2, Zenon DEF SubConn
    <3> HIDE DEF k
    <3>4. r \in Actor /\ LocalsSet(r)
      BY <1>1, <3>1, <3>2 DEF Actor, Labels, LocalsSet, InSubscribe, InUnsubscribe, InCleanup
    <3>5. QED BY <3>3, <3>4, Moved, Zenon
  <2>3. QED BY <2>1, <2>2
<1>5. CASE SubJoin(p)
  <2>1. "sub.mark" \in Labels /\ LocalsSet([act[p] EXCEPT !.pc = "sub.mark"])
    BY <1>1, <1>5 DEF SubJoin, Actor, Labels, LocalsSet, InSubscribe, InUnsubscribe, InCleanup
  <2>2. QED BY <1>5, <2>1, WentTo, Zenon DEF SubJoin
<1>6. CASE SubMark(p)
  BY <1>6, Finished, Zenon DEF SubMark
<1>7. QED BY <1>2, <1>3, <1>4, <1>5, <1>6, Zenon DEF Subscribing

\* A client leaves a topic: the actor goes on to remove the topic or to otherwise.
LEMMA LeaveMoves ==
    ASSUME ActorsOK, NEW p \in Actors, NEW j, NEW pc \in Labels, NEW otherwise,
           LocalsSet([act[p] EXCEPT !.pc = pc]), otherwise => ActorsOK',
           LeaveTopic(p, j, pc, otherwise)
    PROVE  ActorsOK'
<1>1. Goto(p, pc) \/ otherwise
  BY Zenon DEF LeaveTopic
<1>2. QED BY <1>1, WentTo, Zenon

\* Steps of unsubscribeWebSocket.
LEMMA UnsubscribeMoves ==
    ASSUME TypeInv, NEW p \in Actors, Unsubscribing(p)
    PROVE  ActorsOK'
<1> USE DEF TypeInv, ActorsOK
<1>1. act[p] \in Actor /\ LocalsSet(act[p])
  OBVIOUS
<1>2. CASE UnsTopic(p)
  <2> DEFINE j == wsSubscribers[act[p].topic]
             r == [act[p] EXCEPT !.pc = "uns.conn", !.ref = j]
  <2>1. CASE j = None
    BY <1>2, <2>1, Finished, Zenon DEF UnsTopic
  <2>2. CASE j # None
    <3>1. act[p].pc = "uns.topic" /\ act[p].topic \in AllTopics
      BY <1>1, <1>2 DEF UnsTopic, LocalsSet, InUnsubscribe
    <3>2. j \in WsTopicDatas
      BY <2>2, <3>1 DEF TopicsOK
    <3>3. act' = [act EXCEPT ![p] = r]
      BY <1>2, <2>2, Zenon DEF UnsTopic
    <3> HIDE DEF j
    <3>4. r \in Actor /\ LocalsSet(r)
      BY <1>1, <3>1, <3>2 DEF Actor, Labels, LocalsSet, InSubscribe, InUnsubscribe, InCleanup
    <3>5. QED BY <3>3, <3>4, Moved, Zenon
  <2>3. QED BY <2>1, <2>2
<1>3. CASE UnsConn(p)
  <2> DEFINE k == wsConns[act[p].client]
             pc == IF k = None THEN "uns.leave" ELSE "uns.forget"
             r == [act[p] EXCEPT !.pc = pc, !.obj = k]
  <2>1. act[p].pc = "uns.conn" /\ act[p].client \in Clients
    BY <1>1, <1>3 DEF UnsConn, LocalsSet, InUnsubscribe
  <2>2. k \in Conns \cup {None}
    BY <2>1 DEF RegistryOK
  <2>3. act' = [act EXCEPT ![p] = r]
    BY <1>3, Zenon DEF UnsConn
  <2>4. pc \in {"uns.leave", "uns.forget"} /\ (pc = "uns.forget" => k \in Conns)
    BY <2>2
  <2> HIDE DEF k, pc
  <2>5. r \in Actor /\ LocalsSet(r)
    BY <1>1, <2>1, <2>2, <2>4 DEF Actor, Labels, LocalsSet, InSubscribe, InUnsubscribe, InCleanup
  <2>6. QED BY <2>3, <2>5, Moved, Zenon
<1>4. CASE UnsForget(p)
  <2>1. "uns.leave" \in Labels /\ LocalsSet([act[p] EXCEPT !.pc = "uns.leave"])
    BY <1>1, <1>4 DEF UnsForget, Actor, Labels, LocalsSet, InSubscribe, InUnsubscribe, InCleanup
  <2>2. QED BY <1>4, <2>1, WentTo, Zenon DEF UnsForget
<1>5. CASE UnsLeave(p)
  <2>1. "uns.drop" \in Labels /\ LocalsSet([act[p] EXCEPT !.pc = "uns.drop"])
    BY <1>1, <1>5 DEF UnsLeave, Actor, Labels, LocalsSet, InSubscribe, InUnsubscribe, InCleanup
  <2>2. LeaveTopic(p, act[p].ref, "uns.drop", Done(p))
    BY <1>5, Zenon DEF UnsLeave
  <2>3. Done(p) => ActorsOK'
    BY Finished, Zenon
  <2>4. QED BY <2>1, <2>2, <2>3, LeaveMoves, Zenon
<1>6. CASE UnsDrop(p)
  BY <1>6, Finished, Zenon DEF UnsDrop
<1>7. QED BY <1>2, <1>3, <1>4, <1>5, <1>6, Zenon DEF Unsubscribing
\* Steps of the cleanup of a connection.
LEMMA CleanupMoves ==
    ASSUME TypeInv, NEW p \in Sessions, Cleaning(p)
    PROVE  ActorsOK'
<1> USE DEF TypeInv, ActorsOK
<1>1. p \in Actors /\ act[p] \in Actor /\ LocalsSet(act[p])
  BY Apart
<1>2. CASE Leave(p)
  <2> DEFINE r == [act[p] EXCEPT !.pc = "cl.take", !.client = act[p].id, !.socket = p]
  <2>1. r \in Actor /\ LocalsSet(r)
    BY <1>1, <1>2 DEF Leave, Actor, Labels, LocalsSet, InSubscribe, InUnsubscribe, InCleanup
  <2>2. act' = [act EXCEPT ![p] = r]
    BY <1>2, Zenon DEF Leave
  <2>3. QED BY <1>1, <2>1, <2>2, Moved, Zenon
<1>3. CASE CleanTake(p)
  <2> DEFINE k == wsConns[act[p].client]
             r == [act[p] EXCEPT !.pc = "cl.copy", !.obj = k]
  <2>1. CASE k # None /\ SameSocket(k, act[p].socket)
    <3>1. act[p].pc = "cl.take" /\ act[p].client \in Clients
      BY <1>1, <1>3 DEF CleanTake, LocalsSet, InCleanup
    <3>2. k \in Conns
      BY <2>1, <3>1 DEF RegistryOK
    <3>3. act' = [act EXCEPT ![p] = r]
      BY <1>3, <2>1, Zenon DEF CleanTake
    <3> HIDE DEF k
    <3>4. r \in Actor /\ LocalsSet(r)
      BY <1>1, <3>1, <3>2 DEF Actor, Labels, LocalsSet, InSubscribe, InUnsubscribe, InCleanup
    <3>5. QED BY <1>1, <3>3, <3>4, Moved, Zenon
  <2>2. CASE ~(k # None /\ SameSocket(k, act[p].socket))
    BY <1>3, <2>2, <1>1, CleanedUp, Zenon DEF CleanTake
  <2>3. QED BY <2>1, <2>2
<1>4. CASE CleanCopy(p)
  <2> DEFINE k == act[p].obj
             d == conn[k].topics
             r == [act[p] EXCEPT !.pc = "cl.topic", !.todo = d]
  <2>1. act[p].pc = "cl.copy" /\ k \in Conns
    BY <1>1, <1>4 DEF CleanCopy, LocalsSet
  <2>2. d \in SUBSET AllTopics
    BY <2>1 DEF RegistryOK, Connection
  <2>3. act' = [act EXCEPT ![p] = r]
    BY <1>4, Zenon DEF CleanCopy
  <2> HIDE DEF d
  <2>4. r \in Actor /\ LocalsSet(r)
    BY <1>1, <2>1, <2>2 DEF Actor, Labels, LocalsSet, InSubscribe, InUnsubscribe, InCleanup
  <2>5. QED BY <1>1, <2>3, <2>4, Moved, Zenon
<1>5. CASE CleanTopic(p)
  <2>1. CASE AfterCleanup(p)
    BY <1>1, <2>1, CleanedUp, Zenon
  <2>2. ASSUME NEW t \in act[p].todo,
               act' = [act EXCEPT ![p].pc = IF wsSubscribers[t] = None THEN "cl.topic"
                                            ELSE "cl.leave",
                                  ![p].topic = t, ![p].ref = wsSubscribers[t],
                                  ![p].todo = @ \ {t}]
        PROVE  ActorsOK'
    <3> DEFINE j == wsSubscribers[t]
               pc == IF j = None THEN "cl.topic" ELSE "cl.leave"
               d == act[p].todo \ {t}
               r == [act[p] EXCEPT !.pc = pc, !.topic = t, !.ref = j, !.todo = d]
    <3>1. act[p].pc = "cl.topic" /\ t \in AllTopics
      BY <1>1, <1>5 DEF CleanTopic, Actor
    <3>2. j \in WsTopicDatas \cup {None} /\ d \in SUBSET AllTopics
      BY <1>1, <3>1 DEF TopicsOK, Actor
    <3>3. pc \in {"cl.topic", "cl.leave"} /\ (pc = "cl.leave" => j \in WsTopicDatas)
      BY <3>2
    <3>4. act' = [act EXCEPT ![p] = r]
      BY <2>2, Zenon
    <3> HIDE DEF j, pc, d
    <3>5. r \in Actor /\ LocalsSet(r)
      BY <1>1, <3>1, <3>2, <3>3
      DEF Actor, Labels, LocalsSet, InSubscribe, InUnsubscribe, InCleanup
    <3>6. QED BY <1>1, <3>4, <3>5, Moved, Zenon
  <2>3. QED BY <1>5, <2>1, <2>2, Zenon DEF CleanTopic
<1>6. CASE CleanLeave(p)
  <2>1. "cl.drop" \in Labels /\ LocalsSet([act[p] EXCEPT !.pc = "cl.drop"])
    BY <1>1, <1>6 DEF CleanLeave, Actor, Labels, LocalsSet, InSubscribe, InUnsubscribe, InCleanup
  <2>2. "cl.topic" \in Labels /\ LocalsSet([act[p] EXCEPT !.pc = "cl.topic"])
    BY <1>1, <1>6 DEF CleanLeave, Actor, Labels, LocalsSet, InSubscribe, InUnsubscribe, InCleanup
  <2>3. LeaveTopic(p, act[p].ref, "cl.drop", Goto(p, "cl.topic"))
    BY <1>6, Zenon DEF CleanLeave
  <2>4. Goto(p, "cl.topic") => ActorsOK'
    BY <1>1, <2>2, WentTo, Zenon
  <2>5. QED BY <2>1, <2>3, <2>4, <1>1, LeaveMoves, Zenon
<1>7. CASE CleanDrop(p)
  <2>1. "cl.topic" \in Labels /\ LocalsSet([act[p] EXCEPT !.pc = "cl.topic"])
    BY <1>1, <1>7 DEF CleanDrop, Actor, Labels, LocalsSet, InSubscribe, InUnsubscribe, InCleanup
  <2>2. QED BY <1>1, <1>7, <2>1, WentTo, Zenon DEF CleanDrop
<1>8. QED BY <1>2, <1>3, <1>4, <1>5, <1>6, <1>7, Zenon DEF Cleaning

\* Unsubscribe(topic) remembers the object it has removed.
LEMMA Remembered ==
    ASSUME NEW a \in Actor, NEW j \in WsTopicDatas
    PROVE  LET r == [a EXCEPT !.pc = "rm.forget", !.ref = j] IN r \in Actor /\ LocalsSet(r)
<1> DEFINE r == [a EXCEPT !.pc = "rm.forget", !.ref = j]
<1>1. r \in Actor
  BY DEF Actor, Labels
<1>2. r.pc = "rm.forget" /\ r.ref = j
  BY DEF Actor
<1> HIDE DEF r
<1>3. LocalsSet(r)
  BY <1>2 DEF LocalsSet, InSubscribe, InUnsubscribe, InCleanup
<1>4. QED BY <1>1, <1>3 DEF r

\* PublishToIDWithAck subscribes a client it has found.
LEMMA Addressed ==
    ASSUME NEW a \in Actor, NEW c \in Clients, NEW s \in Sessions, NEW t \in AllTopics
    PROVE  LET r == [a EXCEPT !.pc = "sub.topic", !.client = c, !.socket = s, !.topic = t]
           IN  r \in Actor /\ LocalsSet(r)
<1> DEFINE r == [a EXCEPT !.pc = "sub.topic", !.client = c, !.socket = s, !.topic = t]
<1>1. r \in Actor
  BY DEF Actor, Labels
<1>2. r.pc = "sub.topic" /\ r.client = c /\ r.socket = s /\ r.topic = t
  BY DEF Actor
<1> HIDE DEF r
<1>3. LocalsSet(r)
  BY <1>2 DEF LocalsSet, InSubscribe, InUnsubscribe, InCleanup
<1>4. QED BY <1>1, <1>3 DEF r

\* Steps of the program.
LEMMA ProgramMoves ==
    ASSUME TypeInv, NEW p \in Actors,
           \/ p \in {"remove"} \X Removals /\ (RemoveTopic(p) \/ RemoveForget(p))
           \/ p \in {"direct"} \X Directs /\ \E c \in Clients : Direct(p, c)
    PROVE  ActorsOK'
<1> USE DEF TypeInv, ActorsOK
<1>1. act[p] \in Actor /\ LocalsSet(act[p])
  OBVIOUS
<1>2. ASSUME p \in {"remove"} \X Removals, RemoveTopic(p) PROVE ActorsOK'
  <2> DEFINE j == wsSubscribers[p[2]]
             r == [act[p] EXCEPT !.pc = "rm.forget", !.ref = j]
  <2>1. p[2] \in AllTopics
    BY <1>2, WsAssumption DEF AllTopics
  <2>2. j \in WsTopicDatas
    BY <1>2, <2>1 DEF RemoveTopic, TopicsOK
  <2>3. act' = [act EXCEPT ![p] = r]
    BY <1>2, Zenon DEF RemoveTopic
  <2>4. r \in Actor /\ LocalsSet(r)
    BY <1>1, <2>2, Remembered, Zenon
  <2>5. QED BY <2>3, <2>4, Moved, Zenon
<1>3. ASSUME RemoveForget(p) PROVE ActorsOK'
  <2> DEFINE r == At("over", None)
  <2>1. r \in Actor /\ LocalsSet(r)
    BY AtType DEF At, Labels, LocalsSet, InSubscribe, InUnsubscribe, InCleanup
  <2>2. act' = [act EXCEPT ![p] = r]
    BY <1>3, Zenon DEF RemoveForget
  <2>3. QED BY <2>1, <2>2, Moved, Zenon
<1>4. ASSUME p \in {"direct"} \X Directs, NEW c \in Clients, Direct(p, c) PROVE ActorsOK'
  <2> DEFINE t == p[2]
             s == connections[c]
             r == [act[p] EXCEPT !.pc = "sub.topic", !.client = c, !.socket = s, !.topic = t]
  <2>1. t \in AllTopics /\ s \in Sessions
    BY <1>4 DEF AllTopics, Direct, SocketsOK
  <2>2. act' = [act EXCEPT ![p] = r]
    BY <1>4, Zenon DEF Direct
  <2>3. r \in Actor /\ LocalsSet(r)
    BY <1>1, <2>1, Addressed, Zenon
  <2>4. QED BY <2>2, <2>3, Moved, Zenon
<1>5. QED BY <1>2, <1>3, <1>4, Zenon
-----------------------------------------------------------------------------
(* The registry. *)

\* What a step may do to ps.wsConns and to what identifies a connection:
\* nothing, register a socket, or take a connection out.
SameConnections ==
    /\ wsConns' = wsConns
    /\ conn' \in [Conns -> Connection]
    /\ \A k \in Conns : /\ conn'[k].client = conn[k].client
                         /\ conn'[k].socket = conn[k].socket
                         /\ conn'[k].active = conn[k].active

Take(c) ==
    /\ wsConns[c] # None
    /\ wsConns' = [wsConns EXCEPT ![c] = None]
    /\ conn' = [conn EXCEPT ![wsConns[c]].active = FALSE]

\* Only the topics of a connection change.
LEMMA TopicsOnly ==
    ASSUME RegistryOK, NEW k \in Conns, NEW T \in SUBSET AllTopics, wsConns' = wsConns,
           conn' = [conn EXCEPT ![k].topics = T]
    PROVE  SameConnections
BY DEF RegistryOK, SameConnections, Connection

LEMMA Untouched ==
    ASSUME RegistryOK, UNCHANGED <<wsConns, conn>>
    PROVE  SameConnections
BY DEF RegistryOK, SameConnections

LEMMA Marks ==
    ASSUME TypeInv, NEW p \in Actors, SubMark(p)
    PROVE  SameConnections
<1> DEFINE k == act[p].obj
           T == conn[k].topics \cup {act[p].topic}
<1>1. k \in Conns /\ act[p].topic \in AllTopics
  BY DEF TypeInv, ActorsOK, SubMark, LocalsSet, InSubscribe
<1>2. T \in SUBSET AllTopics
  BY <1>1 DEF TypeInv, RegistryOK, Connection
<1>3. conn' = [conn EXCEPT ![k].topics = T] /\ wsConns' = wsConns
  BY <1>1, Zenon DEF SubMark
<1>4. QED BY <1>1, <1>2, <1>3, TopicsOnly, Zenon DEF TypeInv

LEMMA Forgets ==
    ASSUME TypeInv, NEW p \in Actors, UnsForget(p)
    PROVE  SameConnections
<1> DEFINE k == act[p].obj
           T == conn[k].topics \ {act[p].topic}
<1>1. k \in Conns
  BY DEF TypeInv, ActorsOK, UnsForget, LocalsSet
<1>2. T \in SUBSET AllTopics
  BY <1>1 DEF TypeInv, RegistryOK, Connection
<1>3. conn' = [conn EXCEPT ![k].topics = T] /\ wsConns' = wsConns
  BY <1>1, Zenon DEF UnsForget
<1>4. QED BY <1>1, <1>2, <1>3, TopicsOnly, Zenon DEF TypeInv

LEMMA Erased ==
    ASSUME TypeInv, NEW p, RemoveForget(p)
    PROVE  SameConnections
<1> DEFINE j == act[p].ref
<1>1. conn' = [k \in Conns |-> IF \E c \in Clients : members[j][c] = k
                              THEN [conn[k] EXCEPT !.topics = @ \ {p[2]}] ELSE conn[k]]
      /\ wsConns' = wsConns
  BY Zenon DEF RemoveForget
<1>2. conn \in [Conns -> Connection]
  BY DEF TypeInv, RegistryOK
<1>3. QED BY <1>1, <1>2 DEF SameConnections, Connection

LEMMA RegistryStep ==
    ASSUME TypeInv, [Next]_vars
    PROVE  \/ SameConnections
           \/ \E c \in Clients, s \in Sessions : Register(c, s)
           \/ \E c \in Clients : Take(c)
<1> DEFINE Goal == \/ SameConnections
                   \/ \E c \in Clients, s \in Sessions : Register(c, s)
                   \/ \E c \in Clients : Take(c)
<1> USE DEF TypeInv
<1>1. UNCHANGED <<wsConns, conn>> => Goal
  BY Untouched, Zenon
<1>2. \A p \in Actors : LocalsSet(act[p])
  BY DEF ActorsOK
<1>3. ASSUME NEW p \in Sessions, Registering(p) PROVE Goal
  <2>1. CASE PingRegister(p)
    <3>1. act[p].next \in Clients /\ Register(act[p].next, p)
      BY <1>2, <2>1, Apart DEF PingRegister, LocalsSet
    <3>2. QED BY <3>1, Zenon
  <2>2. CASE PingList(p)
    BY <1>1, <2>2, Zenon DEF PingList
  <2>3. QED BY <1>3, <2>1, <2>2, Zenon DEF Registering
<1>4. ASSUME NEW p \in Actors, Subscribing(p) PROVE Goal
  <2>1. CASE SubRegister(p)
    <3>1. act[p].client \in Clients /\ act[p].socket \in Sessions
      BY <1>2, <2>1 DEF SubRegister, LocalsSet, InSubscribe
    <3>2. QED BY <2>1, <3>1, Zenon DEF SubRegister
  <2>2. CASE SubMark(p)
    BY <2>2, Marks, Zenon
  <2>3. CASE SubTopic(p) \/ SubConn(p) \/ SubJoin(p)
    BY <1>1, <2>3, Zenon DEF SubTopic, SubConn, SubJoin
  <2>4. QED BY <1>4, <2>1, <2>2, <2>3, Zenon DEF Subscribing
<1>5. ASSUME NEW p \in Actors, Unsubscribing(p) PROVE Goal
  <2>1. CASE UnsForget(p)
    BY <2>1, Forgets, Zenon
  <2>2. CASE UnsTopic(p) \/ UnsConn(p) \/ UnsLeave(p) \/ UnsDrop(p)
    BY <1>1, <2>2, Zenon DEF UnsTopic, UnsConn, UnsLeave, LeaveTopic, UnsDrop
  <2>3. QED BY <1>5, <2>1, <2>2, Zenon DEF Unsubscribing
<1>6. ASSUME NEW p \in Sessions, Cleaning(p) PROVE Goal
  <2>1. CASE CleanTake(p)
    <3>1. act[p].client \in Clients
      BY <1>2, <2>1, Apart DEF CleanTake, LocalsSet, InCleanup
    <3>2. Take(act[p].client) \/ UNCHANGED <<wsConns, conn>>
      BY <2>1, Zenon DEF CleanTake, Take
    <3>3. QED BY <1>1, <3>1, <3>2, Zenon
  <2>2. CASE Leave(p) \/ CleanCopy(p) \/ CleanTopic(p) \/ CleanLeave(p) \/ CleanDrop(p)
    BY <1>1, <2>2, Zenon DEF Leave, CleanCopy, CleanTopic, CleanLeave, LeaveTopic, CleanDrop
  <2>3. QED BY <1>6, <2>1, <2>2, Zenon DEF Cleaning
<1>7. ASSUME NEW p \in {"remove"} \X Removals, RemoveForget(p) PROVE Goal
  BY <1>7, Erased, Zenon
<1>8. QED
  BY <1>1, <1>3, <1>4, <1>5, <1>6, <1>7, Zenon
  DEF Next, vars, Ping, Handle, CloseOld, Disconnect, RemoveTopic, Direct

LEMMA Resocketed ==
    ASSUME RegistryOK, NEW k \in Conns, NEW r \in Connection, r.socket \in Sessions,
           conn' = [conn EXCEPT ![k] = r], wsConns' = wsConns
    PROVE  RegistryOK'
BY DEF RegistryOK

\* A registered connection has a socket, before and after.
LEMMA RegistryTyped ==
    ASSUME TypeInv, [Next]_vars
    PROVE  RegistryOK'
<1> USE DEF TypeInv, RegistryOK
<1>1. CASE SameConnections
  BY <1>1 DEF SameConnections
<1>2. ASSUME NEW c \in Clients, NEW s \in Sessions, Register(c, s) PROVE RegistryOK'
  <2>1. ASSUME NEW k \in FreeConns,
               conn' = [conn EXCEPT ![k] = [client |-> c, socket |-> s, topics |-> {},
                                            active |-> TRUE]],
               wsConns' = [wsConns EXCEPT ![c] = k]
        PROVE  RegistryOK'
    BY <2>1 DEF FreeConns, Connection
  <2>2. ASSUME wsConns[c] # None, wsConns' = wsConns,
               conn' = [conn EXCEPT ![wsConns[c]].socket = s, ![wsConns[c]].active = TRUE]
        PROVE  RegistryOK'
    <3> DEFINE k == wsConns[c]
               r == [conn[k] EXCEPT !.socket = s, !.active = TRUE]
    <3>1. k \in Conns
      BY <2>2
    <3>2. conn' = [conn EXCEPT ![k] = r]
      BY <2>2, Zenon
    <3>3. r \in Connection /\ r.socket = s
      BY <3>1 DEF Connection
    <3> HIDE DEF k, r
    <3>4. r.socket \in Sessions
      BY <3>3
    <3>5. QED BY <2>2, <3>1, <3>2, <3>3, <3>4, Resocketed, Zenon
  <2>3. QED BY <1>2, <2>1, <2>2, Zenon DEF Register
<1>3. ASSUME NEW c \in Clients, Take(c) PROVE RegistryOK'
  <2> DEFINE k == wsConns[c]
             r == [conn[k] EXCEPT !.active = FALSE]
  <2>1. k \in Conns
    BY <1>3 DEF Take
  <2>2. conn' = [conn EXCEPT ![k] = r]
    BY <1>3, Zenon DEF Take
  <2>3. r \in Connection /\ r.socket = conn[k].socket
    BY <2>1 DEF Connection
  <2>4. wsConns' = [wsConns EXCEPT ![c] = None]
    BY <1>3, Zenon DEF Take
  <2> HIDE DEF k, r
  <2>5. QED BY <2>1, <2>2, <2>3, <2>4
<1>4. QED BY <1>1, <1>2, <1>3, RegistryStep, Zenon

-----------------------------------------------------------------------------
(* Topics and sockets. *)

LEMMA TopicsTyped ==
    ASSUME TypeInv, [Next]_vars
    PROVE  TopicsOK'
<1> USE DEF TypeInv
<1>1. UNCHANGED <<wsSubscribers, members>> => TopicsOK'
  BY DEF TopicsOK
<1>2. \A p \in Actors : LocalsSet(act[p])
  BY DEF ActorsOK
\* A topic gets or loses its object; a client joins or leaves an object.
<1>3. ASSUME NEW t \in AllTopics, members' = members,
             wsSubscribers' = [wsSubscribers EXCEPT ![t] = None]
      PROVE  TopicsOK'
  BY <1>3 DEF TopicsOK
<1>4. ASSUME NEW j \in WsTopicDatas, NEW c \in Clients, NEW k \in Conns \cup {None},
             members' = [members EXCEPT ![j][c] = k], wsSubscribers' = wsSubscribers
      PROVE  TopicsOK'
  BY <1>4 DEF TopicsOK
<1>5. ASSUME NEW t \in AllTopics, DropIfEmpty(t), members' = members PROVE TopicsOK'
  BY <1>1, <1>3, <1>5, Zenon DEF DropIfEmpty
<1>6. ASSUME NEW p \in Actors, Subscribing(p) PROVE TopicsOK'
  <2>1. CASE SubTopic(p)
    <3>1. act[p].topic \in AllTopics
      BY <1>2, <2>1 DEF SubTopic, LocalsSet, InSubscribe
    <3>2. ASSUME NEW j \in WsTopicDatas,
                 wsSubscribers' = [wsSubscribers EXCEPT ![act[p].topic] = j],
                 members' = [members EXCEPT ![j] = [c \in Clients |-> None]]
          PROVE  TopicsOK'
      BY <3>1, <3>2 DEF TopicsOK
    <3>3. QED BY <1>1, <2>1, <3>2, Zenon DEF SubTopic
  <2>2. CASE SubJoin(p)
    <3>1. act[p].ref \in WsTopicDatas /\ act[p].client \in Clients /\ act[p].obj \in Conns
      BY <1>2, <2>2 DEF SubJoin, LocalsSet, InSubscribe
    <3>2. QED BY <1>4, <2>2, <3>1, Zenon DEF SubJoin
  <2>3. CASE SubRegister(p) \/ SubConn(p) \/ SubMark(p)
    BY <1>1, <2>3, Zenon DEF SubRegister, SubConn, SubMark
  <2>4. QED BY <1>6, <2>1, <2>2, <2>3, Zenon DEF Subscribing
<1>7. ASSUME NEW p \in Actors, Unsubscribing(p) PROVE TopicsOK'
  <2>1. CASE UnsLeave(p)
    <3>1. act[p].ref \in WsTopicDatas /\ act[p].client \in Clients
      BY <1>2, <2>1 DEF UnsLeave, LocalsSet, InUnsubscribe
    <3>2. QED BY <1>4, <2>1, <3>1, Zenon DEF UnsLeave, LeaveTopic
  <2>2. CASE UnsDrop(p)
    <3>1. act[p].topic \in AllTopics
      BY <1>2, <2>2 DEF UnsDrop, LocalsSet, InUnsubscribe
    <3>2. QED BY <1>5, <2>2, <3>1, Zenon DEF UnsDrop
  <2>3. CASE UnsTopic(p) \/ UnsConn(p) \/ UnsForget(p)
    BY <1>1, <2>3, Zenon DEF UnsTopic, UnsConn, UnsForget
  <2>4. QED BY <1>7, <2>1, <2>2, <2>3, Zenon DEF Unsubscribing
<1>8. ASSUME NEW p \in Sessions, Cleaning(p) PROVE TopicsOK'
  <2>1. CASE CleanLeave(p)
    <3>1. act[p].ref \in WsTopicDatas /\ act[p].client \in Clients
      BY <1>2, <2>1, Apart DEF CleanLeave, LocalsSet, InCleanup
    <3>2. QED BY <1>4, <2>1, <3>1, Zenon DEF CleanLeave, LeaveTopic
  <2>2. CASE CleanDrop(p)
    <3>1. act[p].topic \in AllTopics
      BY <1>2, <2>2, Apart DEF CleanDrop, LocalsSet
    <3>2. QED BY <1>5, <2>2, <3>1, Zenon DEF CleanDrop
  <2>3. CASE Leave(p) \/ CleanTake(p) \/ CleanCopy(p) \/ CleanTopic(p)
    BY <1>1, <2>3, Zenon DEF Leave, CleanTake, CleanCopy, CleanTopic
  <2>4. QED BY <1>8, <2>1, <2>2, <2>3, Zenon DEF Cleaning
<1>9. ASSUME NEW p \in {"remove"} \X Removals, RemoveTopic(p) PROVE TopicsOK'
  <2>1. p[2] \in AllTopics
    BY <1>9, WsAssumption DEF AllTopics
  <2>2. QED BY <1>3, <1>9, <2>1, Zenon DEF RemoveTopic
<1>10. QED
  BY <1>1, <1>6, <1>7, <1>8, <1>9, Zenon
  DEF Next, vars, Ping, Handle, Registering, PingRegister, PingList, CloseOld, Disconnect,
      RemoveForget, Direct

LEMMA SocketsTyped ==
    ASSUME TypeInv, [Next]_vars
    PROVE  SocketsOK'
<1> USE DEF TypeInv
<1>1. UNCHANGED <<connections, state>> => SocketsOK'
  BY DEF SocketsOK
<1>2. \A p \in Actors : LocalsSet(act[p])
  BY DEF ActorsOK
<1>3. ASSUME NEW c \in Clients, NEW x \in Sessions \cup {None}, state' = state,
             connections' = [connections EXCEPT ![c] = x]
      PROVE  SocketsOK'
  BY <1>3 DEF SocketsOK
<1>4. ASSUME NEW c \in Clients, NEW s, Register(c, s), connections' = connections
      PROVE  SocketsOK'
  <2>1. ASSUME wsConns[c] # None,
               state' = [state EXCEPT ![conn[wsConns[c]].socket] =
                            IF @ = "open" THEN "closing" ELSE @]
        PROVE  SocketsOK'
    <3>1. conn[wsConns[c]].socket \in Sessions
      BY <2>1 DEF RegistryOK
    <3>2. QED BY <1>4, <2>1, <3>1 DEF SocketsOK
  <2>2. QED BY <1>1, <1>4, <2>1, Zenon DEF Register
<1>5. ASSUME NEW s \in Sessions, state' = [state EXCEPT ![s] = "closed"],
             connections' = connections
      PROVE  SocketsOK'
  BY <1>5 DEF SocketsOK
<1>6. ASSUME NEW p \in Sessions, Registering(p) PROVE SocketsOK'
  <2>1. CASE PingRegister(p)
    <3>1. act[p].next \in Clients
      BY <1>2, <2>1, Apart DEF PingRegister, LocalsSet
    <3>2. QED BY <1>4, <2>1, <3>1, Zenon DEF PingRegister
  <2>2. CASE PingList(p)
    <3>1. act[p].id \in Clients
      BY <1>2, <2>2, Apart DEF PingList, LocalsSet
    <3>2. QED BY <1>3, <2>2, <3>1, Zenon DEF PingList
  <2>3. QED BY <1>6, <2>1, <2>2, Zenon DEF Registering
<1>7. ASSUME NEW p \in Actors, SubRegister(p) PROVE SocketsOK'
  <2>1. act[p].client \in Clients
    BY <1>2, <1>7 DEF SubRegister, LocalsSet, InSubscribe
  <2>2. QED BY <1>4, <1>7, <2>1, Zenon DEF SubRegister
<1>8. ASSUME NEW p \in Sessions, Leave(p) PROVE SocketsOK'
  <2>1. act[p].id \in Clients
    BY <1>2, <1>8, Apart DEF Leave, LocalsSet
  <2>2. QED BY <1>1, <1>3, <1>8, <2>1, Zenon DEF Leave
<1>9. ASSUME NEW p \in Sessions, CloseOld(p) \/ Disconnect(p) PROVE SocketsOK'
  BY <1>5, <1>9, Zenon DEF CloseOld, Disconnect
<1>10. QED
  BY <1>1, <1>6, <1>7, <1>8, <1>9, Zenon
  DEF Next, vars, Ping, Handle, Cleaning, CleanTake, CleanCopy, CleanTopic, CleanLeave, CleanDrop,
      LeaveTopic, Subscribing, SubTopic, SubConn, SubJoin, SubMark, Unsubscribing, UnsTopic,
      UnsConn, UnsForget, UnsLeave, UnsDrop, RemoveTopic, RemoveForget, Direct

-----------------------------------------------------------------------------
(* Type correctness. *)

LEMMA ActorsTyped ==
    ASSUME TypeInv, [Next]_vars
    PROVE  ActorsOK'
<1>1. UNCHANGED vars => ActorsOK'
  BY DEF TypeInv, ActorsOK, vars
<1>2. \A p \in Sessions : Cleaning(p) => ActorsOK'
  BY CleanupMoves, Zenon
<1>3. \A p \in Actors : Subscribing(p) \/ Unsubscribing(p) => ActorsOK'
  BY SubscribeMoves, UnsubscribeMoves, Zenon
<1>4. ASSUME NEW p \in {"remove"} \X Removals, RemoveTopic(p) \/ RemoveForget(p)
      PROVE  ActorsOK'
  <2>1. p \in Actors
    BY Apart
  <2>2. QED BY <1>4, <2>1, ProgramMoves, Zenon
<1>5. ASSUME NEW p \in {"direct"} \X Directs, NEW c \in Clients, Direct(p, c)
      PROVE  ActorsOK'
  <2>1. p \in Actors
    BY Apart
  <2>2. QED BY <1>5, <2>1, ProgramMoves, Zenon
<1>6. CASE Next
  <2>1. ASSUME NEW p \in Sessions,
               \/ \E c \in Clients : Ping(p, c)
               \/ \E t \in Topics : Handle(p, "sub.topic", t) \/ Handle(p, "uns.topic", t)
               \/ Registering(p) \/ Cleaning(p) \/ CloseOld(p) \/ Disconnect(p)
        PROVE  ActorsOK'
    BY <1>2, <2>1, SessionMoves, Zenon
  <2>2. QED BY <1>3, <1>4, <1>5, <1>6, <2>1, Zenon DEF Next
<1>7. QED BY <1>1, <1>6, Zenon

LEMMA InitTyped == Init => TypeInv
<1> SUFFICES ASSUME Init PROVE TypeInv
  OBVIOUS
<1>1. ActorsOK
  <2> DEFINE a == At("read", None)
             b == At("wait", None)
  <2>1. a \in Actor /\ b \in Actor /\ a.pc = "read" /\ b.pc = "wait"
    BY AtType DEF Labels
  <2>2. act = [p \in Actors |-> IF p \in Sessions THEN a ELSE b]
    BY Zenon DEF Init
  <2> HIDE DEF a, b
  <2>3. LocalsSet(a) /\ LocalsSet(b)
    BY <2>1 DEF LocalsSet, InSubscribe, InUnsubscribe, InCleanup
  <2>4. QED BY <2>1, <2>2, <2>3, Zenon DEF ActorsOK
<1>2. RegistryOK
  BY DEF Init, RegistryOK, Connection
<1>3. TopicsOK /\ SocketsOK
  BY DEF Init, TopicsOK, SocketsOK
<1>4. QED BY <1>1, <1>2, <1>3 DEF TypeInv

LEMMA TypeInvariant == Spec => []TypeInv
<1>1. TypeInv /\ [Next]_vars => TypeInv'
  BY ActorsTyped, RegistryTyped, TopicsTyped, SocketsTyped, Zenon DEF TypeInv
<1>2. QED BY <1>1, InitTyped, PTL DEF Spec

\* Every field has its type, and no call dereferences nil, whatever the peers
\* and the program call and in whatever order (the handlers of server.go).
THEOREM TypeCorrect == Spec => []TypeOK
<1>1. TypeInv => TypeOK
  <2> SUFFICES ASSUME TypeInv PROVE TypeOK
    OBVIOUS
  <2>1. \A p \in Actors :
           /\ act[p].pc \in {"sub.join", "sub.mark", "uns.forget", "cl.copy"} => act[p].obj # None
           /\ act[p].pc \in {"sub.join", "uns.leave", "cl.leave", "rm.forget"} => act[p].ref # None
    BY Apart DEF TypeInv, ActorsOK, LocalsSet
  <2>2. QED
    BY <2>1, Zenon
    DEF TypeOK, TypeInv, ActorsOK, RegistryOK, TopicsOK, SocketsOK, Connection
<1>2. QED BY <1>1, TypeInvariant, PTL

-----------------------------------------------------------------------------
(* A registered connection is active and its own client's. *)

\* No two clients share a connection, so that registering one, or taking one
\* out, leaves the others as they are.
LEMMA RegisterEffect ==
    ASSUME RegistryOK, RegisteredIsUsable, NEW c \in Clients, NEW s \in Sessions, Register(c, s)
    PROVE  /\ wsConns'[c] # None /\ conn'[wsConns'[c]].socket = s
           /\ conn'[wsConns'[c]].active /\ conn'[wsConns'[c]].client = c
           /\ \A d \in Clients \ {c} :
                 /\ wsConns'[d] = wsConns[d]
                 /\ wsConns[d] # None => conn'[wsConns[d]] = conn[wsConns[d]]
<1> USE DEF RegistryOK, RegisteredIsUsable
<1> DEFINE Goal == /\ wsConns'[c] # None /\ conn'[wsConns'[c]].socket = s
                   /\ conn'[wsConns'[c]].active /\ conn'[wsConns'[c]].client = c
                   /\ \A d \in Clients \ {c} :
                         /\ wsConns'[d] = wsConns[d]
                         /\ wsConns[d] # None => conn'[wsConns[d]] = conn[wsConns[d]]
<1>1. ASSUME NEW k \in FreeConns,
             conn' = [conn EXCEPT ![k] = [client |-> c, socket |-> s, topics |-> {},
                                          active |-> TRUE]],
             wsConns' = [wsConns EXCEPT ![c] = k]
      PROVE  Goal
  <2>1. k \in Conns /\ k # None /\ \A d \in Clients : wsConns[d] # k
    BY WsAssumption DEF FreeConns
  <2>2. QED BY <1>1, <2>1
<1>2. ASSUME wsConns[c] # None, wsConns' = wsConns,
             conn' = [conn EXCEPT ![wsConns[c]].socket = s, ![wsConns[c]].active = TRUE]
      PROVE  Goal
  <2> DEFINE k == wsConns[c]
             r == [conn[k] EXCEPT !.socket = s, !.active = TRUE]
  <2>1. k \in Conns /\ conn[k].client = c /\ \A d \in Clients \ {c} : wsConns[d] # k
    BY <1>2
  <2>2. conn' = [conn EXCEPT ![k] = r]
    BY <1>2, Zenon
  <2>3. r.socket = s /\ r.active /\ r.client = c
    BY <2>1 DEF Connection
  <2>4. k # None /\ wsConns'[c] = k
    BY <1>2
  <2>5. \A d \in Clients : wsConns[d] # None => wsConns[d] \in Conns
    OBVIOUS
  <2> HIDE DEF k, r
  <2>6. conn'[k] = r /\ \A x \in Conns \ {k} : conn'[x] = conn[x]
    BY <2>1, <2>2
  <2>7. QED BY <1>2, <2>1, <2>3, <2>4, <2>5, <2>6
<1>3. ASSUME wsConns[c] # None, conn[wsConns[c]].socket = s, UNCHANGED <<wsConns, conn>>
      PROVE  Goal
  BY <1>3
<1>4. QED BY <1>1, <1>2, <1>3, Zenon DEF Register

LEMMA TakeEffect ==
    ASSUME RegistryOK, RegisteredIsUsable, NEW c \in Clients, Take(c)
    PROVE  /\ wsConns'[c] = None
           /\ \A d \in Clients \ {c} :
                 /\ wsConns'[d] = wsConns[d]
                 /\ wsConns[d] # None => conn'[wsConns[d]] = conn[wsConns[d]]
BY DEF RegistryOK, RegisteredIsUsable, Take

LEMMA UsableStep ==
    ASSUME TypeInv, RegisteredIsUsable, [Next]_vars
    PROVE  RegisteredIsUsable'
<1>1. RegistryOK
  BY DEF TypeInv
<1>2. CASE SameConnections
  BY <1>1, <1>2 DEF SameConnections, RegistryOK, RegisteredIsUsable
<1>3. ASSUME NEW c \in Clients, NEW s \in Sessions, Register(c, s) PROVE RegisteredIsUsable'
  <2>1. \A d \in Clients \ {c} :
           /\ wsConns'[d] = wsConns[d]
           /\ wsConns[d] # None => conn'[wsConns[d]] = conn[wsConns[d]]
    BY <1>1, <1>3, RegisterEffect, Zenon
  <2>2. conn'[wsConns'[c]].active /\ conn'[wsConns'[c]].client = c
    BY <1>1, <1>3, RegisterEffect, Zenon
  <2>3. QED BY <2>1, <2>2, Zenon DEF RegisteredIsUsable
<1>4. ASSUME NEW c \in Clients, Take(c) PROVE RegisteredIsUsable'
  <2>1. /\ wsConns'[c] = None
        /\ \A d \in Clients \ {c} :
              /\ wsConns'[d] = wsConns[d]
              /\ wsConns[d] # None => conn'[wsConns[d]] = conn[wsConns[d]]
    BY <1>1, <1>4, TakeEffect, Zenon
  <2>2. QED BY <2>1, Zenon DEF RegisteredIsUsable
<1>5. QED BY <1>2, <1>3, <1>4, RegistryStep, Zenon

LEMMA UsableInvariant == Spec => [](TypeInv /\ RegisteredIsUsable)
<1>1. Init => RegisteredIsUsable
  BY DEF Init, RegisteredIsUsable
<1>2. RegisteredIsUsable /\ TypeInv /\ [Next]_vars => RegisteredIsUsable'
  BY UsableStep, Zenon
<1>3. QED BY <1>1, <1>2, TypeInvariant, PTL DEF Spec

\* A connection found in ps.wsConns is active and is the one of the client it
\* was looked up for, for any number of sessions that take the same ids over,
\* leave or subscribe at once (registerWebSocket, cleanupWebSocketClient).
THEOREM Usable == Spec => []RegisteredIsUsable
BY UsableInvariant, PTL

-----------------------------------------------------------------------------
(* No zombies. *)

\* A step that leaves the registry as it is.
LEMMA SessionKept ==
    ASSUME TypeInv, SessionInv, SameConnections, NEW p \in Sessions, NEW r, SessionOK(p, r),
           r.id = act[p].id \/ Absent(p), act' = [act EXCEPT ![p] = r]
    PROVE  SessionInv'
<1>1. \A q \in Actors : act'[q] = IF q = p THEN r ELSE act[q]
  BY Apart DEF TypeInv, ActorsOK
<1>2. /\ wsConns' = wsConns
      /\ \A c \in Clients : wsConns[c] # None =>
            /\ conn[wsConns[c]].socket \in Sessions
            /\ conn'[wsConns[c]].socket = conn[wsConns[c]].socket
  BY DEF TypeInv, RegistryOK, SameConnections
<1>3. \A q \in Sessions : Absent(q) => Absent(q)'
  BY <1>2, Zenon DEF Absent
<1>4. ASSUME NEW q \in Sessions PROVE SessionOK(q, act[q])'
  <2>1. SessionOK(q, act'[q])
    BY <1>1, Apart, Zenon DEF SessionInv
  <2>2. QED BY <1>3, <2>1, Zenon DEF SessionOK
<1>5. ASSUME NEW c \in Clients, wsConns'[c] # None PROVE act'[conn'[wsConns'[c]].socket].id = c
  <2> DEFINE s == conn[wsConns[c]].socket
  <2>1. s \in Sessions /\ conn'[wsConns'[c]].socket = s /\ act[s].id = c
    BY <1>2, <1>5 DEF SessionInv
  <2>2. s = p => ~Absent(p)
    BY <1>2, <1>5 DEF Absent
  <2>3. act'[s].id = c
    BY <1>1, <2>1, <2>2, Apart
  <2>4. QED BY <2>1, <2>3, Zenon
<1>6. ASSUME NEW q \in Actors \ Sessions PROVE act'[q].pc \in {"wait", "rm.forget", "over"}
  BY <1>1, <1>6 DEF SessionInv
<1>7. QED BY <1>4, <1>5, <1>6, Zenon DEF SessionInv

\* A step that goes on with a call.
LEMMA Proceeds ==
    ASSUME TypeInv, SessionInv, SameConnections, NEW p \in Sessions, NEW r,
           r.id = act[p].id, r.client = act[p].client, r.socket = act[p].socket,
           \/ r.pc \in InSubscribe /\ act[p].pc \in InSubscribe
           \/ r.pc \in InUnsubscribe /\ act[p].pc \in InUnsubscribe
           \/ /\ r.pc \in {"cl.copy", "cl.topic", "cl.leave", "cl.drop"}
              /\ act[p].pc \in {"cl.copy", "cl.topic", "cl.leave", "cl.drop"},
           act' = [act EXCEPT ![p] = r]
    PROVE  SessionInv'
<1>1. SessionOK(p, act[p])
  BY DEF SessionInv
<1>2. SessionOK(p, r)
  BY <1>1 DEF SessionOK, InSubscribe, InUnsubscribe, InCleanup
<1>3. QED BY <1>2, SessionKept, Zenon

LEMMA WalksOn ==
    ASSUME TypeInv, SessionInv, SameConnections, NEW p \in Sessions, NEW pc, Goto(p, pc),
           \/ pc \in InSubscribe /\ act[p].pc \in InSubscribe
           \/ pc \in InUnsubscribe /\ act[p].pc \in InUnsubscribe
           \/ /\ pc \in {"cl.copy", "cl.topic", "cl.leave", "cl.drop"}
              /\ act[p].pc \in {"cl.copy", "cl.topic", "cl.leave", "cl.drop"}
    PROVE  SessionInv'
<1> DEFINE r == [act[p] EXCEPT !.pc = pc]
<1>1. act[p] \in Actor
  BY Apart DEF TypeInv, ActorsOK
<1>2. r.id = act[p].id /\ r.client = act[p].client /\ r.socket = act[p].socket /\ r.pc = pc
  BY <1>1 DEF Actor
<1>3. act' = [act EXCEPT ![p] = r]
  BY Zenon DEF Goto
<1> HIDE DEF r
<1>4. QED BY <1>2, <1>3, Proceeds, Zenon

\* A step that ends a call of a session.
LEMMA EndsCall ==
    ASSUME TypeInv, SessionInv, SameConnections, NEW p \in Sessions, Done(p)
    PROVE  SessionInv'
<1> DEFINE r == At("read", act[p].id)
<1>1. r.pc = "read" /\ r.id = act[p].id
  BY DEF At
<1>2. act' = [act EXCEPT ![p] = r]
  BY Zenon DEF Done
<1> HIDE DEF r
<1>3. SessionOK(p, r)
  BY <1>1 DEF SessionOK, InSubscribe, InUnsubscribe, InCleanup
<1>4. QED BY <1>1, <1>2, <1>3, SessionKept, Zenon

\* A step that ends a cleanup.
LEMMA EndsCleanup ==
    ASSUME TypeInv, SessionInv, SameConnections, NEW p \in Sessions, AfterCleanup(p), Absent(p)
    PROVE  SessionInv'
<1> DEFINE r == IF act[p].next # None
                THEN [At("register", act[p].id) EXCEPT !.next = act[p].next]
                ELSE At("over", None)
<1>1. r.pc \in {"register", "over"}
  BY DEF At
<1>2. act' = [act EXCEPT ![p] = r]
  BY Zenon DEF AfterCleanup
<1> HIDE DEF r
<1>3. SessionOK(p, r)
  BY <1>1 DEF SessionOK, InSubscribe, InUnsubscribe, InCleanup
<1>4. QED BY <1>2, <1>3, SessionKept, Zenon

\* A step that registers the socket of p for its id.
LEMMA SessionRegisters ==
    ASSUME TypeInv, RegisteredIsUsable, SessionInv, NEW p \in Sessions, NEW c \in Clients,
           Register(c, p), NEW r, r.id = c, r.pc \in {"list", "sub.conn"},
           r.pc = "sub.conn" => r.client = c /\ r.socket = p,
           act[p].id = c \/ Absent(p), act' = [act EXCEPT ![p] = r]
    PROVE  SessionInv'
<1>1. \A q \in Actors : act'[q] = IF q = p THEN r ELSE act[q]
  BY Apart DEF TypeInv, ActorsOK
<1>2. /\ wsConns'[c] # None /\ conn'[wsConns'[c]].socket = p
      /\ \A d \in Clients \ {c} :
            /\ wsConns'[d] = wsConns[d]
            /\ wsConns[d] # None => conn'[wsConns[d]] = conn[wsConns[d]]
  BY RegisterEffect, Zenon DEF TypeInv
<1>3. ASSUME NEW q \in Sessions \ {p}, Absent(q) PROVE Absent(q)'
  <2>1. ASSUME NEW d \in Clients, wsConns'[d] # None PROVE conn'[wsConns'[d]].socket # q
    <3>1. CASE d = c
      BY <1>2, <3>1
    <3>2. CASE d # c
      BY <1>2, <1>3, <2>1, <3>2 DEF Absent
    <3>3. QED BY <3>1, <3>2
  <2>2. QED BY <2>1, Zenon DEF Absent
<1>4. ASSUME NEW q \in Sessions PROVE SessionOK(q, act[q])'
  <2>1. CASE q = p
    <3>1. act'[q] = r
      BY <1>1, <2>1, Apart
    <3>2. SessionOK(q, r)'
      BY <2>1 DEF SessionOK, InSubscribe, InUnsubscribe, InCleanup
    <3>3. QED BY <3>1, <3>2, Zenon DEF SessionOK
  <2>2. CASE q # p
    <3>1. SessionOK(q, act'[q])
      BY <1>1, <2>2, Apart, Zenon DEF SessionInv
    <3>2. QED BY <1>3, <2>2, <3>1, Zenon DEF SessionOK
  <2>3. QED BY <2>1, <2>2
<1>5. ASSUME NEW d \in Clients, wsConns'[d] # None PROVE act'[conn'[wsConns'[d]].socket].id = d
  <2>1. CASE d = c
    BY <1>1, <1>2, <2>1, Apart
  <2>2. CASE d # c
    <3> DEFINE s == conn[wsConns[d]].socket
    <3>1. wsConns[d] # None /\ conn'[wsConns'[d]].socket = s
      BY <1>2, <1>5, <2>2, Zenon
    <3>2. s \in Sessions /\ act[s].id = d
      BY <3>1 DEF SessionInv, TypeInv, RegistryOK
    <3>3. s # p
      BY <2>2, <3>1, <3>2 DEF Absent
    <3>4. QED BY <1>1, <3>1, <3>2, <3>3, Apart, Zenon
  <2>3. QED BY <2>1, <2>2
<1>6. ASSUME NEW q \in Actors \ Sessions PROVE act'[q].pc \in {"wait", "rm.forget", "over"}
  BY <1>1, <1>6 DEF SessionInv
<1>7. QED BY <1>4, <1>5, <1>6, Zenon DEF SessionInv

\* The step that takes the connection of p's id out.
LEMMA SessionTakes ==
    ASSUME TypeInv, RegisteredIsUsable, SessionInv, NEW p \in Sessions,
           act[p].id \in Clients, Take(act[p].id), NEW r, r.id = act[p].id, r.pc = "cl.copy",
           r.client = r.id, r.socket = p, act' = [act EXCEPT ![p] = r]
    PROVE  SessionInv'
<1> DEFINE c == act[p].id
<1>1. \A q \in Actors : act'[q] = IF q = p THEN r ELSE act[q]
  BY Apart DEF TypeInv, ActorsOK
<1>2. /\ wsConns'[c] = None
      /\ \A d \in Clients \ {c} :
            /\ wsConns'[d] = wsConns[d]
            /\ wsConns[d] # None => conn'[wsConns[d]] = conn[wsConns[d]]
  BY TakeEffect, Zenon DEF TypeInv
<1>3. \A d \in Clients : wsConns'[d] # None =>
         /\ d # c /\ wsConns[d] # None
         /\ conn'[wsConns'[d]].socket = conn[wsConns[d]].socket
         /\ conn[wsConns[d]].socket \in Sessions /\ act[conn[wsConns[d]].socket].id = d
  <2>1. ASSUME NEW d \in Clients, wsConns'[d] # None
        PROVE  d # c /\ wsConns[d] # None /\ wsConns'[d] = wsConns[d]
               /\ conn'[wsConns[d]] = conn[wsConns[d]]
    BY <1>2, <2>1
  <2>2. ASSUME NEW d \in Clients, wsConns[d] # None
        PROVE  conn[wsConns[d]].socket \in Sessions /\ act[conn[wsConns[d]].socket].id = d
    BY <2>2, Zenon DEF SessionInv, TypeInv, RegistryOK
  <2>3. QED BY <2>1, <2>2, Zenon
<1>4. ASSUME NEW q \in Sessions, Absent(q) PROVE Absent(q)'
  BY <1>3, <1>4 DEF Absent
<1>5. Absent(p)'
  BY <1>3 DEF Absent
<1>6. ASSUME NEW q \in Sessions PROVE SessionOK(q, act[q])'
  <2>1. CASE q = p
    <3>1. act'[q] = r
      BY <1>1, <2>1, Apart
    <3>2. SessionOK(q, r)'
      BY <1>5, <2>1 DEF SessionOK, InSubscribe, InUnsubscribe, InCleanup
    <3>3. QED BY <3>1, <3>2, Zenon DEF SessionOK
  <2>2. CASE q # p
    <3>1. SessionOK(q, act'[q])
      BY <1>1, <2>2, Apart, Zenon DEF SessionInv
    <3>2. QED BY <1>4, <3>1, Zenon DEF SessionOK
  <2>3. QED BY <2>1, <2>2
<1>7. ASSUME NEW d \in Clients, wsConns'[d] # None PROVE act'[conn'[wsConns'[d]].socket].id = d
  <2> DEFINE s == conn[wsConns[d]].socket
  <2>1. d # c /\ s \in Sessions /\ act[s].id = d /\ conn'[wsConns'[d]].socket = s
    BY <1>3, <1>7, Zenon
  <2>2. s # p
    BY <2>1
  <2>3. QED BY <1>1, <2>1, <2>2, Apart, Zenon
<1>8. ASSUME NEW q \in Actors \ Sessions PROVE act'[q].pc \in {"wait", "rm.forget", "over"}
  BY <1>1, <1>8 DEF SessionInv
<1>9. QED BY <1>6, <1>7, <1>8, Zenon DEF SessionInv

\* The facts every case below starts from.
LEMMA OwnCall ==
    ASSUME TypeInv, SessionInv, NEW p \in Sessions
    PROVE  /\ act[p] \in Actor /\ LocalsSet(act[p]) /\ SessionOK(p, act[p])
           /\ act[p].id = None => Absent(p)
           /\ UNCHANGED <<wsConns, conn>> => SameConnections
<1>1. act[p] \in Actor /\ LocalsSet(act[p]) /\ SessionOK(p, act[p])
  BY Apart DEF TypeInv, ActorsOK, SessionInv
<1>2. act[p].id = None => Absent(p)
  BY Apart DEF SessionInv, Absent
<1>3. UNCHANGED <<wsConns, conn>> => SameConnections
  BY Untouched, Zenon DEF TypeInv
<1>4. QED BY <1>1, <1>2, <1>3, Zenon

LEMMA MessageKeeps ==
    ASSUME TypeInv, RegisteredIsUsable, SessionInv, NEW p \in Sessions,
           \/ \E c \in Clients : Ping(p, c)
           \/ \E t \in Topics : Handle(p, "sub.topic", t) \/ Handle(p, "uns.topic", t)
           \/ Registering(p) \/ Disconnect(p)
    PROVE  SessionInv'
<1>1. ASSUME NEW c \in Clients, Ping(p, c) PROVE SessionInv'
  <2> DEFINE r == IF act[p].id \notin {None, c}
                  THEN [act[p] EXCEPT !.pc = "cl.take", !.client = act[p].id, !.socket = p,
                                      !.next = c]
                  ELSE [act[p] EXCEPT !.pc = "register", !.next = c]
  <2>1. act' = [act EXCEPT ![p] = r] /\ SameConnections
    BY <1>1, OwnCall, Zenon DEF Ping
  <2>2. /\ r.id = act[p].id
        /\ \/ r.pc = "cl.take" /\ r.client = r.id /\ r.socket = p
           \/ r.pc = "register" /\ (r.next = r.id \/ act[p].id = None)
    <3>1. act[p] \in Actor
      BY OwnCall, Zenon
    <3>2. QED BY <3>1 DEF Actor
  <2> HIDE DEF r
  <2>3. act[p].id = None => Absent(p)
    BY OwnCall, Zenon
  <2>4. SessionOK(p, r)
    BY <2>2, <2>3 DEF SessionOK, InSubscribe, InUnsubscribe, InCleanup
  <2>5. QED BY <2>1, <2>2, <2>4, SessionKept, Zenon
<1>2. ASSUME NEW t \in Topics, NEW pc \in {"sub.topic", "uns.topic"}, Handle(p, pc, t)
      PROVE  SessionInv'
  <2> DEFINE r == [act[p] EXCEPT !.pc = pc, !.client = act[p].id, !.socket = p, !.topic = t]
  <2>1. act' = [act EXCEPT ![p] = r] /\ SameConnections
    BY <1>2, OwnCall, Zenon DEF Handle
  <2>2. r.id = act[p].id /\ r.pc = pc /\ r.client = r.id /\ r.socket = p
    <3>1. act[p] \in Actor
      BY OwnCall, Zenon
    <3>2. QED BY <3>1 DEF Actor
  <2> HIDE DEF r
  <2>3. SessionOK(p, r)
    BY <2>2 DEF SessionOK, InSubscribe, InUnsubscribe, InCleanup
  <2>4. QED BY <2>1, <2>2, <2>3, SessionKept, Zenon
<1>3. CASE PingRegister(p)
  <2> DEFINE c == act[p].next
             r == At("list", c)
  <2>1. act[p].pc = "register" /\ Register(c, p) /\ act' = [act EXCEPT ![p] = r]
    BY <1>3, Zenon DEF PingRegister
  <2>2. LocalsSet(act[p]) /\ SessionOK(p, act[p])
    BY OwnCall, Zenon
  <2>3. c \in Clients /\ (act[p].id = c \/ Absent(p))
    BY <2>1, <2>2 DEF LocalsSet, SessionOK
  <2>4. r.id = c /\ r.pc = "list"
    BY DEF At
  <2> HIDE DEF c, r
  <2>5. r.pc \in {"list", "sub.conn"} /\ r.pc # "sub.conn"
    BY <2>4
  <2>6. QED BY <2>1, <2>3, <2>4, <2>5, SessionRegisters, Zenon
<1>4. CASE PingList(p)
  BY <1>4, OwnCall, EndsCall, Zenon DEF PingList
<1>5. CASE Disconnect(p)
  <2> DEFINE pc == IF act[p].id = None THEN "over" ELSE "leave"
             r == [act[p] EXCEPT !.pc = pc]
  <2>1. act' = [act EXCEPT ![p] = r] /\ SameConnections
    BY <1>5, OwnCall, Zenon DEF Disconnect, Goto
  <2>2. r.id = act[p].id /\ (r.pc = "leave" \/ (r.pc = "over" /\ act[p].id = None))
    <3>1. act[p] \in Actor
      BY OwnCall, Zenon
    <3>2. QED BY <3>1 DEF Actor
  <2> HIDE DEF r
  <2>3. act[p].id = None => Absent(p)
    BY OwnCall, Zenon
  <2>4. SessionOK(p, r)
    BY <2>2, <2>3 DEF SessionOK, InSubscribe, InUnsubscribe, InCleanup
  <2>5. QED BY <2>1, <2>2, <2>4, SessionKept, Zenon
<1>6. QED BY <1>1, <1>2, <1>3, <1>4, <1>5, Zenon DEF Registering

LEMMA SubscribeKeeps ==
    ASSUME TypeInv, RegisteredIsUsable, SessionInv, NEW p \in Sessions, Subscribing(p)
    PROVE  SessionInv'
<1>1. CASE SubTopic(p)
  <2>1. PICK j \in WsTopicDatas : act' = [act EXCEPT ![p].pc = "sub.register", ![p].ref = j]
    BY <1>1, Zenon DEF SubTopic
  <2>2. act[p].pc = "sub.topic" /\ SameConnections
    BY <1>1, OwnCall, Zenon DEF SubTopic
  <2> DEFINE r == [act[p] EXCEPT !.pc = "sub.register", !.ref = j]
  <2>3. act' = [act EXCEPT ![p] = r]
    BY <2>1, Zenon
  <2>4. /\ r.id = act[p].id /\ r.client = act[p].client
      /\ r.socket = act[p].socket
        /\ r.pc = "sub.register"
    BY OwnCall DEF Actor
  <2> HIDE DEF r
  <2>5. r.pc \in InSubscribe /\ act[p].pc \in InSubscribe
    BY <2>2, <2>4 DEF InSubscribe
  <2>6. QED BY <2>2, <2>3, <2>4, <2>5, Proceeds, Zenon
<1>2. CASE SubRegister(p)
  <2> DEFINE c == act[p].client
             r == [act[p] EXCEPT !.pc = "sub.conn"]
  <2>1. act[p].pc = "sub.register" /\ Register(c, act[p].socket) /\ act' = [act EXCEPT ![p] = r]
    BY <1>2, Zenon DEF SubRegister, Goto
  <2>2. act[p] \in Actor /\ LocalsSet(act[p]) /\ SessionOK(p, act[p])
    BY OwnCall, Zenon
  <2>3. c \in Clients /\ act[p].id = c /\ act[p].socket = p
    BY <2>1, <2>2 DEF LocalsSet, SessionOK, InSubscribe
  <2>4. r.id = c /\ r.pc = "sub.conn" /\ r.client = c /\ r.socket = p
    BY <2>2, <2>3 DEF Actor
  <2>5. Register(c, p)
    BY <2>1, <2>3, Zenon
  <2> HIDE DEF c, r
  <2>6. r.pc \in {"list", "sub.conn"}
    BY <2>4
  <2>7. QED BY <2>1, <2>3, <2>4, <2>5, <2>6, SessionRegisters, Zenon
<1>3. CASE SubConn(p)
  <2> DEFINE r == [act[p] EXCEPT !.pc = "sub.join", !.obj = wsConns[act[p].client]]
  <2>1. act[p].pc = "sub.conn" /\ SameConnections
    BY <1>3, OwnCall, Zenon DEF SubConn
  <2>2. Done(p) \/ act' = [act EXCEPT ![p] = r]
    BY <1>3, Zenon DEF SubConn
  <2>3. /\ r.id = act[p].id /\ r.client = act[p].client
      /\ r.socket = act[p].socket
        /\ r.pc = "sub.join"
    BY OwnCall DEF Actor
  <2> HIDE DEF r
  <2>4. r.pc \in InSubscribe /\ act[p].pc \in InSubscribe
    BY <2>1, <2>3 DEF InSubscribe
  <2>5. QED BY <2>1, <2>2, <2>3, <2>4, Proceeds, EndsCall, Zenon
<1>4. CASE SubJoin(p)
  <2>1. "sub.mark" \in InSubscribe /\ act[p].pc \in InSubscribe
    BY <1>4 DEF SubJoin, InSubscribe
  <2>2. QED BY <1>4, <2>1, OwnCall, WalksOn, Zenon DEF SubJoin
<1>5. CASE SubMark(p)
  <2>1. SameConnections
    BY <1>5, Apart, Marks
  <2>2. QED BY <1>5, <2>1, EndsCall, Zenon DEF SubMark
<1>6. QED BY <1>1, <1>2, <1>3, <1>4, <1>5, Zenon DEF Subscribing

LEMMA UnsubscribeKeeps ==
    ASSUME TypeInv, SessionInv, NEW p \in Sessions, Unsubscribing(p)
    PROVE  SessionInv'
<1>1. CASE UnsTopic(p)
  <2> DEFINE r == [act[p] EXCEPT !.pc = "uns.conn", !.ref = wsSubscribers[act[p].topic]]
  <2>1. act[p].pc = "uns.topic" /\ SameConnections
    BY <1>1, OwnCall, Zenon DEF UnsTopic
  <2>2. Done(p) \/ act' = [act EXCEPT ![p] = r]
    BY <1>1, Zenon DEF UnsTopic
  <2>3. /\ r.id = act[p].id /\ r.client = act[p].client
      /\ r.socket = act[p].socket
        /\ r.pc = "uns.conn"
    BY OwnCall DEF Actor
  <2> HIDE DEF r
  <2>4. r.pc \in InUnsubscribe /\ act[p].pc \in InUnsubscribe
    BY <2>1, <2>3 DEF InUnsubscribe
  <2>5. QED BY <2>1, <2>2, <2>3, <2>4, Proceeds, EndsCall, Zenon
<1>2. CASE UnsConn(p)
  <2> DEFINE k == wsConns[act[p].client]
             r == [act[p] EXCEPT !.pc = IF k = None THEN "uns.leave" ELSE "uns.forget", !.obj = k]
  <2>1. act[p].pc = "uns.conn" /\ SameConnections /\ act' = [act EXCEPT ![p] = r]
    BY <1>2, OwnCall, Zenon DEF UnsConn
  <2>2. /\ r.id = act[p].id /\ r.client = act[p].client
      /\ r.socket = act[p].socket
        /\ r.pc \in {"uns.leave", "uns.forget"}
    BY OwnCall DEF Actor
  <2> HIDE DEF r
  <2>3. r.pc \in InUnsubscribe /\ act[p].pc \in InUnsubscribe
    BY <2>1, <2>2 DEF InUnsubscribe
  <2>4. QED BY <2>1, <2>2, <2>3, Proceeds, Zenon
<1>3. CASE UnsForget(p)
  <2>1. SameConnections
    BY <1>3, Apart, Forgets
  <2>2. "uns.leave" \in InUnsubscribe /\ act[p].pc \in InUnsubscribe
    BY <1>3 DEF UnsForget, InUnsubscribe
  <2>3. QED BY <1>3, <2>1, <2>2, WalksOn, Zenon DEF UnsForget
<1>4. CASE UnsLeave(p)
  <2>1. "uns.drop" \in InUnsubscribe /\ act[p].pc \in InUnsubscribe
    BY <1>4 DEF UnsLeave, InUnsubscribe
  <2>2. SameConnections /\ (Goto(p, "uns.drop") \/ Done(p))
    BY <1>4, OwnCall, Zenon DEF UnsLeave, LeaveTopic
  <2>3. QED BY <2>1, <2>2, WalksOn, EndsCall, Zenon
<1>5. CASE UnsDrop(p)
  BY <1>5, OwnCall, EndsCall, Zenon DEF UnsDrop
<1>6. QED BY <1>1, <1>2, <1>3, <1>4, <1>5, Zenon DEF Unsubscribing

LEMMA CleanupKeeps ==
    ASSUME TypeInv, RegisteredIsUsable, SessionInv, NEW p \in Sessions, Cleaning(p)
    PROVE  SessionInv'
<1> DEFINE Cleaned == {"cl.copy", "cl.topic", "cl.leave", "cl.drop"}
<1>1. act[p].pc \in Cleaned => Absent(p)
  BY OwnCall DEF SessionOK
<1>2. CASE Leave(p)
  <2> DEFINE r == [act[p] EXCEPT !.pc = "cl.take", !.client = act[p].id, !.socket = p]
  <2>1. act' = [act EXCEPT ![p] = r] /\ SameConnections
    BY <1>2, OwnCall, Zenon DEF Leave
  <2>2. r.id = act[p].id /\ r.pc = "cl.take" /\ r.client = r.id /\ r.socket = p
    BY OwnCall DEF Actor
  <2> HIDE DEF r
  <2>3. SessionOK(p, r)
    BY <2>2 DEF SessionOK, InSubscribe, InUnsubscribe, InCleanup
  <2>4. QED BY <2>1, <2>2, <2>3, SessionKept, Zenon
<1>3. CASE CleanTake(p)
  <2> DEFINE c == act[p].id
             k == wsConns[c]
             r == [act[p] EXCEPT !.pc = "cl.copy", !.obj = k]
  <2>1. act[p].pc = "cl.take"
    BY <1>3, Zenon DEF CleanTake
  <2>2. act[p].client = c /\ act[p].socket = p /\ c \in Clients
    BY <2>1, OwnCall DEF SessionOK, LocalsSet, InSubscribe, InUnsubscribe, InCleanup
  <2>3. CASE k # None /\ conn[k].socket = p
    <3>1. Take(c) /\ act' = [act EXCEPT ![p] = r]
      BY <1>3, <2>2, <2>3, Zenon DEF CleanTake, Take, SameSocket
    <3>2. r.id = c /\ r.pc = "cl.copy" /\ r.client = r.id /\ r.socket = p
      BY <2>2, OwnCall DEF Actor
    <3> HIDE DEF r
    <3>3. QED BY <2>2, <3>1, <3>2, SessionTakes, Zenon
  <2>4. CASE ~(k # None /\ conn[k].socket = p)
    <3>1. AfterCleanup(p) /\ SameConnections
      BY <1>3, <2>2, <2>4, OwnCall, Zenon DEF CleanTake, SameSocket
    <3>2. Absent(p)
      BY <2>4 DEF SessionInv, Absent
    <3>3. QED BY <3>1, <3>2, EndsCleanup, Zenon
  <2>5. QED BY <2>3, <2>4, Zenon
<1>4. CASE CleanCopy(p)
  <2> DEFINE r == [act[p] EXCEPT !.pc = "cl.topic", !.todo = conn[act[p].obj].topics]
  <2>1. act[p].pc = "cl.copy" /\ SameConnections /\ act' = [act EXCEPT ![p] = r]
    BY <1>4, OwnCall, Zenon DEF CleanCopy
  <2>2. /\ r.id = act[p].id /\ r.client = act[p].client
      /\ r.socket = act[p].socket
        /\ r.pc = "cl.topic"
    BY OwnCall DEF Actor
  <2> HIDE DEF r
  <2>3. r.pc \in Cleaned /\ act[p].pc \in Cleaned
    BY <2>1, <2>2
  <2>4. QED BY <2>1, <2>2, <2>3, Proceeds, Zenon
<1>5. CASE CleanTopic(p)
  <2>1. act[p].pc = "cl.topic" /\ SameConnections
    BY <1>5, OwnCall, Zenon DEF CleanTopic
  <2>2. ASSUME NEW t,
               act' = [act EXCEPT ![p].pc = IF wsSubscribers[t] = None THEN "cl.topic"
                                            ELSE "cl.leave",
                                  ![p].topic = t, ![p].ref = wsSubscribers[t],
                                  ![p].todo = @ \ {t}]
        PROVE  SessionInv'
    <3> DEFINE j == wsSubscribers[t]
               d == act[p].todo \ {t}
               r == [act[p] EXCEPT !.pc = IF j = None THEN "cl.topic" ELSE "cl.leave",
                                   !.topic = t, !.ref = j, !.todo = d]
    <3>1. act' = [act EXCEPT ![p] = r]
      BY <2>2, Zenon
    <3>2. /\ r.id = act[p].id /\ r.client = act[p].client
      /\ r.socket = act[p].socket
          /\ r.pc \in {"cl.topic", "cl.leave"}
      BY OwnCall DEF Actor
    <3> HIDE DEF r
    <3>3. r.pc \in Cleaned /\ act[p].pc \in Cleaned
      BY <2>1, <3>2
    <3>4. QED BY <2>1, <3>1, <3>2, <3>3, Proceeds, Zenon
  <2>3. AfterCleanup(p) => SessionInv'
    BY <1>1, <2>1, EndsCleanup, Zenon
  <2>4. QED BY <1>5, <2>2, <2>3, Zenon DEF CleanTopic
<1>6. CASE CleanLeave(p)
  <2>1. act[p].pc \in Cleaned /\ SameConnections
    BY <1>6, OwnCall, Zenon DEF CleanLeave, LeaveTopic
  <2>2. \E pc \in Cleaned : Goto(p, pc)
    BY <1>6, Zenon DEF CleanLeave, LeaveTopic
  <2>3. QED BY <2>1, <2>2, WalksOn, Zenon
<1>7. CASE CleanDrop(p)
  <2>1. act[p].pc \in Cleaned /\ SameConnections
    BY <1>7, OwnCall, Zenon DEF CleanDrop
  <2>2. \E pc \in Cleaned : Goto(p, pc)
    BY <1>7, Zenon DEF CleanDrop
  <2>3. QED BY <2>1, <2>2, WalksOn, Zenon
<1>8. QED BY <1>2, <1>3, <1>4, <1>5, <1>6, <1>7, Zenon DEF Cleaning

\* A step that is no session's.
LEMMA OthersKeep ==
    ASSUME TypeInv, SessionInv, SameConnections,
           \A q \in Sessions : act'[q] = act[q],
           \A q \in Actors \ Sessions : act'[q].pc \in {"wait", "rm.forget", "over"}
    PROVE  SessionInv'
<1>1. /\ wsConns' = wsConns
      /\ \A c \in Clients : wsConns[c] # None =>
            /\ conn[wsConns[c]].socket \in Sessions
            /\ conn'[wsConns[c]].socket = conn[wsConns[c]].socket
  BY DEF TypeInv, RegistryOK, SameConnections
<1>2. \A q \in Sessions : Absent(q) => Absent(q)'
  BY <1>1, Zenon DEF Absent
<1>3. ASSUME NEW q \in Sessions PROVE SessionOK(q, act[q])'
  BY <1>2, Zenon DEF SessionInv, SessionOK
<1>4. ASSUME NEW c \in Clients, wsConns'[c] # None PROVE act'[conn'[wsConns'[c]].socket].id = c
  BY <1>1, <1>4, Zenon DEF SessionInv
<1>5. QED BY <1>3, <1>4, Zenon DEF SessionInv

LEMMA RemovalKeeps ==
    ASSUME TypeInv, SessionInv, NEW p \in {"remove"} \X Removals,
           RemoveTopic(p) \/ RemoveForget(p)
    PROVE  SessionInv'
<1>1. p \in Actors \ Sessions /\ act \in [Actors -> Actor]
  BY Apart DEF TypeInv, ActorsOK
<1>2. PICK r : act' = [act EXCEPT ![p] = r] /\ r.pc \in {"rm.forget", "over"}
  <2>1. CASE RemoveTopic(p)
    <3> DEFINE r == [act[p] EXCEPT !.pc = "rm.forget", !.ref = wsSubscribers[p[2]]]
    <3>1. act' = [act EXCEPT ![p] = r]
      BY <2>1, Zenon DEF RemoveTopic
    <3>2. r.pc = "rm.forget"
      BY <1>1 DEF Actor
    <3> HIDE DEF r
    <3>3. QED BY <3>1, <3>2, Zenon
  <2>2. CASE RemoveForget(p)
    <3> DEFINE r == At("over", None)
    <3>1. act' = [act EXCEPT ![p] = r]
      BY <2>2, Zenon DEF RemoveForget
    <3>2. r.pc = "over"
      BY DEF At
    <3> HIDE DEF r
    <3>3. QED BY <3>1, <3>2, Zenon
  <2>3. QED BY <2>1, <2>2, Zenon
<1>3. /\ \A q \in Sessions : act'[q] = act[q]
      /\ \A q \in Actors \ Sessions : act'[q].pc \in {"wait", "rm.forget", "over"}
  BY <1>1, <1>2, Apart DEF SessionInv
<1>4. SameConnections
  <2>1. CASE RemoveTopic(p)
    BY <2>1, Untouched, Zenon DEF RemoveTopic, TypeInv
  <2>2. CASE RemoveForget(p)
    BY <2>2, Erased, Zenon
  <2>3. QED BY <2>1, <2>2, Zenon
<1>5. QED BY <1>3, <1>4, OthersKeep, Zenon

LEMMA SessionStep ==
    ASSUME Directs = {}, TypeInv, RegisteredIsUsable, SessionInv, [Next]_vars
    PROVE  SessionInv'
<1>1. ASSUME UNCHANGED <<wsConns, conn, act>> PROVE SessionInv'
  BY <1>1, Zenon DEF SessionInv, SessionOK, Absent
<1>2. ASSUME NEW p \in Sessions,
             \/ \E c \in Clients : Ping(p, c)
             \/ \E t \in Topics : Handle(p, "sub.topic", t) \/ Handle(p, "uns.topic", t)
             \/ Registering(p) \/ Cleaning(p) \/ CloseOld(p) \/ Disconnect(p)
      PROVE  SessionInv'
  <2>1. CloseOld(p) => SessionInv'
    BY <1>1, Zenon DEF CloseOld
  <2>2. QED BY <1>2, <2>1, MessageKeeps, CleanupKeeps, Zenon
<1>3. ASSUME NEW p \in Actors, Subscribing(p) \/ Unsubscribing(p) PROVE SessionInv'
  <2>1. p \in Sessions
    BY <1>3 DEF SessionInv, Subscribing, SubTopic, SubRegister, SubConn, SubJoin, SubMark,
                Unsubscribing, UnsTopic, UnsConn, UnsForget, UnsLeave, UnsDrop
  <2>2. QED BY <1>3, <2>1, SubscribeKeeps, UnsubscribeKeeps, Zenon
<1>4. ASSUME NEW p \in {"remove"} \X Removals, RemoveTopic(p) \/ RemoveForget(p)
      PROVE  SessionInv'
  BY <1>4, RemovalKeeps, Zenon
<1>5. {"direct"} \X Directs = {}
  OBVIOUS
<1>6. UNCHANGED vars => SessionInv'
  BY <1>1, Zenon DEF vars
<1>7. QED BY <1>2, <1>3, <1>4, <1>5, <1>6, Zenon DEF Next

\* A registered connection belongs to a session that has its client's id and
\* has not cleaned up yet, so that a socket whose session is over is never sent
\* to: for any number of sessions and clients, takeovers and id changes
\* included, as long as nobody calls PublishToIDWithAck.
THEOREM HasSession == ASSUME Directs = {} PROVE Spec => []RegisteredHasSession
<1>1. Init => SessionInv
  <2> SUFFICES ASSUME Init PROVE SessionInv
    OBVIOUS
  <2>1. \A p \in Actors : act[p] = IF p \in Sessions THEN At("read", None) ELSE At("wait", None)
    BY DEF Init
  <2>2. \A p \in Actors : act[p].pc = IF p \in Sessions THEN "read" ELSE "wait"
    BY <2>1 DEF At
  <2>3. \A p \in Sessions : SessionOK(p, act[p])
    BY <2>2, Apart DEF SessionOK, InSubscribe, InUnsubscribe, InCleanup
  <2>4. \A c \in Clients : wsConns[c] = None
    BY DEF Init
  <2>5. QED BY <2>2, <2>3, <2>4, Zenon DEF SessionInv
<1>2. TypeInv /\ RegisteredIsUsable /\ SessionInv /\ [Next]_vars => SessionInv'
  BY SessionStep, Zenon
<1>3. TypeInv /\ SessionInv => RegisteredHasSession
  BY DEF TypeInv, RegistryOK, SessionInv, SessionOK, Absent, RegisteredHasSession
<1>4. QED BY <1>1, <1>2, <1>3, UsableInvariant, PTL DEF Spec

-----------------------------------------------------------------------------
(* What a step does to the actor that takes it, field by field. *)

Alone(p) == \A q \in Actors \ {p} : act'[q] = act[q]

\* All the locals but the pc, and those of the call only.
SameOwner(p) == act'[p].id = act[p].id /\ act'[p].next = act[p].next
SameCall(p) ==
    /\ SameOwner(p)
    /\ act'[p].client = act[p].client /\ act'[p].socket = act[p].socket
    /\ act'[p].topic = act[p].topic
SameLocals(p) ==
    /\ SameCall(p)
    /\ act'[p].ref = act[p].ref /\ act'[p].obj = act[p].obj /\ act'[p].todo = act[p].todo

Becomes(p, r) == act' = [act EXCEPT ![p] = r]

LEMMA Replaced ==
    ASSUME ActorsOK, NEW p \in Actors, NEW r, act' = [act EXCEPT ![p] = r]
    PROVE  Alone(p) /\ act'[p] = r
BY DEF ActorsOK, Alone

LEMMA GotoEffect ==
    ASSUME ActorsOK, NEW p \in Actors, NEW pc, Goto(p, pc)
    PROVE  Alone(p) /\ SameLocals(p) /\ act'[p].pc = pc
<1> DEFINE r == [act[p] EXCEPT !.pc = pc]
<1>1. act[p] \in Actor
  BY DEF ActorsOK
<1>2. /\ r.pc = pc /\ r.id = act[p].id /\ r.client = act[p].client
      /\ r.socket = act[p].socket
      /\ r.topic = act[p].topic /\ r.ref = act[p].ref /\ r.obj = act[p].obj
      /\ r.todo = act[p].todo /\ r.next = act[p].next
  BY <1>1 DEF Actor
<1>3. act' = [act EXCEPT ![p] = r]
  BY Zenon DEF Goto
<1> HIDE DEF r
<1>4. Alone(p) /\ act'[p] = r
  BY <1>3, Replaced, Zenon
<1>5. QED BY <1>2, <1>4, Zenon DEF SameLocals, SameCall, SameOwner

\* The record a finished call leaves behind.
Blank(r) ==
    /\ r.client = None /\ r.socket = None /\ r.topic = None /\ r.ref = None /\ r.obj = None
    /\ r.todo = {}

LEMMA AtFields ==
    ASSUME NEW pc, NEW id
    PROVE  At(pc, id).pc = pc /\ At(pc, id).id = id /\ At(pc, id).next = None /\ Blank(At(pc, id))
BY DEF At, Blank

LEMMA DoneEffect ==
    ASSUME ActorsOK, NEW p \in Actors, Done(p)
    PROVE  /\ Alone(p)
           /\ \/ /\ p \in Sessions /\ Blank(act'[p])
                 /\ act'[p].pc = "read" /\ act'[p].id = act[p].id /\ act'[p].next = None
              \/ /\ p \notin Sessions /\ p[1] = "direct" /\ act[p].pc \in {"sub.conn", "sub.mark"}
                 /\ act'[p].pc = "uns.topic" /\ SameCall(p) /\ act'[p].ref = None
                 /\ act'[p].todo = act[p].todo
              \/ /\ p \notin Sessions
                 /\ ~(p[1] = "direct" /\ act[p].pc \in {"sub.conn", "sub.mark"})
                 /\ act'[p].pc = "over" /\ Blank(act'[p])
                 /\ act'[p].id = None /\ act'[p].next = None
<1> DEFINE a == At("read", act[p].id)
           b == [act[p] EXCEPT !.pc = "uns.topic", !.ref = None, !.obj = None]
           c == At("over", None)
<1>1. CASE p \in Sessions
  <2>1. act' = [act EXCEPT ![p] = a]
    BY <1>1, Zenon DEF Done
  <2>2. Alone(p) /\ act'[p] = a
    BY <2>1, Replaced, Zenon
  <2>3. a.pc = "read" /\ a.id = act[p].id /\ a.next = None /\ Blank(a)
    BY AtFields, Zenon
  <2> HIDE DEF a
  <2>4. QED BY <1>1, <2>2, <2>3, Zenon
<1>2. CASE p \notin Sessions /\ p[1] = "direct" /\ act[p].pc \in {"sub.conn", "sub.mark"}
  <2>1. act' = [act EXCEPT ![p] = b]
    BY <1>2, Zenon DEF Done
  <2>2. /\ b.pc = "uns.topic" /\ b.id = act[p].id /\ b.client = act[p].client
        /\ b.socket = act[p].socket /\ b.topic = act[p].topic /\ b.ref = None
        /\ b.todo = act[p].todo /\ b.next = act[p].next
    BY DEF Actor, ActorsOK
  <2> HIDE DEF b
  <2>3. Alone(p) /\ act'[p] = b
    BY <2>1, Replaced, Zenon
  <2>4. QED BY <1>2, <2>2, <2>3, Zenon DEF SameCall, SameOwner
<1>3. CASE p \notin Sessions /\ ~(p[1] = "direct" /\ act[p].pc \in {"sub.conn", "sub.mark"})
  <2>1. act' = [act EXCEPT ![p] = c]
    BY <1>3, Zenon DEF Done
  <2>2. Alone(p) /\ act'[p] = c
    BY <2>1, Replaced, Zenon
  <2>3. c.pc = "over" /\ c.id = None /\ c.next = None /\ Blank(c)
    BY AtFields, Zenon
  <2> HIDE DEF c
  <2>4. QED BY <1>3, <2>2, <2>3, Zenon
<1>4. QED BY <1>1, <1>2, <1>3, Zenon

LEMMA AfterEffect ==
    ASSUME ActorsOK, NEW p \in Actors, AfterCleanup(p)
    PROVE  /\ Alone(p) /\ Blank(act'[p])
           /\ \/ /\ act[p].next # None
                 /\ act'[p].pc = "register" /\ SameOwner(p)
              \/ act'[p].pc = "over" /\ act'[p].id = None /\ act'[p].next = None
<1> DEFINE a == [At("register", act[p].id) EXCEPT !.next = act[p].next]
           b == At("over", None)
<1>1. CASE act[p].next # None
  <2>1. act' = [act EXCEPT ![p] = a]
    BY <1>1, Zenon DEF AfterCleanup
  <2>2. Blank(a) /\ a.pc = "register" /\ a.id = act[p].id /\ a.next = act[p].next
    BY DEF At, Blank
  <2> HIDE DEF a
  <2>3. Alone(p) /\ act'[p] = a
    BY <2>1, Replaced, Zenon
  <2>4. QED BY <1>1, <2>2, <2>3, Zenon DEF SameOwner
<1>2. CASE act[p].next = None
  <2>1. act' = [act EXCEPT ![p] = b]
    BY <1>2, Zenon DEF AfterCleanup
  <2>2. Alone(p) /\ act'[p] = b
    BY <2>1, Replaced, Zenon
  <2>3. b.pc = "over" /\ b.id = None /\ b.next = None /\ Blank(b)
    BY AtFields, Zenon
  <2> HIDE DEF b
  <2>4. QED BY <1>2, <2>2, <2>3, Zenon
<1>3. QED BY <1>1, <1>2, Zenon

LEMMA HandleEffect ==
    ASSUME ActorsOK, NEW p \in Actors, NEW pc, NEW t, Handle(p, pc, t)
    PROVE  /\ act[p].pc = "read"
           /\ Alone(p) /\ SameOwner(p)
           /\ act'[p].pc = pc /\ act'[p].client = act[p].id
           /\ act'[p].socket = p /\ act'[p].topic = t
           /\ act'[p].ref = act[p].ref /\ act'[p].obj = act[p].obj
           /\ act'[p].todo = act[p].todo
<1> DEFINE r == [act[p] EXCEPT !.pc = pc, !.client = act[p].id, !.socket = p, !.topic = t]
<1>1. act' = [act EXCEPT ![p] = r] /\ act[p].pc = "read"
  BY Zenon DEF Handle
<1>2. /\ r.pc = pc /\ r.id = act[p].id /\ r.client = act[p].id /\ r.socket = p
      /\ r.topic = t /\ r.ref = act[p].ref
      /\ r.obj = act[p].obj /\ r.todo = act[p].todo
      /\ r.next = act[p].next
  BY DEF ActorsOK, Actor
<1> HIDE DEF r
<1>3. Alone(p) /\ act'[p] = r
  BY <1>1, Replaced, Zenon
<1>4. QED BY <1>1, <1>2, <1>3, Zenon DEF SameOwner

LEMMA LeaveEffect ==
    ASSUME ActorsOK, NEW p \in Actors, Leave(p)
    PROVE  /\ act[p].pc = "leave"
           /\ Alone(p) /\ SameOwner(p)
           /\ act'[p].pc = "cl.take" /\ act'[p].client = act[p].id
           /\ act'[p].socket = p
           /\ act'[p].topic = act[p].topic /\ act'[p].ref = act[p].ref
           /\ act'[p].obj = act[p].obj /\ act'[p].todo = act[p].todo
<1> DEFINE r == [act[p] EXCEPT !.pc = "cl.take", !.client = act[p].id, !.socket = p]
<1>1. act' = [act EXCEPT ![p] = r] /\ act[p].pc = "leave"
  BY Zenon DEF Leave
<1>2. /\ r.pc = "cl.take" /\ r.id = act[p].id /\ r.client = act[p].id /\ r.socket = p
      /\ r.topic = act[p].topic /\ r.ref = act[p].ref
      /\ r.obj = act[p].obj /\ r.todo = act[p].todo
      /\ r.next = act[p].next
  BY DEF ActorsOK, Actor
<1> HIDE DEF r
<1>3. Alone(p) /\ act'[p] = r
  BY <1>1, Replaced, Zenon
<1>4. QED BY <1>1, <1>2, <1>3, Zenon DEF SameOwner

LEMMA CleanCopyEffect ==
    ASSUME ActorsOK, NEW p \in Actors, CleanCopy(p)
    PROVE  /\ act[p].pc = "cl.copy"
           /\ Alone(p) /\ SameCall(p)
           /\ act'[p].pc = "cl.topic" /\ act'[p].todo = conn[act[p].obj].topics
           /\ act'[p].ref = act[p].ref /\ act'[p].obj = act[p].obj
<1> DEFINE r == [act[p] EXCEPT !.pc = "cl.topic", !.todo = conn[act[p].obj].topics]
<1>1. act' = [act EXCEPT ![p] = r] /\ act[p].pc = "cl.copy"
  BY Zenon DEF CleanCopy
<1>2. /\ r.pc = "cl.topic" /\ r.id = act[p].id /\ r.client = act[p].client
      /\ r.socket = act[p].socket
      /\ r.topic = act[p].topic /\ r.ref = act[p].ref
      /\ r.obj = act[p].obj /\ r.todo = conn[act[p].obj].topics
      /\ r.next = act[p].next
  BY DEF ActorsOK, Actor
<1> HIDE DEF r
<1>3. Alone(p) /\ act'[p] = r
  BY <1>1, Replaced, Zenon
<1>4. QED BY <1>1, <1>2, <1>3, Zenon DEF SameCall, SameOwner

LEMMA DirectEffect ==
    ASSUME ActorsOK, NEW p \in Actors, NEW c, Direct(p, c)
    PROVE  /\ act[p].pc = "wait"
           /\ Alone(p) /\ SameOwner(p)
           /\ act'[p].pc = "sub.topic" /\ act'[p].client = c
           /\ act'[p].socket = connections[c] /\ act'[p].topic = p[2]
           /\ act'[p].ref = act[p].ref /\ act'[p].obj = act[p].obj
           /\ act'[p].todo = act[p].todo
<1> DEFINE r == [act[p] EXCEPT !.pc = "sub.topic", !.client = c, !.socket = connections[c],
                         !.topic = p[2]]
<1>1. act' = [act EXCEPT ![p] = r] /\ act[p].pc = "wait"
  BY Zenon DEF Direct
<1>2. /\ r.pc = "sub.topic" /\ r.id = act[p].id /\ r.client = c /\ r.socket = connections[c]
      /\ r.topic = p[2] /\ r.ref = act[p].ref
      /\ r.obj = act[p].obj /\ r.todo = act[p].todo
      /\ r.next = act[p].next
  BY DEF ActorsOK, Actor
<1> HIDE DEF r
<1>3. Alone(p) /\ act'[p] = r
  BY <1>1, Replaced, Zenon
<1>4. QED BY <1>1, <1>2, <1>3, Zenon DEF SameOwner

LEMMA RemoveTopicEffect ==
    ASSUME ActorsOK, NEW p \in Actors, RemoveTopic(p)
    PROVE  /\ act[p].pc = "wait"
           /\ Alone(p) /\ SameCall(p)
           /\ act'[p].pc = "rm.forget" /\ act'[p].ref = wsSubscribers[p[2]]
           /\ act'[p].obj = act[p].obj /\ act'[p].todo = act[p].todo
<1> DEFINE r == [act[p] EXCEPT !.pc = "rm.forget", !.ref = wsSubscribers[p[2]]]
<1>1. act' = [act EXCEPT ![p] = r] /\ act[p].pc = "wait"
  BY Zenon DEF RemoveTopic
<1>2. /\ r.pc = "rm.forget" /\ r.id = act[p].id /\ r.client = act[p].client
      /\ r.socket = act[p].socket
      /\ r.topic = act[p].topic /\ r.ref = wsSubscribers[p[2]]
      /\ r.obj = act[p].obj /\ r.todo = act[p].todo
      /\ r.next = act[p].next
  BY DEF ActorsOK, Actor
<1> HIDE DEF r
<1>3. Alone(p) /\ act'[p] = r
  BY <1>1, Replaced, Zenon
<1>4. QED BY <1>1, <1>2, <1>3, Zenon DEF SameCall, SameOwner

LEMMA FoundEffect ==
    ASSUME ActorsOK, NEW p \in Actors, NEW pc, NEW j,
           Becomes(p, [act[p] EXCEPT !.pc = pc, !.ref = j])
    PROVE  /\ Alone(p) /\ SameCall(p)
           /\ act'[p].pc = pc /\ act'[p].ref = j
           /\ act'[p].obj = act[p].obj /\ act'[p].todo = act[p].todo
<1> DEFINE r == [act[p] EXCEPT !.pc = pc, !.ref = j]
<1>1. act' = [act EXCEPT ![p] = r]
  BY Zenon DEF Becomes
<1>2. /\ r.pc = pc /\ r.id = act[p].id /\ r.client = act[p].client
      /\ r.socket = act[p].socket
      /\ r.topic = act[p].topic /\ r.ref = j /\ r.obj = act[p].obj /\ r.todo = act[p].todo
      /\ r.next = act[p].next
  BY DEF ActorsOK, Actor
<1> HIDE DEF r
<1>3. Alone(p) /\ act'[p] = r
  BY <1>1, Replaced, Zenon
<1>4. QED BY <1>1, <1>2, <1>3, Zenon DEF SameCall, SameOwner

LEMMA LookedEffect ==
    ASSUME ActorsOK, NEW p \in Actors, NEW pc, NEW k,
           Becomes(p, [act[p] EXCEPT !.pc = pc, !.obj = k])
    PROVE  /\ Alone(p) /\ SameCall(p)
           /\ act'[p].pc = pc /\ act'[p].obj = k
           /\ act'[p].ref = act[p].ref /\ act'[p].todo = act[p].todo
<1> DEFINE r == [act[p] EXCEPT !.pc = pc, !.obj = k]
<1>1. act' = [act EXCEPT ![p] = r]
  BY Zenon DEF Becomes
<1>2. /\ r.pc = pc /\ r.id = act[p].id /\ r.client = act[p].client
      /\ r.socket = act[p].socket
      /\ r.topic = act[p].topic /\ r.ref = act[p].ref /\ r.obj = k /\ r.todo = act[p].todo
      /\ r.next = act[p].next
  BY DEF ActorsOK, Actor
<1> HIDE DEF r
<1>3. Alone(p) /\ act'[p] = r
  BY <1>1, Replaced, Zenon
<1>4. QED BY <1>1, <1>2, <1>3, Zenon DEF SameCall, SameOwner

LEMMA VisitedEffect ==
    ASSUME ActorsOK, NEW p \in Actors, NEW pc, NEW t, NEW j,
           Becomes(p, [act[p] EXCEPT !.pc = pc, !.topic = t, !.ref = j,
                                     !.todo = act[p].todo \ {t}])
    PROVE  /\ Alone(p) /\ SameOwner(p)
           /\ act'[p].pc = pc /\ act'[p].topic = t
           /\ act'[p].ref = j /\ act'[p].todo = act[p].todo \ {t}
           /\ act'[p].client = act[p].client /\ act'[p].socket = act[p].socket
           /\ act'[p].obj = act[p].obj
<1> DEFINE r == [act[p] EXCEPT !.pc = pc, !.topic = t, !.ref = j, !.todo = act[p].todo \ {t}]
<1>1. act' = [act EXCEPT ![p] = r]
  BY Zenon DEF Becomes
<1>2. /\ r.pc = pc /\ r.id = act[p].id /\ r.client = act[p].client
      /\ r.socket = act[p].socket
      /\ r.topic = t /\ r.ref = j /\ r.obj = act[p].obj /\ r.todo = act[p].todo \ {t}
      /\ r.next = act[p].next
  BY DEF ActorsOK, Actor
<1> HIDE DEF r
<1>3. Alone(p) /\ act'[p] = r
  BY <1>1, Replaced, Zenon
<1>4. QED BY <1>1, <1>2, <1>3, Zenon DEF SameOwner

LEMMA PingEffect ==
    ASSUME ActorsOK, NEW p \in Actors, NEW c, Ping(p, c)
    PROVE  /\ act[p].pc = "read" /\ c \in Ids[p]
           /\ Alone(p) /\ act'[p].id = act[p].id /\ act'[p].next = c
           /\ \/ /\ act[p].id \notin {None, c}
                 /\ act'[p].pc = "cl.take" /\ act'[p].client = act[p].id /\ act'[p].socket = p
              \/ act[p].id \in {None, c} /\ act'[p].pc = "register"
<1> DEFINE a == [act[p] EXCEPT !.pc = "cl.take", !.client = act[p].id, !.socket = p, !.next = c]
           b == [act[p] EXCEPT !.pc = "register", !.next = c]
           r == IF act[p].id \notin {None, c} THEN a ELSE b
<1>1. act' = [act EXCEPT ![p] = r] /\ act[p].pc = "read" /\ c \in Ids[p]
  BY Zenon DEF Ping
<1>2. /\ a.pc = "cl.take" /\ a.client = act[p].id /\ a.socket = p /\ a.next = c
      /\ a.id = act[p].id
      /\ b.pc = "register" /\ b.id = act[p].id /\ b.next = c
  BY DEF ActorsOK, Actor
<1> HIDE DEF a, b
<1>3. Alone(p) /\ act'[p] = r
  BY <1>1, Replaced, Zenon
<1>4. QED BY <1>1, <1>2, <1>3

LEMMA PingRegisterEffect ==
    ASSUME ActorsOK, NEW p \in Actors, PingRegister(p)
    PROVE  /\ act[p].pc = "register" /\ Register(act[p].next, p)
           /\ Alone(p) /\ Blank(act'[p])
           /\ act'[p].pc = "list" /\ act'[p].id = act[p].next /\ act'[p].next = None
<1> DEFINE r == At("list", act[p].next)
<1>1. act' = [act EXCEPT ![p] = r] /\ act[p].pc = "register" /\ Register(act[p].next, p)
  BY Zenon DEF PingRegister
<1>2. r.pc = "list" /\ r.id = act[p].next /\ r.next = None /\ Blank(r)
  BY AtFields, Zenon
<1> HIDE DEF r
<1>3. Alone(p) /\ act'[p] = r
  BY <1>1, Replaced, Zenon
<1>4. QED BY <1>1, <1>2, <1>3, Zenon

LEMMA RemoveForgetEffect ==
    ASSUME ActorsOK, NEW p \in Actors, RemoveForget(p)
    PROVE  /\ act[p].pc = "rm.forget"
           /\ Alone(p) /\ Blank(act'[p])
           /\ act'[p].pc = "over" /\ act'[p].id = None /\ act'[p].next = None
<1> DEFINE r == At("over", None)
<1>1. act' = [act EXCEPT ![p] = r] /\ act[p].pc = "rm.forget"
  BY Zenon DEF RemoveForget
<1>2. r.pc = "over" /\ r.id = None /\ r.next = None /\ Blank(r)
  BY AtFields, Zenon
<1> HIDE DEF r
<1>3. Alone(p) /\ act'[p] = r
  BY <1>1, Replaced, Zenon
<1>4. QED BY <1>1, <1>2, <1>3, Zenon

LEMMA SubTopicEffect ==
    ASSUME ActorsOK, NEW p \in Actors, SubTopic(p)
    PROVE  /\ act[p].pc = "sub.topic"
           /\ Alone(p) /\ SameCall(p) /\ act'[p].pc = "sub.register"
           /\ act'[p].ref \in WsTopicDatas
           /\ \/ /\ wsSubscribers[act[p].topic] = act'[p].ref
                 /\ UNCHANGED <<wsSubscribers, members>>
              \/ /\ wsSubscribers[act[p].topic] = None /\ act'[p].ref \in FreeTopicDatas
                 /\ wsSubscribers' = [wsSubscribers EXCEPT ![act[p].topic] = act'[p].ref]
                 /\ members' = [members EXCEPT ![act'[p].ref] = [c \in Clients |-> None]]
<1> DEFINE t == act[p].topic
<1>1. PICK j \in WsTopicDatas :
         /\ \/ wsSubscribers[t] = j /\ UNCHANGED <<wsSubscribers, members>>
            \/ /\ wsSubscribers[t] = None /\ j \in FreeTopicDatas
               /\ wsSubscribers' = [wsSubscribers EXCEPT ![t] = j]
               /\ members' = [members EXCEPT ![j] = [c \in Clients |-> None]]
         /\ act' = [act EXCEPT ![p].pc = "sub.register", ![p].ref = j]
  BY Zenon DEF SubTopic
<1>2. act[p].pc = "sub.topic"
  BY Zenon DEF SubTopic
<1>3. Becomes(p, [act[p] EXCEPT !.pc = "sub.register", !.ref = j])
  BY <1>1, Zenon DEF Becomes
<1>4. Alone(p) /\ SameCall(p) /\ act'[p].pc = "sub.register" /\ act'[p].ref = j
  BY <1>3, FoundEffect, Zenon
<1>5. QED BY <1>1, <1>2, <1>4, Zenon

LEMMA SubConnEffect ==
    ASSUME ActorsOK, NEW p \in Actors, SubConn(p)
    PROVE  /\ act[p].pc = "sub.conn"
           /\ \/ wsConns[act[p].client] = None /\ Done(p)
              \/ /\ wsConns[act[p].client] # None
                 /\ Alone(p) /\ SameCall(p) /\ act'[p].pc = "sub.join"
                 /\ act'[p].ref = act[p].ref /\ act'[p].obj = wsConns[act[p].client]
<1> DEFINE k == wsConns[act[p].client]
<1>1. /\ act[p].pc = "sub.conn"
      /\ k = None => Done(p)
      /\ k # None => Becomes(p, [act[p] EXCEPT !.pc = "sub.join", !.obj = k])
  BY Zenon DEF SubConn, Becomes
<1> HIDE DEF k
<1>2. ASSUME Becomes(p, [act[p] EXCEPT !.pc = "sub.join", !.obj = k])
      PROVE  /\ Alone(p) /\ SameCall(p) /\ act'[p].pc = "sub.join"
             /\ act'[p].ref = act[p].ref /\ act'[p].obj = k
  BY <1>2, LookedEffect, Zenon
<1>3. QED BY <1>1, <1>2, Zenon DEF k

LEMMA UnsTopicEffect ==
    ASSUME ActorsOK, NEW p \in Actors, UnsTopic(p)
    PROVE  /\ act[p].pc = "uns.topic"
           /\ \/ wsSubscribers[act[p].topic] = None /\ Done(p)
              \/ /\ wsSubscribers[act[p].topic] # None
                 /\ Alone(p) /\ SameCall(p) /\ act'[p].pc = "uns.conn"
                 /\ act'[p].ref = wsSubscribers[act[p].topic]
<1> DEFINE j == wsSubscribers[act[p].topic]
<1>1. /\ act[p].pc = "uns.topic"
      /\ j = None => Done(p)
      /\ j # None => Becomes(p, [act[p] EXCEPT !.pc = "uns.conn", !.ref = j])
  BY Zenon DEF UnsTopic, Becomes
<1> HIDE DEF j
<1>2. ASSUME Becomes(p, [act[p] EXCEPT !.pc = "uns.conn", !.ref = j])
      PROVE  Alone(p) /\ SameCall(p) /\ act'[p].pc = "uns.conn" /\ act'[p].ref = j
  BY <1>2, FoundEffect, Zenon
<1>3. QED BY <1>1, <1>2, Zenon DEF j

LEMMA UnsConnEffect ==
    ASSUME ActorsOK, NEW p \in Actors, UnsConn(p)
    PROVE  /\ act[p].pc = "uns.conn"
           /\ Alone(p) /\ SameCall(p) /\ act'[p].ref = act[p].ref
           /\ \/ wsConns[act[p].client] = None /\ act'[p].pc = "uns.leave"
              \/ /\ wsConns[act[p].client] # None /\ act'[p].pc = "uns.forget"
                 /\ act'[p].obj = wsConns[act[p].client]
<1> DEFINE k == wsConns[act[p].client]
           pc == IF k = None THEN "uns.leave" ELSE "uns.forget"
<1>1. /\ act[p].pc = "uns.conn"
      /\ Becomes(p, [act[p] EXCEPT !.pc = pc, !.obj = k])
  BY Zenon DEF UnsConn, Becomes
<1>2. \/ k = None /\ pc = "uns.leave"
      \/ k # None /\ pc = "uns.forget"
  OBVIOUS
<1> HIDE DEF k, pc
<1>3. Becomes(p, [act[p] EXCEPT !.pc = pc, !.obj = k])
  BY <1>1, Zenon
<1>4. /\ Alone(p) /\ SameCall(p) /\ act'[p].pc = pc
      /\ act'[p].ref = act[p].ref /\ act'[p].obj = k
  BY <1>3, LookedEffect, Zenon
<1>5. QED BY <1>1, <1>2, <1>4, Zenon DEF k

LEMMA CleanTakeEffect ==
    ASSUME ActorsOK, NEW p \in Actors, CleanTake(p)
    PROVE  LET k == wsConns[act[p].client] IN
           /\ act[p].pc = "cl.take"
           /\ \/ /\ k # None /\ conn[k].socket = act[p].socket
                 /\ Take(act[p].client)
                 /\ Alone(p) /\ SameCall(p) /\ act'[p].pc = "cl.copy" /\ act'[p].obj = k
              \/ /\ ~(k # None /\ conn[k].socket = act[p].socket)
                 /\ AfterCleanup(p) /\ UNCHANGED <<wsConns, conn>>
<1> DEFINE c == act[p].client
           k == wsConns[c]
<1>1. CASE k # None /\ conn[k].socket = act[p].socket
  <2>1. act[p].pc = "cl.take" /\ Take(c)
    BY <1>1, Zenon DEF CleanTake, Take, SameSocket
  <2>2. Becomes(p, [act[p] EXCEPT !.pc = "cl.copy", !.obj = k])
    BY <1>1, Zenon DEF CleanTake, SameSocket, Becomes
  <2> HIDE DEF k
  <2>3. Alone(p) /\ SameCall(p) /\ act'[p].pc = "cl.copy" /\ act'[p].obj = k
    BY <2>2, LookedEffect, Zenon
  <2>4. QED BY <1>1, <2>1, <2>3, Zenon DEF k
<1>2. CASE ~(k # None /\ conn[k].socket = act[p].socket)
  BY <1>2, Zenon DEF CleanTake, SameSocket
<1>3. QED BY <1>1, <1>2, Zenon

LEMMA CleanTopicEffect ==
    ASSUME ActorsOK, NEW p \in Actors, CleanTopic(p)
    PROVE  /\ act[p].pc = "cl.topic"
           /\ \/ act[p].todo = {} /\ AfterCleanup(p)
              \/ \E t \in act[p].todo :
                    /\ Alone(p) /\ SameOwner(p)
                    /\ act'[p].client = act[p].client /\ act'[p].socket = act[p].socket
                    /\ act'[p].topic = t /\ act'[p].ref = wsSubscribers[t]
                    /\ act'[p].todo = act[p].todo \ {t}
                    /\ \/ wsSubscribers[t] = None /\ act'[p].pc = "cl.topic"
                       \/ wsSubscribers[t] # None /\ act'[p].pc = "cl.leave"
<1>1. act[p].pc = "cl.topic"
  BY Zenon DEF CleanTopic
<1>2. CASE act[p].todo = {} /\ AfterCleanup(p)
  BY <1>1, <1>2, Zenon
<1>3. ASSUME NEW t \in act[p].todo,
             act' = [act EXCEPT ![p].pc = IF wsSubscribers[t] = None THEN "cl.topic"
                                          ELSE "cl.leave",
                                ![p].topic = t, ![p].ref = wsSubscribers[t],
                                ![p].todo = @ \ {t}]
      PROVE  /\ Alone(p) /\ SameOwner(p)
             /\ act'[p].client = act[p].client /\ act'[p].socket = act[p].socket
             /\ act'[p].topic = t /\ act'[p].ref = wsSubscribers[t]
             /\ act'[p].todo = act[p].todo \ {t}
             /\ \/ wsSubscribers[t] = None /\ act'[p].pc = "cl.topic"
                \/ wsSubscribers[t] # None /\ act'[p].pc = "cl.leave"
  <2> DEFINE j == wsSubscribers[t]
             pc == IF j = None THEN "cl.topic" ELSE "cl.leave"
  <2>1. Becomes(p, [act[p] EXCEPT !.pc = pc, !.topic = t, !.ref = j,
                                 !.todo = act[p].todo \ {t}])
    BY <1>3, Zenon DEF Becomes
  <2>2. \/ j = None /\ pc = "cl.topic"
        \/ j # None /\ pc = "cl.leave"
    OBVIOUS
  <2> HIDE DEF j, pc
  <2>3. /\ Alone(p) /\ SameOwner(p)
        /\ act'[p].pc = pc /\ act'[p].topic = t
        /\ act'[p].ref = j /\ act'[p].todo = act[p].todo \ {t}
        /\ act'[p].client = act[p].client /\ act'[p].socket = act[p].socket
        /\ act'[p].obj = act[p].obj
    BY <2>1, VisitedEffect, Zenon
  <2>4. QED BY <2>2, <2>3, Zenon DEF j
<1>4. QED BY <1>1, <1>2, <1>3, Zenon DEF CleanTopic

-----------------------------------------------------------------------------
(* Sessions whose peers have ids of their own. *)

IdsApart == \A s, r \in Sessions : s # r => Ids[s] \cap Ids[r] = {}

\* A session works for the id its own peer gave it, a program's call for a
\* client that was listed with the socket it uses, on its private topic.
OwnSession(p, r) ==
    /\ r.id # None => r.id \in Ids[p]
    /\ r.next # None => r.next \in Ids[p]
    /\ r.pc \in InSubscribe \cup InUnsubscribe \cup InCleanup => r.client = r.id
    /\ r.pc \in InSubscribe \cup InCleanup => r.socket = p
    /\ r.pc \in InSubscribe \cup InUnsubscribe => r.topic \in Topics
    /\ r.pc \in InCleanup => r.next # r.id
    /\ r.pc \in InSubscribe \cup InUnsubscribe \cup {"read", "list", "leave"} => r.next = None
    /\ r.pc \in InSubscribe \cup InUnsubscribe => r.id # None
OwnProgram(p, r) ==
    /\ r.pc \in InSubscribe \cup InUnsubscribe \cup {"wait", "rm.forget", "over"}
    /\ r.pc \in InSubscribe \cup InUnsubscribe => p[1] = "direct" /\ r.topic = p[2]
    /\ r.pc \in InSubscribe => r.client \in Ids[r.socket]
OwnActor(p, r) ==
    /\ p \in Sessions => OwnSession(p, r)
    /\ p \notin Sessions => OwnProgram(p, r)

OwnActors == \A p \in Actors : OwnActor(p, act[p])
ListedOwn == \A c \in Clients : connections[c] # None => c \in Ids[connections[c]]
HeldOwn == \A c \in Clients : wsConns[c] # None => c \in Ids[conn[wsConns[c]].socket]
OwnCalls == OwnActors /\ ListedOwn /\ HeldOwn

LEMMA OwnKept ==
    ASSUME OwnActors, NEW p \in Actors, Alone(p), OwnActor(p, act'[p])
    PROVE  OwnActors'
<1>1. \A q \in Actors : OwnActor(q, act'[q])
  BY Zenon DEF OwnActors, Alone
<1>2. QED BY <1>1, Zenon DEF OwnActors, OwnActor, OwnSession, OwnProgram

\* A step that keeps the call and stays in it keeps OwnActor.
LEMMA OwnWalk ==
    ASSUME OwnActors, NEW p \in Actors, Alone(p), SameCall(p),
           \/ act[p].pc \in InSubscribe /\ act'[p].pc \in InSubscribe
           \/ act[p].pc \in InUnsubscribe /\ act'[p].pc \in InUnsubscribe
           \/ act[p].pc \in InCleanup /\ act'[p].pc \in InCleanup
    PROVE  OwnActors'
<1>1. OwnActor(p, act[p])
  BY DEF OwnActors
<1>2. OwnActor(p, act'[p])
  BY <1>1 DEF SameCall, SameOwner, OwnActor, OwnSession, OwnProgram, InSubscribe, InUnsubscribe,
              InCleanup
<1>3. QED BY <1>2, OwnKept, Zenon

LEMMA OwnDone ==
    ASSUME ActorsOK, OwnActors, NEW p \in Actors, Done(p)
    PROVE  OwnActors'
<1>1. OwnActor(p, act[p])
  BY DEF OwnActors
<1>2. Alone(p)
  BY DoneEffect, Zenon
<1>3. OwnActor(p, act'[p])
  BY <1>1, DoneEffect
  DEF SameCall, SameOwner, OwnActor, OwnSession, OwnProgram, InSubscribe, InUnsubscribe, InCleanup
<1>4. QED BY <1>2, <1>3, OwnKept, Zenon

LEMMA OwnGoto ==
    ASSUME ActorsOK, OwnActors, NEW p \in Actors, NEW pc, Goto(p, pc),
           \/ act[p].pc \in InSubscribe /\ pc \in InSubscribe
           \/ act[p].pc \in InUnsubscribe /\ pc \in InUnsubscribe
           \/ act[p].pc \in InCleanup /\ pc \in InCleanup
    PROVE  OwnActors'
BY GotoEffect, OwnWalk, Zenon DEF SameLocals

LEMMA OwnMessages ==
    ASSUME ActorsOK, OwnActors, NEW p \in Sessions,
           \/ \E c \in Clients : Ping(p, c)
           \/ \E t \in Topics : Handle(p, "sub.topic", t) \/ Handle(p, "uns.topic", t)
           \/ Registering(p) \/ Disconnect(p) \/ CloseOld(p)
    PROVE  OwnActors'
<1>1. p \in Actors /\ OwnActor(p, act[p]) /\ LocalsSet(act[p])
  BY Apart DEF OwnActors, ActorsOK
<1> USE DEF OwnActor, OwnSession, InSubscribe, InUnsubscribe, InCleanup
<1>2. ASSUME NEW c \in Clients, Ping(p, c) PROVE OwnActors'
  <2>1. Alone(p)
    BY <1>1, <1>2, PingEffect, Zenon
  <2>2. OwnActor(p, act'[p])
    BY <1>1, <1>2, PingEffect, WsAssumption
  <2>3. QED BY <1>1, <2>1, <2>2, OwnKept, Zenon
<1>3. ASSUME NEW t \in Topics, NEW pc \in {"sub.topic", "uns.topic"}, Handle(p, pc, t)
      PROVE  OwnActors'
  <2>1. Alone(p)
    BY <1>1, <1>3, HandleEffect, Zenon
  <2>2. act[p].id # None
    BY <1>3, Zenon DEF Handle
  <2>3. OwnActor(p, act'[p])
    BY <1>1, <1>3, <2>2, HandleEffect DEF SameOwner
  <2>4. QED BY <1>1, <2>1, <2>3, OwnKept, Zenon
<1>4. CASE PingRegister(p)
  <2>1. Alone(p)
    BY <1>1, <1>4, PingRegisterEffect, Zenon
  <2>2. OwnActor(p, act'[p])
    BY <1>1, <1>4, PingRegisterEffect
  <2>3. QED BY <1>1, <2>1, <2>2, OwnKept, Zenon
<1>5. CASE PingList(p)
  BY <1>1, <1>5, OwnDone, Zenon DEF PingList
<1>6. CASE Disconnect(p)
  <2>1. PICK pc \in {"over", "leave"} : Goto(p, pc) /\ act[p].pc = "read"
    BY <1>6 DEF Disconnect
  <2>2. Alone(p)
    BY <1>1, <2>1, GotoEffect, Zenon
  <2>3. OwnActor(p, act'[p])
    BY <1>1, <2>1, GotoEffect DEF SameLocals, SameCall, SameOwner
  <2>4. QED BY <1>1, <2>2, <2>3, OwnKept, Zenon
<1>7. CASE CloseOld(p)
  BY <1>7, Zenon DEF CloseOld, OwnActors, OwnActor, OwnSession, OwnProgram
<1>8. QED BY <1>2, <1>3, <1>4, <1>5, <1>6, <1>7, Zenon DEF Registering

LEMMA OwnSubscribes ==
    ASSUME ActorsOK, OwnActors, NEW p \in Actors, Subscribing(p)
    PROVE  OwnActors'
<1>1. CASE SubTopic(p)
  <2>1. Alone(p) /\ SameCall(p) /\ act[p].pc = "sub.topic" /\ act'[p].pc = "sub.register"
    BY <1>1, SubTopicEffect, Zenon
  <2>2. QED BY <2>1, OwnWalk DEF InSubscribe
<1>2. CASE SubRegister(p)
  <2>1. act[p].pc \in InSubscribe /\ "sub.conn" \in InSubscribe /\ Goto(p, "sub.conn")
    BY <1>2 DEF SubRegister, InSubscribe
  <2>2. QED BY <2>1, OwnGoto, Zenon
<1>3. CASE SubConn(p)
  <2>1. \/ Done(p)
        \/ Alone(p) /\ SameCall(p) /\ act[p].pc = "sub.conn" /\ act'[p].pc = "sub.join"
    BY <1>3, SubConnEffect, Zenon
  <2>2. QED BY <2>1, OwnDone, OwnWalk DEF InSubscribe
<1>4. CASE SubJoin(p)
  <2>1. act[p].pc \in InSubscribe /\ "sub.mark" \in InSubscribe /\ Goto(p, "sub.mark")
    BY <1>4 DEF SubJoin, InSubscribe
  <2>2. QED BY <2>1, OwnGoto, Zenon
<1>5. CASE SubMark(p)
  BY <1>5, OwnDone, Zenon DEF SubMark
<1>6. QED BY <1>1, <1>2, <1>3, <1>4, <1>5, Zenon DEF Subscribing

LEMMA OwnUnsubscribes ==
    ASSUME ActorsOK, OwnActors, NEW p \in Actors, Unsubscribing(p)
    PROVE  OwnActors'
<1>1. CASE UnsTopic(p)
  <2>1. \/ Done(p)
        \/ Alone(p) /\ SameCall(p) /\ act[p].pc = "uns.topic" /\ act'[p].pc = "uns.conn"
    BY <1>1, UnsTopicEffect, Zenon
  <2>2. QED BY <2>1, OwnDone, OwnWalk DEF InUnsubscribe
<1>2. CASE UnsConn(p)
  <2>1. /\ Alone(p) /\ SameCall(p) /\ act[p].pc = "uns.conn"
        /\ act'[p].pc \in {"uns.leave", "uns.forget"}
    BY <1>2, UnsConnEffect
  <2>2. QED BY <2>1, OwnWalk DEF InUnsubscribe
<1>3. CASE UnsForget(p)
  <2>1. act[p].pc \in InUnsubscribe /\ "uns.leave" \in InUnsubscribe /\ Goto(p, "uns.leave")
    BY <1>3 DEF UnsForget, InUnsubscribe
  <2>2. QED BY <2>1, OwnGoto, Zenon
<1>4. CASE UnsLeave(p)
  <2>1. act[p].pc \in InUnsubscribe /\ "uns.drop" \in InUnsubscribe
    BY <1>4 DEF UnsLeave, InUnsubscribe
  <2>2. Goto(p, "uns.drop") \/ Done(p)
    BY <1>4, Zenon DEF UnsLeave, LeaveTopic
  <2>3. QED BY <2>1, <2>2, OwnGoto, OwnDone, Zenon
<1>5. CASE UnsDrop(p)
  BY <1>5, OwnDone, Zenon DEF UnsDrop
<1>6. QED BY <1>1, <1>2, <1>3, <1>4, <1>5, Zenon DEF Unsubscribing

LEMMA OwnCleans ==
    ASSUME ActorsOK, OwnActors, NEW p \in Sessions, Cleaning(p)
    PROVE  OwnActors'
<1>1. p \in Actors /\ OwnActor(p, act[p]) /\ LocalsSet(act[p])
  BY Apart DEF OwnActors, ActorsOK
<1>2. CASE Leave(p)
  <2>1. Alone(p)
    BY <1>1, <1>2, LeaveEffect, Zenon
  <2>2. OwnActor(p, act'[p])
    BY <1>1, <1>2, LeaveEffect, WsAssumption
    DEF SameOwner, LocalsSet, OwnActor, OwnSession, InSubscribe, InUnsubscribe, InCleanup
  <2>3. QED BY <1>1, <2>1, <2>2, OwnKept, Zenon
<1>3. ASSUME act[p].pc \in {"cl.take", "cl.topic"}, AfterCleanup(p) PROVE OwnActors'
  <2>1. Alone(p)
    BY <1>1, <1>3, AfterEffect, Zenon
  <2>2. OwnActor(p, act'[p])
    BY <1>1, <1>3, AfterEffect
    DEF SameOwner, OwnActor, OwnSession, InSubscribe, InUnsubscribe, InCleanup
  <2>3. QED BY <1>1, <2>1, <2>2, OwnKept, Zenon
<1>4. CASE CleanTake(p)
  <2>1. /\ act[p].pc = "cl.take"
        /\ AfterCleanup(p) \/ (Alone(p) /\ SameCall(p) /\ act'[p].pc = "cl.copy")
    BY <1>1, <1>4, CleanTakeEffect, Zenon
  <2>2. QED BY <1>1, <1>3, <2>1, OwnWalk DEF InCleanup
<1>5. CASE CleanCopy(p)
  <2>1. act[p].pc \in InCleanup /\ "cl.topic" \in InCleanup
    BY <1>5 DEF CleanCopy, InCleanup
  <2>2. QED BY <1>1, <1>5, <2>1, CleanCopyEffect, OwnWalk, Zenon
<1>6. CASE CleanTopic(p)
  <2>1. /\ act[p].pc = "cl.topic"
        /\ \/ AfterCleanup(p)
           \/ /\ Alone(p) /\ SameOwner(p) /\ act'[p].pc \in {"cl.topic", "cl.leave"}
              /\ act'[p].client = act[p].client /\ act'[p].socket = act[p].socket
    BY <1>1, <1>6, CleanTopicEffect
  <2>2. CASE AfterCleanup(p)
    BY <1>3, <2>1, <2>2
  <2>3. CASE ~AfterCleanup(p)
    <3>1. OwnActor(p, act'[p])
      BY <1>1, <2>1, <2>3
      DEF SameOwner, OwnActor, OwnSession, InSubscribe, InUnsubscribe, InCleanup
    <3>2. QED BY <1>1, <2>1, <2>3, <3>1, OwnKept, Zenon
  <2>4. QED BY <2>2, <2>3
<1>7. CASE CleanLeave(p)
  <2>1. act[p].pc \in InCleanup /\ "cl.drop" \in InCleanup /\ "cl.topic" \in InCleanup
    BY <1>7 DEF CleanLeave, InCleanup
  <2>2. Goto(p, "cl.drop") \/ Goto(p, "cl.topic")
    BY <1>7, Zenon DEF CleanLeave, LeaveTopic
  <2>3. QED BY <1>1, <2>1, <2>2, OwnGoto, Zenon
<1>8. CASE CleanDrop(p)
  <2>1. act[p].pc \in InCleanup /\ "cl.topic" \in InCleanup /\ Goto(p, "cl.topic")
    BY <1>8 DEF CleanDrop, InCleanup
  <2>2. QED BY <1>1, <2>1, OwnGoto, Zenon
<1>9. QED BY <1>2, <1>4, <1>5, <1>6, <1>7, <1>8, Zenon DEF Cleaning

LEMMA OwnStep ==
    ASSUME TypeInv, OwnCalls, [Next]_vars
    PROVE  OwnActors'
<1>1. ActorsOK /\ OwnActors
  BY DEF TypeInv, OwnCalls
<1>2. ASSUME NEW p \in Sessions,
             \/ \E c \in Clients : Ping(p, c)
             \/ \E t \in Topics : Handle(p, "sub.topic", t) \/ Handle(p, "uns.topic", t)
             \/ Registering(p) \/ Cleaning(p) \/ CloseOld(p) \/ Disconnect(p)
      PROVE  OwnActors'
  BY <1>1, <1>2, OwnMessages, OwnCleans, Zenon
<1>3. ASSUME NEW p \in Actors, Subscribing(p) \/ Unsubscribing(p) PROVE OwnActors'
  BY <1>1, <1>3, OwnSubscribes, OwnUnsubscribes, Zenon
<1>4. ASSUME NEW p \in {"remove"} \X Removals, RemoveTopic(p) \/ RemoveForget(p)
      PROVE  OwnActors'
  <2>1. p \in Actors /\ p \notin Sessions
    BY Apart
  <2>2. Alone(p) /\ act'[p].pc \in {"rm.forget", "over"}
    BY <1>1, <1>4, <2>1, RemoveTopicEffect, RemoveForgetEffect
  <2>3. OwnActor(p, act'[p])
    BY <2>1, <2>2 DEF OwnActor, OwnProgram, InSubscribe, InUnsubscribe
  <2>4. QED BY <1>1, <2>1, <2>2, <2>3, OwnKept, Zenon
<1>5. ASSUME NEW p \in {"direct"} \X Directs, NEW c \in Clients, Direct(p, c) PROVE OwnActors'
  <2>1. p \in Actors /\ p \notin Sessions /\ p[1] = "direct"
    BY Apart
  <2>2. c \in Ids[connections[c]]
    BY <1>5, Zenon DEF OwnCalls, ListedOwn, Direct
  <2>3. Alone(p)
    BY <1>1, <1>5, <2>1, DirectEffect, Zenon
  <2>4. OwnActor(p, act'[p])
    BY <1>1, <1>5, <2>1, <2>2, DirectEffect DEF OwnActor, OwnProgram, InSubscribe, InUnsubscribe
  <2>5. QED BY <1>1, <2>1, <2>3, <2>4, OwnKept, Zenon
<1>6. UNCHANGED vars => OwnActors'
  BY <1>1, Zenon DEF vars, OwnActors, OwnActor, OwnSession, OwnProgram
<1>7. QED BY <1>2, <1>3, <1>4, <1>5, <1>6, Zenon DEF Next

\* Who changes the registry: a ping or a subscription registers, a cleanup
\* takes out.
LEMMA ConnectionStep ==
    ASSUME TypeInv, [Next]_vars
    PROVE  \/ SameConnections
           \/ \E p \in Sessions : PingRegister(p)
           \/ \E p \in Actors : SubRegister(p)
           \/ \E p \in Sessions : CleanTake(p)
<1>1. UNCHANGED <<wsConns, conn>> => SameConnections
  BY Untouched, Zenon DEF TypeInv
<1>2. ASSUME NEW p \in Actors, Subscribing(p) PROVE SameConnections \/ SubRegister(p)
  BY <1>1, <1>2, Marks, Zenon DEF Subscribing, SubTopic, SubConn, SubJoin
<1>3. ASSUME NEW p \in Actors, Unsubscribing(p) PROVE SameConnections
  BY <1>1, <1>3, Forgets, Zenon
  DEF Unsubscribing, UnsTopic, UnsConn, UnsLeave, LeaveTopic, UnsDrop
<1>4. ASSUME NEW p \in Sessions, Cleaning(p) PROVE SameConnections \/ CleanTake(p)
  BY <1>1, <1>4, Zenon
  DEF Cleaning, Leave, CleanCopy, CleanTopic, CleanLeave, LeaveTopic, CleanDrop
<1>5. ASSUME NEW p \in Sessions, Registering(p) PROVE SameConnections \/ PingRegister(p)
  BY <1>1, <1>5, Zenon DEF Registering, PingList
<1>6. ASSUME NEW p, RemoveForget(p) PROVE SameConnections
  BY <1>6, Erased, Zenon
<1>7. QED
  BY <1>1, <1>2, <1>3, <1>4, <1>5, <1>6, Zenon
  DEF Next, vars, Ping, Handle, CloseOld, Disconnect, RemoveTopic, Direct

\* The client and the socket that a step registers go together.
LEMMA Registration ==
    ASSUME TypeInv, OwnActors, NEW p \in Actors,
           (p \in Sessions /\ PingRegister(p)) \/ SubRegister(p)
    PROVE  \E c \in Clients, s \in Sessions :
              /\ Register(c, s) /\ c \in Ids[s]
              /\ p \in Sessions => act'[p].id = c
<1>1. LocalsSet(act[p]) /\ OwnActor(p, act[p]) /\ ActorsOK
  BY DEF TypeInv, ActorsOK, OwnActors
<1>2. CASE p \in Sessions /\ PingRegister(p)
  <2> DEFINE c == act[p].next
  <2>1. act[p].pc = "register" /\ Register(c, p) /\ act'[p].id = c
    BY <1>1, <1>2, PingRegisterEffect, Zenon
  <2>2. c \in Clients /\ c \in Ids[p]
    BY <1>1, <1>2, <2>1, WsAssumption DEF LocalsSet, OwnActor, OwnSession
  <2>3. QED BY <1>2, <2>1, <2>2, Zenon
<1>3. CASE SubRegister(p)
  <2> DEFINE c == act[p].client
             s == act[p].socket
  <2>1. act[p].pc = "sub.register" /\ Register(c, s) /\ Goto(p, "sub.conn")
    BY <1>3, Zenon DEF SubRegister
  <2>2. act'[p].id = act[p].id
    BY <1>1, <2>1, GotoEffect, Zenon DEF SameLocals, SameCall, SameOwner
  <2>3. c \in Clients /\ s \in Sessions /\ c \in Ids[s]
    BY <1>1, <2>1 DEF LocalsSet, OwnActor, OwnSession, OwnProgram, InSubscribe, InUnsubscribe
  <2>4. p \in Sessions => act[p].id = c
    BY <1>1, <2>1 DEF OwnActor, OwnSession, InSubscribe
  <2>5. QED BY <2>1, <2>2, <2>3, <2>4, Zenon
<1>4. QED BY <1>2, <1>3, Zenon

LEMMA HeldStep ==
    ASSUME TypeInv, RegisteredIsUsable, OwnCalls, [Next]_vars
    PROVE  HeldOwn'
<1>1. HeldOwn /\ OwnActors /\ RegistryOK
  BY DEF OwnCalls, TypeInv
<1>2. CASE SameConnections
  BY <1>1, <1>2 DEF SameConnections, RegistryOK, HeldOwn
<1>3. ASSUME NEW c \in Clients, NEW s \in Sessions, Register(c, s), c \in Ids[s] PROVE HeldOwn'
  <2>1. /\ conn'[wsConns'[c]].socket = s
        /\ \A d \in Clients \ {c} :
              /\ wsConns'[d] = wsConns[d]
              /\ wsConns[d] # None => conn'[wsConns[d]] = conn[wsConns[d]]
    BY <1>1, <1>3, RegisterEffect, Zenon
  <2>2. QED BY <1>1, <1>3, <2>1, Zenon DEF HeldOwn
<1>4. ASSUME NEW c \in Clients, Take(c) PROVE HeldOwn'
  <2>1. /\ wsConns'[c] = None
        /\ \A d \in Clients \ {c} :
              /\ wsConns'[d] = wsConns[d]
              /\ wsConns[d] # None => conn'[wsConns[d]] = conn[wsConns[d]]
    BY <1>1, <1>4, TakeEffect, Zenon
  <2>2. QED BY <1>1, <2>1, Zenon DEF HeldOwn
<1>5. ASSUME NEW p \in Sessions, CleanTake(p) PROVE HeldOwn'
  <2>1. p \in Actors /\ act[p].pc = "cl.take" /\ act[p].client \in Clients
    BY <1>5, Apart DEF CleanTake, TypeInv, ActorsOK, LocalsSet, InCleanup
  <2>2. Take(act[p].client) \/ UNCHANGED <<wsConns, conn>>
    BY <1>5, Zenon DEF CleanTake, Take
  <2>3. QED BY <1>1, <1>2, <1>4, <2>1, <2>2, Untouched, Zenon
<1>6. QED BY <1>1, <1>2, <1>3, <1>5, Apart, ConnectionStep, Registration

LEMMA ListedStep ==
    ASSUME TypeInv, OwnCalls, [Next]_vars
    PROVE  ListedOwn'
<1>1. ListedOwn /\ OwnActors
  BY DEF OwnCalls
<1>2. ASSUME UNCHANGED connections PROVE ListedOwn'
  BY <1>1, <1>2 DEF ListedOwn
<1>3. ASSUME NEW p \in Sessions, PingList(p) PROVE ListedOwn'
  <2>1. act[p].id \in Clients /\ act[p].id \in Ids[p]
    BY <1>1, <1>3, Apart, WsAssumption
    DEF PingList, TypeInv, ActorsOK, LocalsSet, OwnActors, OwnActor, OwnSession
  <2>2. QED BY <1>1, <1>3, <2>1 DEF PingList, ListedOwn, TypeInv, SocketsOK
<1>4. ASSUME NEW p \in Sessions, Leave(p) PROVE ListedOwn'
  <2>1. act[p].id \in Clients
    BY <1>4, Apart DEF Leave, TypeInv, ActorsOK, LocalsSet
  <2>2. CASE connections' = [connections EXCEPT ![act[p].id] = None]
    BY <1>1, <2>1, <2>2 DEF ListedOwn, TypeInv, SocketsOK
  <2>3. QED BY <1>2, <1>4, <2>2, Zenon DEF Leave
<1>5. QED
  BY <1>2, <1>3, <1>4, Zenon
  DEF Next, vars, Ping, Handle, Registering, PingRegister, CloseOld, Disconnect, Cleaning,
      CleanTake, CleanCopy, CleanTopic, CleanLeave, CleanDrop, LeaveTopic, Subscribing, SubTopic,
      SubRegister, SubConn, SubJoin, SubMark, Unsubscribing, UnsTopic, UnsConn, UnsForget,
      UnsLeave, UnsDrop, RemoveTopic, RemoveForget, Direct

LEMMA OwnInvariant == Spec => []OwnCalls
<1>1. Init => OwnCalls
  <2> SUFFICES ASSUME Init PROVE OwnCalls
    OBVIOUS
  <2>1. \A p \in Actors : act[p] = IF p \in Sessions THEN At("read", None) ELSE At("wait", None)
    BY DEF Init
  <2>2. \A p \in Actors : /\ act[p].pc = IF p \in Sessions THEN "read" ELSE "wait"
                          /\ act[p].id = None /\ act[p].next = None
    BY <2>1, AtFields
  <2>3. OwnActors
    BY <2>2 DEF OwnActors, OwnActor, OwnSession, OwnProgram, InSubscribe, InUnsubscribe, InCleanup
  <2>4. ListedOwn /\ HeldOwn
    BY DEF Init, ListedOwn, HeldOwn
  <2>5. QED BY <2>3, <2>4 DEF OwnCalls
<1>2. TypeInv /\ RegisteredIsUsable /\ OwnCalls /\ [Next]_vars => OwnCalls'
  BY OwnStep, ListedStep, HeldStep, Zenon DEF OwnCalls
<1>3. QED BY <1>1, <1>2, UsableInvariant, PTL DEF Spec

-----------------------------------------------------------------------------
(* A session that has its id has its connection. *)

\* Between the registration of its id and the first step of its cleanup.
Attached(r) ==
    /\ r.id # None
    /\ r.pc \notin {"cl.copy", "cl.topic", "cl.leave", "cl.drop", "over"}
    /\ ~(r.pc = "register" /\ r.next # r.id)

HeldIds == \A p \in Sessions : Attached(act[p]) => wsConns[act[p].id] # None

Remains(q) == Attached(act'[q]) => Attached(act[q]) /\ act'[q].id = act[q].id
OneRemains(p) == Alone(p) /\ (p \in Sessions => Remains(p))

LEMMA DoneRemains ==
    ASSUME ActorsOK, NEW p \in Actors, Done(p),
           act[p].pc \in InSubscribe \cup InUnsubscribe \cup {"list"}
    PROVE  OneRemains(p)
BY DoneEffect DEF OneRemains, Remains, Attached, InSubscribe, InUnsubscribe

LEMMA WalkRemains ==
    ASSUME NEW p \in Actors, Alone(p), SameOwner(p), act[p].pc # "register",
           \/ act[p].pc \notin {"cl.copy", "cl.topic", "cl.leave", "cl.drop", "over"}
           \/ act'[p].pc \in {"cl.copy", "cl.topic", "cl.leave", "cl.drop", "over"},
           act'[p].pc # "register"
    PROVE  OneRemains(p)
BY DEF OneRemains, Remains, Attached, SameOwner

LEMMA GotoRemains ==
    ASSUME ActorsOK, NEW p \in Actors, NEW pc, Goto(p, pc), act[p].pc # "register",
           \/ act[p].pc \notin {"cl.copy", "cl.topic", "cl.leave", "cl.drop", "over"}
           \/ pc \in {"cl.copy", "cl.topic", "cl.leave", "cl.drop", "over"},
           pc # "register"
    PROVE  OneRemains(p)
<1>1. Alone(p) /\ SameOwner(p) /\ act'[p].pc = pc
  BY GotoEffect, Zenon DEF SameLocals, SameCall
<1>2. QED BY <1>1, WalkRemains

LEMMA MessageRemains ==
    ASSUME ActorsOK, NEW p \in Sessions,
           \/ \E c \in Clients : Ping(p, c)
           \/ \E t \in Topics : Handle(p, "sub.topic", t) \/ Handle(p, "uns.topic", t)
           \/ PingList(p) \/ Disconnect(p)
    PROVE  OneRemains(p)
<1>1. p \in Actors
  BY Apart
<1>2. ASSUME NEW c \in Clients, Ping(p, c) PROVE OneRemains(p)
  BY <1>1, <1>2, PingEffect, WsAssumption DEF OneRemains, Remains, Attached
<1>3. ASSUME NEW t, NEW pc \in {"sub.topic", "uns.topic"}, Handle(p, pc, t)
      PROVE  OneRemains(p)
  <2>1. Alone(p) /\ SameOwner(p) /\ act[p].pc = "read" /\ act'[p].pc = pc
    BY <1>1, <1>3, HandleEffect, Zenon
  <2>2. QED BY <1>1, <2>1, WalkRemains
<1>4. CASE PingList(p)
  BY <1>1, <1>4, DoneRemains DEF PingList
<1>5. CASE Disconnect(p)
  <2>1. PICK pc \in {"over", "leave"} : Goto(p, pc) /\ act[p].pc = "read"
    BY <1>5 DEF Disconnect
  <2>2. QED BY <1>1, <2>1, GotoRemains
<1>6. QED BY <1>2, <1>3, <1>4, <1>5

LEMMA SubscribeRemains ==
    ASSUME ActorsOK, NEW p \in Actors, Subscribing(p)
    PROVE  OneRemains(p)
<1>1. CASE SubTopic(p)
  BY <1>1, SubTopicEffect, WalkRemains DEF SameCall
<1>2. CASE SubRegister(p)
  BY <1>2, GotoRemains DEF SubRegister
<1>3. CASE SubConn(p)
  <2>1. /\ act[p].pc = "sub.conn"
        /\ Done(p) \/ (Alone(p) /\ SameOwner(p) /\ act'[p].pc = "sub.join")
    BY <1>3, SubConnEffect, Zenon DEF SameCall
  <2>2. QED BY <2>1, DoneRemains, WalkRemains DEF InSubscribe
<1>4. CASE SubJoin(p)
  BY <1>4, GotoRemains DEF SubJoin
<1>5. CASE SubMark(p)
  BY <1>5, DoneRemains DEF SubMark, InSubscribe
<1>6. QED BY <1>1, <1>2, <1>3, <1>4, <1>5, Zenon DEF Subscribing

LEMMA UnsubscribeRemains ==
    ASSUME ActorsOK, NEW p \in Actors, Unsubscribing(p)
    PROVE  OneRemains(p)
<1>1. CASE UnsTopic(p)
  <2>1. /\ act[p].pc = "uns.topic"
        /\ Done(p) \/ (Alone(p) /\ SameOwner(p) /\ act'[p].pc = "uns.conn")
    BY <1>1, UnsTopicEffect, Zenon DEF SameCall
  <2>2. QED BY <2>1, DoneRemains, WalkRemains DEF InUnsubscribe
<1>2. CASE UnsConn(p)
  <2>1. /\ act[p].pc = "uns.conn" /\ Alone(p) /\ SameOwner(p)
        /\ act'[p].pc \in {"uns.leave", "uns.forget"}
    BY <1>2, UnsConnEffect DEF SameCall
  <2>2. QED BY <2>1, WalkRemains
<1>3. CASE UnsForget(p)
  BY <1>3, GotoRemains DEF UnsForget
<1>4. CASE UnsLeave(p)
  <2>1. act[p].pc = "uns.leave" /\ (Goto(p, "uns.drop") \/ Done(p))
    BY <1>4, Zenon DEF UnsLeave, LeaveTopic
  <2>2. QED BY <2>1, GotoRemains, DoneRemains DEF InUnsubscribe
<1>5. CASE UnsDrop(p)
  BY <1>5, DoneRemains DEF UnsDrop, InUnsubscribe
<1>6. QED BY <1>1, <1>2, <1>3, <1>4, <1>5, Zenon DEF Unsubscribing

LEMMA CleanupRemains ==
    ASSUME ActorsOK, OwnActors, NEW p \in Sessions, Cleaning(p)
    PROVE  CleanTake(p) \/ OneRemains(p)
<1>1. p \in Actors
  BY Apart
<1>2. CASE Leave(p)
  <2>1. Alone(p) /\ SameOwner(p) /\ act[p].pc = "leave" /\ act'[p].pc = "cl.take"
    BY <1>1, <1>2, LeaveEffect, Zenon
  <2>2. QED BY <1>1, <2>1, WalkRemains
<1>3. CASE CleanCopy(p)
  <2>1. Alone(p) /\ SameOwner(p) /\ act[p].pc = "cl.copy" /\ act'[p].pc = "cl.topic"
    BY <1>1, <1>3, CleanCopyEffect, Zenon DEF SameCall
  <2>2. QED BY <1>1, <2>1, WalkRemains
<1>4. CASE CleanTopic(p)
  <2>1. act[p].pc = "cl.topic" /\ (AfterCleanup(p) \/ (Alone(p) /\ SameOwner(p)
            /\ act'[p].pc \in {"cl.topic", "cl.leave"}))
    BY <1>1, <1>4, CleanTopicEffect
  <2>2. act[p].next # act[p].id
    BY <1>1, <2>1 DEF OwnActors, OwnActor, OwnSession, InCleanup
  <2>3. AfterCleanup(p) => OneRemains(p)
    BY <1>1, <2>2, AfterEffect DEF OneRemains, Remains, Attached, SameOwner
  <2>4. QED BY <1>1, <2>1, <2>3, WalkRemains
<1>5. CASE CleanLeave(p)
  <2>1. act[p].pc = "cl.leave" /\ (Goto(p, "cl.drop") \/ Goto(p, "cl.topic"))
    BY <1>5, Zenon DEF CleanLeave, LeaveTopic
  <2>2. QED BY <1>1, <2>1, GotoRemains
<1>6. CASE CleanDrop(p)
  BY <1>1, <1>6, GotoRemains DEF CleanDrop
<1>7. QED BY <1>2, <1>3, <1>4, <1>5, <1>6, Zenon DEF Cleaning

\* Only a ping makes a session have its id.
LEMMA RemainsStep ==
    ASSUME TypeInv, OwnCalls, [Next]_vars
    PROVE  \/ \E p \in Sessions : PingRegister(p) \/ CleanTake(p)
           \/ \A q \in Sessions : Remains(q)
<1>1. ActorsOK /\ OwnActors
  BY DEF TypeInv, OwnCalls
<1>2. ASSUME NEW p \in Actors, OneRemains(p), NEW q \in Sessions PROVE Remains(q)
  BY <1>2, Apart DEF OneRemains, Alone, Remains
<1>3. ASSUME UNCHANGED act, NEW q \in Sessions PROVE Remains(q)
  BY <1>3, Zenon DEF Remains
<1>4. ASSUME NEW p \in {"remove"} \X Removals, RemoveTopic(p) \/ RemoveForget(p)
      PROVE  OneRemains(p) /\ p \in Actors
  <2>1. p \in Actors /\ p \notin Sessions
    BY Apart
  <2>2. Alone(p)
    BY <1>1, <1>4, <2>1, RemoveTopicEffect, RemoveForgetEffect, Zenon
  <2>3. QED BY <2>1, <2>2, Zenon DEF OneRemains
<1>5. ASSUME NEW p \in {"direct"} \X Directs, NEW c \in Clients, Direct(p, c)
      PROVE  OneRemains(p) /\ p \in Actors
  <2>1. p \in Actors /\ p \notin Sessions
    BY Apart
  <2>2. Alone(p)
    BY <1>1, <1>5, <2>1, DirectEffect, Zenon
  <2>3. QED BY <2>1, <2>2, Zenon DEF OneRemains
<1>6. ASSUME NEW p \in Sessions,
             \/ \E c \in Clients : Ping(p, c)
             \/ \E t \in Topics : Handle(p, "sub.topic", t) \/ Handle(p, "uns.topic", t)
             \/ Registering(p) \/ Cleaning(p) \/ CloseOld(p) \/ Disconnect(p)
      PROVE  PingRegister(p) \/ CleanTake(p) \/ UNCHANGED act \/ OneRemains(p)
  BY <1>1, <1>6, MessageRemains, CleanupRemains, Zenon DEF Registering, CloseOld
<1>7. ASSUME NEW p \in Actors, Subscribing(p) \/ Unsubscribing(p) PROVE OneRemains(p)
  BY <1>1, <1>7, SubscribeRemains, UnsubscribeRemains, Zenon
<1>8. \/ UNCHANGED act
      \/ \E p \in Sessions : PingRegister(p) \/ CleanTake(p)
      \/ \E p \in Actors : OneRemains(p)
  BY <1>4, <1>5, <1>6, <1>7, Apart, Zenon DEF Next, vars
<1>9. QED BY <1>2, <1>3, <1>8, Zenon

\* Peers with ids of their own: the cleanup of a session finds its connection.
LEMMA TakesOwn ==
    ASSUME IdsApart, TypeInv, OwnCalls, HeldIds, NEW p \in Sessions, CleanTake(p)
    PROVE  /\ Take(act[p].id) /\ act[p].client = act[p].id /\ act[p].id \in Clients
           /\ Alone(p) /\ SameCall(p) /\ act'[p].pc = "cl.copy"
           /\ act'[p].obj = wsConns[act[p].id]
<1> DEFINE c == act[p].id
<1>1. p \in Actors /\ ActorsOK
  BY Apart DEF TypeInv
<1>2. act[p].pc = "cl.take"
  BY Zenon DEF CleanTake
<1>3. act[p].client = c /\ act[p].socket = p /\ c \in Clients /\ c \in Ids[p] /\ c # None
  BY <1>1, <1>2, WsAssumption
  DEF OwnCalls, OwnActors, OwnActor, OwnSession, InSubscribe, InUnsubscribe, InCleanup, ActorsOK,
      LocalsSet
<1>4. wsConns[c] # None
  BY <1>2, <1>3 DEF HeldIds, Attached
<1>5. conn[wsConns[c]].socket \in Sessions /\ c \in Ids[conn[wsConns[c]].socket]
  BY <1>3, <1>4 DEF OwnCalls, HeldOwn, TypeInv, RegistryOK
<1>6. conn[wsConns[c]].socket = p
  BY <1>3, <1>5 DEF IdsApart
<1>7. QED BY <1>1, <1>3, <1>4, <1>6, CleanTakeEffect, Zenon

LEMMA HeldIdsStep ==
    ASSUME IdsApart, TypeInv, RegisteredIsUsable, OwnCalls, HeldIds, [Next]_vars
    PROVE  HeldIds'
<1>1. RegistryOK /\ OwnActors /\ ActorsOK /\ ActorsOK'
  BY ActorsTyped DEF TypeInv, OwnCalls
<1>2. \A q \in Sessions : act[q].id \in Clients \cup {None} /\ act'[q].id \in Clients \cup {None}
  BY <1>1, Apart DEF ActorsOK, Actor
<1>3. CASE \E p \in Sessions : CleanTake(p)
  <2>1. PICK p \in Sessions : CleanTake(p)
    BY <1>3
  <2> DEFINE c == act[p].id
  <2>2. /\ Take(c) /\ c \in Clients /\ Alone(p) /\ act'[p].pc = "cl.copy"
    BY <2>1, TakesOwn, Zenon
  <2>3. \A d \in Clients \ {c} : wsConns'[d] = wsConns[d]
    BY <1>1, <2>2, TakeEffect, Zenon
  <2>4. ASSUME NEW q \in Sessions, Attached(act'[q]) PROVE wsConns'[act'[q].id] # None
    <3>1. q # p
      BY <2>2, <2>4 DEF Attached
    <3>2. act'[q] = act[q]
      BY <2>2, <3>1, Apart DEF Alone
    <3>3. act[q].id \in Clients /\ act[q].id # c
      BY <1>1, <1>2, <2>2, <2>4, <3>1, <3>2, Apart, WsAssumption
      DEF Attached, IdsApart, OwnActors, OwnActor, OwnSession
    <3>4. QED BY <2>3, <2>4, <3>2, <3>3 DEF HeldIds
  <2>5. QED BY <2>4 DEF HeldIds, Attached
<1>4. CASE ~\E p \in Sessions : CleanTake(p)
  <2>1. \A d \in Clients : wsConns[d] # None => wsConns'[d] # None
    <3>1. ASSUME NEW c \in Clients, NEW s \in Sessions, Register(c, s), NEW d \in Clients,
                 wsConns[d] # None
          PROVE  wsConns'[d] # None
      BY <1>1, <3>1, RegisterEffect
    <3>2. QED BY <1>1, <1>4, <3>1, Apart, ConnectionStep, Registration DEF SameConnections
  <2>2. ASSUME NEW q \in Sessions, Attached(act'[q]), Remains(q) PROVE wsConns'[act'[q].id] # None
    BY <1>2, <2>1, <2>2 DEF Remains, HeldIds, Attached
  <2>3. ASSUME NEW p \in Sessions, PingRegister(p), NEW q \in Sessions, Attached(act'[q])
        PROVE  wsConns'[act'[q].id] # None
    <3>1. Alone(p) /\ p \in Actors
      BY <1>1, <2>3, Apart, PingRegisterEffect, Zenon
    <3>2. CASE q = p
      <4>1. PICK c \in Clients, s \in Sessions : Register(c, s) /\ act'[p].id = c
        BY <1>1, <2>3, <3>1, Registration, Zenon
      <4>2. wsConns'[c] # None
        BY <1>1, <4>1, RegisterEffect, Zenon
      <4>3. QED BY <3>2, <4>1, <4>2
    <3>3. CASE q # p
      <4>1. Remains(q)
        BY <3>1, <3>3, Apart DEF Alone, Remains
      <4>2. QED BY <2>2, <2>3, <4>1
    <3>4. QED BY <3>2, <3>3
  <2>4. \A q \in Sessions : Attached(act'[q]) => wsConns'[act'[q].id] # None
    BY <1>4, <2>2, <2>3, RemainsStep, Zenon
  <2>5. QED BY <2>4 DEF HeldIds, Attached
<1>5. QED BY <1>3, <1>4

-----------------------------------------------------------------------------
(* The objects of the topics. *)

\* Two topics share no object, and an actor uses the object of its own topic
\* or one that no topic has any more.
UsesRef == {"sub.register", "sub.conn", "sub.join", "uns.conn", "uns.forget", "uns.leave",
            "cl.leave"}
LinksOK ==
    /\ \A t, u \in AllTopics :
          wsSubscribers[t] # None /\ wsSubscribers[t] = wsSubscribers[u] => t = u
    /\ \A p \in Actors, t \in AllTopics :
          act[p].pc \in UsesRef /\ act[p].ref = wsSubscribers[t] => act[p].topic = t

\* No step but subscribeWebSocket's first gives a topic an object.
Shrinks == \A t \in AllTopics : wsSubscribers'[t] \in {wsSubscribers[t], None}

\* Who moves uses the object it had, or the one its topic has now.
RefKept(p) ==
    /\ Alone(p)
    /\ act'[p].pc \in UsesRef =>
          \/ /\ act[p].pc \in UsesRef
             /\ act'[p].ref = act[p].ref /\ act'[p].topic = act[p].topic
          \/ act'[p].ref = wsSubscribers[act'[p].topic]

LEMMA DropShrinks ==
    ASSUME TopicsOK, NEW t \in AllTopics, DropIfEmpty(t)
    PROVE  /\ \A u \in AllTopics \ {t} : wsSubscribers'[u] = wsSubscribers[u]
           /\ \/ wsSubscribers'[t] = None
              \/ wsSubscribers' = wsSubscribers /\ Members(wsSubscribers[t]) # {}
BY DEF TopicsOK, DropIfEmpty

LEMMA ShrinksStep ==
    ASSUME TypeInv, [Next]_vars
    PROVE  Shrinks \/ \E p \in Actors : SubTopic(p)
<1>1. UNCHANGED wsSubscribers => Shrinks
  BY DEF Shrinks
<1>2. ASSUME NEW p \in Actors, UnsDrop(p) \/ (p \in Sessions /\ CleanDrop(p)) PROVE Shrinks
  <2>1. act[p].topic \in AllTopics /\ DropIfEmpty(act[p].topic)
    BY <1>2 DEF UnsDrop, CleanDrop, TypeInv, ActorsOK, LocalsSet, InUnsubscribe
  <2>2. QED BY <2>1, DropShrinks DEF Shrinks, TypeInv
<1>3. ASSUME NEW p \in {"remove"} \X Removals, RemoveTopic(p) PROVE Shrinks
  BY <1>3 DEF RemoveTopic, Shrinks, TypeInv, TopicsOK
<1>4. QED
  BY <1>1, <1>2, <1>3, Apart, Zenon
  DEF Next, vars, Ping, Handle, Registering, PingRegister, PingList, CloseOld, Disconnect, Cleaning,
      Leave, CleanTake, CleanCopy, CleanTopic, CleanLeave, LeaveTopic, Subscribing, SubRegister,
      SubConn, SubJoin, SubMark, Unsubscribing, UnsTopic, UnsConn, UnsForget, UnsLeave,
      RemoveForget, Direct

LEMMA RefStep ==
    ASSUME TypeInv, [Next]_vars
    PROVE  UNCHANGED act \/ \E p \in Actors : RefKept(p) \/ SubTopic(p)
<1>1. ActorsOK
  BY DEF TypeInv
<1>2. ASSUME NEW p \in Actors, Done(p) PROVE RefKept(p)
  BY <1>1, <1>2, DoneEffect DEF RefKept, UsesRef
<1>3. ASSUME NEW p \in Actors, NEW pc, Goto(p, pc), act[p].pc \in UsesRef \/ pc \notin UsesRef
      PROVE  RefKept(p)
  BY <1>1, <1>3, GotoEffect DEF RefKept, SameLocals, SameCall
<1>4. ASSUME NEW p \in Actors, AfterCleanup(p) PROVE RefKept(p)
  BY <1>1, <1>4, AfterEffect DEF RefKept, UsesRef
<1>5. ASSUME NEW p \in Sessions,
             \/ \E c \in Clients : Ping(p, c)
             \/ \E t \in Topics : Handle(p, "sub.topic", t) \/ Handle(p, "uns.topic", t)
             \/ Registering(p) \/ Disconnect(p)
      PROVE  RefKept(p)
  <2>1. p \in Actors
    BY Apart
  <2>2. \A c \in Clients : Ping(p, c) => RefKept(p)
    BY <1>1, <2>1, PingEffect DEF RefKept, UsesRef
  <2>3. ASSUME NEW t, NEW pc \in {"sub.topic", "uns.topic"}, Handle(p, pc, t) PROVE RefKept(p)
    <3>1. Alone(p) /\ act'[p].pc = pc
      BY <1>1, <2>1, <2>3, HandleEffect, Zenon
    <3>2. QED BY <3>1 DEF RefKept, UsesRef
  <2>4. PingRegister(p) => RefKept(p)
    BY <1>1, <2>1, PingRegisterEffect DEF RefKept, UsesRef
  <2>5. PingList(p) => RefKept(p)
    BY <1>2, <2>1 DEF PingList
  <2>6. Disconnect(p) => RefKept(p)
    BY <1>3, <2>1 DEF Disconnect, UsesRef
  <2>7. QED BY <1>5, <2>2, <2>3, <2>4, <2>5, <2>6 DEF Registering
<1>6. ASSUME NEW p \in Actors, Subscribing(p) PROVE RefKept(p) \/ SubTopic(p)
  <2>1. SubRegister(p) \/ SubJoin(p) => RefKept(p)
    BY <1>3 DEF SubRegister, SubJoin, UsesRef
  <2>2. SubMark(p) => RefKept(p)
    BY <1>2 DEF SubMark
  <2>3. SubConn(p) => RefKept(p)
    BY <1>1, <1>2, SubConnEffect DEF RefKept, UsesRef, SameCall
  <2>4. QED BY <1>6, <2>1, <2>2, <2>3 DEF Subscribing
<1>7. ASSUME NEW p \in Actors, Unsubscribing(p) PROVE RefKept(p)
  <2>1. UnsForget(p) => RefKept(p)
    BY <1>3 DEF UnsForget, UsesRef
  <2>2. UnsLeave(p) => RefKept(p)
    BY <1>2, <1>3 DEF UnsLeave, LeaveTopic, UsesRef
  <2>3. UnsDrop(p) => RefKept(p)
    BY <1>2 DEF UnsDrop
  <2>4. UnsTopic(p) => RefKept(p)
    BY <1>1, <1>2, UnsTopicEffect DEF RefKept, SameCall
  <2>5. UnsConn(p) => RefKept(p)
    BY <1>1, UnsConnEffect DEF RefKept, UsesRef, SameCall
  <2>6. QED BY <1>7, <2>1, <2>2, <2>3, <2>4, <2>5 DEF Unsubscribing
<1>8. ASSUME NEW p \in Sessions, Cleaning(p) PROVE RefKept(p)
  <2>1. p \in Actors
    BY Apart
  <2>2. Leave(p) => RefKept(p)
    BY <1>1, <2>1, LeaveEffect DEF RefKept, UsesRef
  <2>3. CleanTake(p) => RefKept(p)
    BY <1>1, <1>4, <2>1, CleanTakeEffect DEF RefKept, UsesRef
  <2>4. CleanCopy(p) => RefKept(p)
    BY <1>1, <2>1, CleanCopyEffect DEF RefKept, UsesRef
  <2>5. CleanTopic(p) => RefKept(p)
    BY <1>1, <1>4, <2>1, CleanTopicEffect DEF RefKept
  <2>6. CleanLeave(p) => RefKept(p)
    BY <1>3, <2>1 DEF CleanLeave, LeaveTopic, UsesRef
  <2>7. CleanDrop(p) => RefKept(p)
    BY <1>3, <2>1 DEF CleanDrop, UsesRef
  <2>8. QED BY <1>8, <2>2, <2>3, <2>4, <2>5, <2>6, <2>7 DEF Cleaning
<1>9. ASSUME NEW p \in {"remove"} \X Removals, RemoveTopic(p) \/ RemoveForget(p)
      PROVE  p \in Actors /\ RefKept(p)
  <2>1. p \in Actors
    BY Apart
  <2>2. QED BY <1>1, <1>9, <2>1, RemoveTopicEffect, RemoveForgetEffect DEF RefKept, UsesRef
<1>10. ASSUME NEW p \in {"direct"} \X Directs, NEW c \in Clients, Direct(p, c)
       PROVE  p \in Actors /\ RefKept(p)
  <2>1. p \in Actors
    BY Apart
  <2>2. QED BY <1>1, <1>10, <2>1, DirectEffect DEF RefKept, UsesRef
<1>11. QED
  BY <1>5, <1>6, <1>7, <1>8, <1>9, <1>10, Apart, Zenon DEF Next, vars, CloseOld

LEMMA LinksStep ==
    ASSUME TypeInv, LinksOK, [Next]_vars
    PROVE  LinksOK'
<1>1. ActorsOK /\ TopicsOK /\ ActorsOK' /\ TopicsOK'
  BY ActorsTyped, TopicsTyped DEF TypeInv
<1>2. \A p \in Actors : act'[p].pc \in UsesRef => act'[p].ref # None /\ act'[p].topic \in AllTopics
  BY <1>1, Apart DEF ActorsOK, LocalsSet, UsesRef, InSubscribe, InUnsubscribe
<1>3. CASE \E p \in Actors : SubTopic(p)
  <2>1. PICK p \in Actors : SubTopic(p)
    BY <1>3
  <2> DEFINE t == act[p].topic
             j == act'[p].ref
  <2>2. /\ Alone(p) /\ act'[p].topic = t /\ j \in WsTopicDatas /\ t \in AllTopics
        /\ \/ wsSubscribers[t] = j /\ UNCHANGED wsSubscribers
           \/ /\ wsSubscribers[t] = None /\ j \in FreeTopicDatas
              /\ wsSubscribers' = [wsSubscribers EXCEPT ![t] = j]
    BY <1>1, <2>1, SubTopicEffect DEF SameCall, ActorsOK, LocalsSet, InSubscribe
  <2>3. CASE wsSubscribers[t] = j /\ UNCHANGED wsSubscribers
    BY <1>1, <2>2, <2>3, Apart DEF LinksOK, Alone
  <2>4. CASE /\ wsSubscribers[t] = None /\ j \in FreeTopicDatas
             /\ wsSubscribers' = [wsSubscribers EXCEPT ![t] = j]
    <3>1. /\ \A u \in AllTopics : wsSubscribers[u] # j
          /\ \A q \in Actors : act[q].ref # j
      BY <2>4 DEF FreeTopicDatas
    <3>2. /\ wsSubscribers'[t] = j
          /\ \A u \in AllTopics \ {t} : wsSubscribers'[u] = wsSubscribers[u]
      BY <1>1, <2>2, <2>4 DEF TopicsOK
    <3>3. \A u, v \in AllTopics :
             wsSubscribers'[u] # None /\ wsSubscribers'[u] = wsSubscribers'[v] => u = v
      BY <3>1, <3>2 DEF LinksOK
    <3>4. \A q \in Actors, u \in AllTopics :
             act'[q].pc \in UsesRef /\ act'[q].ref = wsSubscribers'[u] => act'[q].topic = u
      BY <2>2, <3>1, <3>2 DEF LinksOK, Alone
    <3>5. QED BY <3>3, <3>4 DEF LinksOK
  <2>5. QED BY <2>2, <2>3, <2>4
<1>4. CASE Shrinks /\ ~\E p \in Actors : SubTopic(p)
  <2>1. \A u, v \in AllTopics :
           wsSubscribers'[u] # None /\ wsSubscribers'[u] = wsSubscribers'[v] => u = v
    BY <1>4 DEF Shrinks, LinksOK
  <2>2. ASSUME NEW q \in Actors, NEW u \in AllTopics, act'[q].pc \in UsesRef,
               act'[q].ref = wsSubscribers'[u]
        PROVE  act'[q].topic = u
    <3>1. act'[q].ref = wsSubscribers[u] /\ wsSubscribers[u] # None
      BY <1>2, <1>4, <2>2 DEF Shrinks
    <3>2. \/ act[q].pc \in UsesRef /\ act'[q].ref = act[q].ref /\ act'[q].topic = act[q].topic
          \/ act'[q].ref = wsSubscribers[act'[q].topic]
      BY <1>4, <2>2, RefStep DEF RefKept, Alone
    <3>3. QED BY <1>2, <2>2, <3>1, <3>2 DEF LinksOK
  <2>3. QED BY <2>1, <2>2 DEF LinksOK
<1>5. QED BY <1>3, <1>4, ShrinksStep

-----------------------------------------------------------------------------
(* A topic without members has an actor that will fill it or drop it. *)

IsEmpty(t) == wsSubscribers[t] # None /\ Members(wsSubscribers[t]) = {}

\* The actor is to join the topic, or to drop it if it is empty; a call of the
\* program is to leave it, which drops it too.
OnIt(r, t) ==
    /\ r.topic = t
    /\ \/ r.pc \in {"sub.register", "sub.conn", "sub.join"} /\ r.ref = wsSubscribers[t]
       \/ r.pc \in {"uns.drop", "cl.drop"}
Leaves(r, t) ==
    /\ r.topic = t
    /\ \/ r.pc = "uns.topic"
       \/ r.pc \in {"uns.conn", "uns.forget", "uns.leave"} /\ r.ref = wsSubscribers[t]
Minder(p, t) == OnIt(act[p], t) \/ (p \notin Sessions /\ Leaves(act[p], t))

EmptyIsMinded == \A t \in AllTopics : IsEmpty(t) => \E p \in Actors : Minder(p, t)

\* What a step of p may do: a topic that is empty after it was empty before,
\* and if p minded it, p still does; or p minds it now.
Minded(p, t) ==
    IsEmpty(t)' =>
        \/ /\ IsEmpty(t) /\ wsSubscribers'[t] = wsSubscribers[t]
           /\ Minder(p, t) => Minder(p, t)'
        \/ Minder(p, t)'

LEMMA MinderKept ==
    ASSUME EmptyIsMinded, NEW p \in Actors, Alone(p), \A t \in AllTopics : Minded(p, t)
    PROVE  EmptyIsMinded'
<1>1. ASSUME NEW t \in AllTopics, IsEmpty(t)' PROVE \E q \in Actors : Minder(q, t)'
  <2>1. CASE IsEmpty(t) /\ wsSubscribers'[t] = wsSubscribers[t] /\ (Minder(p, t) => Minder(p, t)')
    <3>1. PICK q \in Actors : Minder(q, t)
      BY <2>1 DEF EmptyIsMinded
    <3>2. q # p => Minder(q, t)'
      BY <2>1, <3>1 DEF Alone, Minder, OnIt, Leaves
    <3>3. QED BY <2>1, <3>1, <3>2
  <2>2. QED BY <1>1, <2>1, Zenon DEF Minded
<1>2. QED BY <1>1, Zenon DEF EmptyIsMinded

\* An actor that minds nothing, and touches no topic.
LEMMA MindsNothing ==
    ASSUME EmptyIsMinded, NEW p \in Actors, Alone(p), UNCHANGED <<wsSubscribers, members>>,
           act[p].pc \notin {"sub.register", "sub.conn", "sub.join", "uns.drop", "cl.drop"},
           p \in Sessions \/ act[p].pc \notin InUnsubscribe
    PROVE  EmptyIsMinded'
<1>1. ASSUME NEW t \in AllTopics PROVE ~Minder(p, t) /\ (IsEmpty(t)' => IsEmpty(t))
  BY DEF Minder, OnIt, Leaves, InUnsubscribe, IsEmpty, Members
<1>2. ASSUME NEW t \in AllTopics PROVE Minded(p, t)
  BY <1>1 DEF Minded
<1>3. QED BY <1>2, MinderKept, Zenon

\* An actor that goes on minding what it minded, and touches no topic.
LEMMA MindsOn ==
    ASSUME EmptyIsMinded, NEW p \in Actors, Alone(p), UNCHANGED <<wsSubscribers, members>>,
           \A t \in AllTopics : Minder(p, t) /\ IsEmpty(t) => Minder(p, t)'
    PROVE  EmptyIsMinded'
<1>1. ASSUME NEW t \in AllTopics PROVE IsEmpty(t)' => IsEmpty(t)
  BY DEF IsEmpty, Members
<1>2. ASSUME NEW t \in AllTopics PROVE Minded(p, t)
  BY <1>1 DEF Minded
<1>3. QED BY <1>2, MinderKept, Zenon

LEMMA SubscribeMinds ==
    ASSUME TypeInv, OwnCalls, HeldIds, LinksOK, EmptyIsMinded, NEW p \in Actors, Subscribing(p)
    PROVE  EmptyIsMinded'
<1>1. ActorsOK /\ TopicsOK /\ LocalsSet(act[p]) /\ OwnActor(p, act[p])
  BY DEF TypeInv, ActorsOK, OwnCalls, OwnActors
<1>2. CASE SubTopic(p)
  <2>0. PICK t, j : t = act[p].topic /\ j = act'[p].ref
    OBVIOUS
  <2>1. /\ act[p].pc = "sub.topic" /\ Alone(p) /\ act[p].topic = t /\ act'[p].topic = t
        /\ act'[p].pc = "sub.register" /\ act'[p].ref = j /\ j \in WsTopicDatas
        /\ t \in AllTopics
    BY <1>1, <1>2, <2>0, SubTopicEffect DEF SameCall, LocalsSet, InSubscribe
  <2>2. CASE wsSubscribers[t] = j /\ UNCHANGED <<wsSubscribers, members>>
    BY <2>1, <2>2, MindsNothing DEF InUnsubscribe
  <2>3. CASE /\ wsSubscribers[t] = None /\ j \in FreeTopicDatas
             /\ wsSubscribers' = [wsSubscribers EXCEPT ![t] = j]
             /\ members' = [members EXCEPT ![j] = [c \in Clients |-> None]]
    <3>1. \A u \in AllTopics : wsSubscribers[u] # j
      BY <2>3 DEF FreeTopicDatas
    <3>2. /\ wsSubscribers'[t] = j
          /\ \A u \in AllTopics \ {t} : wsSubscribers'[u] = wsSubscribers[u]
          /\ \A i \in WsTopicDatas \ {j} : members'[i] = members[i]
      BY <1>1, <2>1, <2>3 DEF TopicsOK
    <3>3. Minder(p, t)'
      BY <2>1, <3>2 DEF Minder, OnIt
    <3>4. ASSUME NEW u \in AllTopics \ {t} PROVE Minded(p, u)
      <4>1. ~Minder(p, u)
        BY <2>1 DEF Minder, OnIt, Leaves
      <4>2. wsSubscribers[u] # None => members'[wsSubscribers[u]] = members[wsSubscribers[u]]
        BY <1>1, <3>1, <3>2 DEF TopicsOK
      <4>3. IsEmpty(u)' => IsEmpty(u)
        BY <3>2, <4>2 DEF IsEmpty, Members
      <4>4. QED BY <3>2, <4>1, <4>3 DEF Minded
    <3>5. \A u \in AllTopics : Minded(p, u)
      BY <3>3, <3>4 DEF Minded
    <3>6. QED BY <2>1, <3>5, MinderKept, Zenon
  <2>4. \/ wsSubscribers[t] = j /\ UNCHANGED <<wsSubscribers, members>>
        \/ /\ wsSubscribers[t] = None /\ j \in FreeTopicDatas
           /\ wsSubscribers' = [wsSubscribers EXCEPT ![t] = j]
           /\ members' = [members EXCEPT ![j] = [c \in Clients |-> None]]
    BY <1>1, <1>2, <2>0, SubTopicEffect
  <2>5. QED BY <2>2, <2>3, <2>4, Zenon
<1>3. CASE SubRegister(p)
  <2>1. /\ act[p].pc = "sub.register" /\ Alone(p) /\ act'[p].pc = "sub.conn"
        /\ act'[p].topic = act[p].topic /\ act'[p].ref = act[p].ref
        /\ UNCHANGED <<wsSubscribers, members>>
    BY <1>1, <1>3, GotoEffect DEF SubRegister, SameLocals, SameCall
  <2>2. \A t \in AllTopics : Minder(p, t) => Minder(p, t)'
    BY <2>1 DEF Minder, OnIt, Leaves
  <2>3. QED BY <2>1, <2>2, MindsOn, Zenon
<1>4. CASE SubConn(p)
  <2>1. act[p].pc = "sub.conn" /\ UNCHANGED <<wsSubscribers, members>>
    BY <1>4, Zenon DEF SubConn
  <2>2. CASE wsConns[act[p].client] = None /\ Done(p)
    <3>1. p \notin Sessions /\ p[1] = "direct"
      BY <1>1, <2>1, <2>2
      DEF HeldIds, Attached, OwnActor, OwnSession, OwnProgram, InSubscribe, InUnsubscribe
    <3>2. Alone(p) /\ act'[p].pc = "uns.topic" /\ act'[p].topic = act[p].topic
      BY <1>1, <2>1, <2>2, <3>1, DoneEffect DEF SameCall
    <3>3. \A t \in AllTopics : Minder(p, t) => Minder(p, t)'
      BY <2>1, <3>1, <3>2 DEF Minder, OnIt, Leaves
    <3>4. QED BY <2>1, <3>2, <3>3, MindsOn, Zenon
  <2>3. CASE /\ Alone(p) /\ SameCall(p) /\ act'[p].pc = "sub.join" /\ act'[p].ref = act[p].ref
    <3>1. \A t \in AllTopics : Minder(p, t) => Minder(p, t)'
      BY <2>1, <2>3 DEF Minder, OnIt, Leaves, SameCall
    <3>2. QED BY <2>1, <2>3, <3>1, MindsOn, Zenon
  <2>4. QED BY <1>1, <1>4, <2>2, <2>3, SubConnEffect, Zenon
<1>5. CASE SubJoin(p)
  <2> DEFINE j == act[p].ref
             c == act[p].client
  <2>1. act[p].pc = "sub.join" /\ j \in WsTopicDatas /\ c \in Clients /\ act[p].obj # None
    BY <1>1, <1>5, Apart DEF SubJoin, LocalsSet, InSubscribe
  <2>2. UNCHANGED wsSubscribers /\ Alone(p) /\ members' = [members EXCEPT ![j][c] = act[p].obj]
    BY <1>1, <1>5, GotoEffect, Zenon DEF SubJoin
  <2>3. /\ \A i \in WsTopicDatas \ {j} : members'[i] = members[i]
        /\ members'[j][c] # None
    BY <1>1, <2>1, <2>2 DEF TopicsOK
  <2>4. ASSUME NEW t \in AllTopics PROVE Minded(p, t)
    <3>1. CASE wsSubscribers[t] = j
      BY <2>1, <2>2, <2>3, <3>1 DEF Minded, IsEmpty, Members
    <3>2. CASE wsSubscribers[t] # j
      <4>1. ~Minder(p, t)
        BY <2>1, <3>2 DEF Minder, OnIt, Leaves
      <4>2. IsEmpty(t)' => IsEmpty(t)
        BY <1>1, <2>2, <2>3, <3>2 DEF IsEmpty, Members, TopicsOK
      <4>3. QED BY <2>2, <4>1, <4>2 DEF Minded
    <3>3. QED BY <3>1, <3>2
  <2>5. QED BY <2>2, <2>4, MinderKept, Zenon
<1>6. CASE SubMark(p)
  <2>1. act[p].pc = "sub.mark" /\ UNCHANGED <<wsSubscribers, members>> /\ Done(p)
    BY <1>6, Zenon DEF SubMark
  <2>2. Alone(p)
    BY <1>1, <2>1, DoneEffect, Zenon
  <2>3. QED BY <2>1, <2>2, MindsNothing DEF InUnsubscribe
<1>7. QED BY <1>2, <1>3, <1>4, <1>5, <1>6, Zenon DEF Subscribing

\* A client leaves the object its actor has found, and the actor goes on to
\* drop the topic if nobody else is there.
LEMMA LeaveMinds ==
    ASSUME TypeInv, LinksOK, EmptyIsMinded, NEW p \in Actors,
           act[p].pc \in {"uns.leave", "cl.leave"},
           NEW ifLast \in {"uns.drop", "cl.drop"}, NEW otherwise, otherwise => Alone(p),
           LeaveTopic(p, act[p].ref, ifLast, otherwise)
    PROVE  EmptyIsMinded'
<1> DEFINE j == act[p].ref
           c == act[p].client
<1>1. ActorsOK /\ TopicsOK /\ LocalsSet(act[p])
  BY DEF TypeInv, ActorsOK
<1>2. j \in WsTopicDatas /\ c \in Clients
  BY <1>1 DEF LocalsSet, InUnsubscribe, InCleanup
<1>3. /\ UNCHANGED wsSubscribers /\ members' = [members EXCEPT ![j][c] = None]
      /\ \/ Members(j) \subseteq {c} /\ Goto(p, ifLast)
         \/ ~(Members(j) \subseteq {c}) /\ otherwise
  BY Zenon DEF LeaveTopic
<1>4. Alone(p)
  BY <1>1, <1>3, GotoEffect, Zenon
<1>5. /\ \A i \in WsTopicDatas \ {j} : members'[i] = members[i]
      /\ \A d \in Clients \ {c} : members'[j][d] = members[j][d]
  BY <1>1, <1>2, <1>3 DEF TopicsOK
<1>6. ASSUME NEW t \in AllTopics PROVE Minded(p, t)
  <2>1. CASE wsSubscribers[t] # j
    <3>1. ~Minder(p, t)
      BY <2>1 DEF Minder, OnIt, Leaves
    <3>2. IsEmpty(t)' => IsEmpty(t)
      BY <1>1, <1>3, <1>5, <2>1 DEF IsEmpty, Members, TopicsOK
    <3>3. QED BY <1>3, <3>1, <3>2 DEF Minded
  <2>2. CASE wsSubscribers[t] = j /\ Members(j) \subseteq {c}
    <3>1. act[p].topic = t
      BY <2>2 DEF LinksOK, UsesRef
    <3>2. act'[p].pc = ifLast /\ act'[p].topic = act[p].topic
      BY <1>1, <1>3, <2>2, GotoEffect DEF SameLocals, SameCall
    <3>3. Minder(p, t)'
      BY <3>1, <3>2 DEF Minder, OnIt
    <3>4. QED BY <3>3 DEF Minded
  <2>3. CASE wsSubscribers[t] = j /\ ~(Members(j) \subseteq {c})
    BY <1>3, <1>5, <2>3 DEF Minded, IsEmpty, Members
  <2>4. QED BY <2>1, <2>2, <2>3
<1>7. QED BY <1>4, <1>6, MinderKept, Zenon

\* The topic of the actor is dropped if it is empty.
LEMMA DropMinds ==
    ASSUME TypeInv, EmptyIsMinded, NEW p \in Actors, act[p].pc \in {"uns.drop", "cl.drop"},
           Alone(p), UNCHANGED members, DropIfEmpty(act[p].topic)
    PROVE  EmptyIsMinded'
<1>0. PICK t : t = act[p].topic
  OBVIOUS
<1>1. TopicsOK /\ t \in AllTopics
  BY <1>0 DEF TypeInv, ActorsOK, LocalsSet, InUnsubscribe
<1>2. /\ \A u \in AllTopics \ {t} : wsSubscribers'[u] = wsSubscribers[u]
      /\ \/ wsSubscribers'[t] = None
         \/ wsSubscribers' = wsSubscribers /\ Members(wsSubscribers[t]) # {}
  BY <1>0, <1>1, DropShrinks, Zenon
<1>3. ~IsEmpty(t)'
  BY <1>2 DEF IsEmpty, Members
<1>4. ASSUME NEW u \in AllTopics \ {t} PROVE ~Minder(p, u) /\ (IsEmpty(u)' => IsEmpty(u))
  BY <1>0, <1>2 DEF Minder, OnIt, Leaves, IsEmpty, Members
<1>5. \A u \in AllTopics : Minded(p, u)
  BY <1>2, <1>3, <1>4 DEF Minded
<1>6. QED BY <1>5, MinderKept, Zenon

LEMMA UnsubscribeMinds ==
    ASSUME TypeInv, OwnCalls, LinksOK, EmptyIsMinded, NEW p \in Actors, Unsubscribing(p)
    PROVE  EmptyIsMinded'
<1>1. ActorsOK /\ LocalsSet(act[p])
  BY DEF TypeInv, ActorsOK
<1>2. CASE UnsTopic(p)
  <2>1. act[p].pc = "uns.topic" /\ UNCHANGED <<wsSubscribers, members>>
    BY <1>2, Zenon DEF UnsTopic
  <2>2. CASE wsSubscribers[act[p].topic] = None /\ Done(p)
    <3>1. Alone(p)
      BY <1>1, <2>2, DoneEffect, Zenon
    <3>2. \A t \in AllTopics : ~(Minder(p, t) /\ IsEmpty(t))
      BY <2>1, <2>2 DEF Minder, OnIt, Leaves, IsEmpty
    <3>3. QED BY <2>1, <3>1, <3>2, MindsOn, Zenon
  <2>3. CASE /\ Alone(p) /\ SameCall(p) /\ act'[p].pc = "uns.conn"
             /\ act'[p].ref = wsSubscribers[act[p].topic]
    <3>1. \A t \in AllTopics : Minder(p, t) => Minder(p, t)'
      BY <2>1, <2>3 DEF Minder, OnIt, Leaves, SameCall
    <3>2. QED BY <2>1, <2>3, <3>1, MindsOn, Zenon
  <2>4. QED BY <1>1, <1>2, <2>2, <2>3, UnsTopicEffect, Zenon
<1>3. CASE UnsConn(p)
  <2>1. /\ act[p].pc = "uns.conn" /\ Alone(p) /\ SameCall(p) /\ act'[p].ref = act[p].ref
        /\ act'[p].pc \in {"uns.leave", "uns.forget"} /\ UNCHANGED <<wsSubscribers, members>>
    BY <1>1, <1>3, UnsConnEffect DEF UnsConn
  <2>2. \A t \in AllTopics : Minder(p, t) => Minder(p, t)'
    BY <2>1 DEF Minder, OnIt, Leaves, SameCall
  <2>3. QED BY <2>1, <2>2, MindsOn, Zenon
<1>4. CASE UnsForget(p)
  <2>1. /\ act[p].pc = "uns.forget" /\ Alone(p) /\ SameLocals(p) /\ act'[p].pc = "uns.leave"
        /\ UNCHANGED <<wsSubscribers, members>>
    BY <1>1, <1>4, GotoEffect DEF UnsForget
  <2>2. \A t \in AllTopics : Minder(p, t) => Minder(p, t)'
    BY <2>1 DEF Minder, OnIt, Leaves, SameLocals, SameCall
  <2>3. QED BY <2>1, <2>2, MindsOn, Zenon
<1>5. CASE UnsLeave(p)
  <2>1. act[p].pc = "uns.leave" /\ LeaveTopic(p, act[p].ref, "uns.drop", Done(p))
    BY <1>5, Zenon DEF UnsLeave
  <2>2. Done(p) => Alone(p)
    BY <1>1, DoneEffect, Zenon
  <2>3. act[p].pc \in {"uns.leave", "cl.leave"} /\ "uns.drop" \in {"uns.drop", "cl.drop"}
    BY <2>1
  <2>4. QED BY <2>1, <2>2, <2>3, LeaveMinds, Zenon
<1>6. CASE UnsDrop(p)
  <2>1. /\ act[p].pc = "uns.drop" /\ DropIfEmpty(act[p].topic) /\ Done(p) /\ UNCHANGED members
    BY <1>6, Zenon DEF UnsDrop
  <2>2. Alone(p) /\ act[p].pc \in {"uns.drop", "cl.drop"}
    BY <1>1, <2>1, DoneEffect
  <2>3. QED BY <2>1, <2>2, DropMinds, Zenon
<1>7. QED BY <1>2, <1>3, <1>4, <1>5, <1>6, Zenon DEF Unsubscribing

LEMMA CleanupMinds ==
    ASSUME TypeInv, LinksOK, EmptyIsMinded, NEW p \in Sessions, Cleaning(p)
    PROVE  EmptyIsMinded'
<1>1. ActorsOK /\ p \in Actors /\ LocalsSet(act[p])
  BY Apart DEF TypeInv, ActorsOK
<1>2. CASE Leave(p)
  <2>1. Alone(p) /\ act[p].pc = "leave" /\ UNCHANGED <<wsSubscribers, members>>
    BY <1>1, <1>2, LeaveEffect DEF Leave
  <2>2. QED BY <1>1, <2>1, MindsNothing
<1>3. CASE CleanTake(p)
  <2>1. Alone(p) /\ act[p].pc = "cl.take" /\ UNCHANGED <<wsSubscribers, members>>
    BY <1>1, <1>3, CleanTakeEffect, AfterEffect DEF CleanTake
  <2>2. QED BY <1>1, <2>1, MindsNothing
<1>4. CASE CleanCopy(p)
  <2>1. Alone(p) /\ act[p].pc = "cl.copy" /\ UNCHANGED <<wsSubscribers, members>>
    BY <1>1, <1>4, CleanCopyEffect DEF CleanCopy
  <2>2. QED BY <1>1, <2>1, MindsNothing
<1>5. CASE CleanTopic(p)
  <2>1. Alone(p) /\ act[p].pc = "cl.topic" /\ UNCHANGED <<wsSubscribers, members>>
    BY <1>1, <1>5, CleanTopicEffect, AfterEffect DEF CleanTopic
  <2>2. QED BY <1>1, <2>1, MindsNothing
<1>6. CASE CleanLeave(p)
  <2>1. act[p].pc = "cl.leave" /\ LeaveTopic(p, act[p].ref, "cl.drop", Goto(p, "cl.topic"))
    BY <1>6, Zenon DEF CleanLeave
  <2>2. Goto(p, "cl.topic") => Alone(p)
    BY <1>1, GotoEffect, Zenon
  <2>3. act[p].pc \in {"uns.leave", "cl.leave"} /\ "cl.drop" \in {"uns.drop", "cl.drop"}
    BY <2>1
  <2>4. QED BY <1>1, <2>1, <2>2, <2>3, LeaveMinds, Zenon
<1>7. CASE CleanDrop(p)
  <2>1. act[p].pc = "cl.drop" /\ DropIfEmpty(act[p].topic) /\ Goto(p, "cl.topic")
        /\ UNCHANGED members
    BY <1>7, Zenon DEF CleanDrop
  <2>2. Alone(p) /\ act[p].pc \in {"uns.drop", "cl.drop"}
    BY <1>1, <2>1, GotoEffect
  <2>3. QED BY <1>1, <2>1, <2>2, DropMinds, Zenon
<1>8. QED BY <1>2, <1>3, <1>4, <1>5, <1>6, <1>7, Zenon DEF Cleaning

\* Nothing that a topic's emptiness or an actor's part depends on changes.
LEMMA MindedStays ==
    ASSUME EmptyIsMinded, UNCHANGED <<wsSubscribers, members, act>>
    PROVE  EmptyIsMinded'
<1>1. \A t \in AllTopics : IsEmpty(t)' => IsEmpty(t)
  BY DEF IsEmpty, Members
<1>2. \A t \in AllTopics, p \in Actors : Minder(p, t) => Minder(p, t)'
  BY DEF Minder, OnIt, Leaves
<1>3. QED BY <1>1, <1>2, Zenon DEF EmptyIsMinded

LEMMA MessageMinds ==
    ASSUME TypeInv, EmptyIsMinded, NEW p \in Sessions,
           \/ \E c \in Clients : Ping(p, c)
           \/ \E t \in Topics : Handle(p, "sub.topic", t) \/ Handle(p, "uns.topic", t)
           \/ Registering(p) \/ Disconnect(p) \/ CloseOld(p)
    PROVE  EmptyIsMinded'
<1>1. ActorsOK /\ p \in Actors
  BY Apart DEF TypeInv
<1>2. UNCHANGED <<wsSubscribers, members>>
  BY Zenon DEF Ping, Handle, Registering, PingRegister, PingList, Disconnect, CloseOld
<1>3. ASSUME Alone(p), act[p].pc \in {"read", "register", "list"} PROVE EmptyIsMinded'
  BY <1>1, <1>2, <1>3, MindsNothing
<1>4. \A c \in Clients : Ping(p, c) => EmptyIsMinded'
  BY <1>1, <1>3, PingEffect
<1>5. \A t, pc : Handle(p, pc, t) => EmptyIsMinded'
  BY <1>1, <1>3, HandleEffect
<1>6. PingRegister(p) => EmptyIsMinded'
  BY <1>1, <1>3, PingRegisterEffect
<1>7. PingList(p) => EmptyIsMinded'
  BY <1>1, <1>3, DoneEffect DEF PingList
<1>8. Disconnect(p) => EmptyIsMinded'
  BY <1>1, <1>3, GotoEffect DEF Disconnect
<1>9. CloseOld(p) => EmptyIsMinded'
  BY MindedStays, Zenon DEF CloseOld
<1>10. QED BY <1>4, <1>5, <1>6, <1>7, <1>8, <1>9, Zenon DEF Registering

LEMMA ProgramMinds ==
    ASSUME TypeInv, EmptyIsMinded, NEW p \in Actors, p \notin Sessions,
           \/ p \in {"remove"} \X Removals /\ (RemoveTopic(p) \/ RemoveForget(p))
           \/ \E c \in Clients : Direct(p, c)
    PROVE  EmptyIsMinded'
<1>1. ActorsOK /\ TopicsOK
  BY DEF TypeInv
<1>2. CASE p \in {"remove"} \X Removals /\ RemoveTopic(p)
  <2> DEFINE t == p[2]
  <2>1. t \in AllTopics
    BY <1>2, WsAssumption DEF AllTopics
  <2>2. /\ act[p].pc = "wait" /\ Alone(p) /\ UNCHANGED members
        /\ wsSubscribers' = [wsSubscribers EXCEPT ![t] = None]
    BY <1>1, <1>2, RemoveTopicEffect, Zenon DEF RemoveTopic
  <2>3. /\ wsSubscribers'[t] = None
        /\ \A u \in AllTopics \ {t} : wsSubscribers'[u] = wsSubscribers[u]
    BY <1>1, <2>1, <2>2 DEF TopicsOK
  <2>4. ASSUME NEW u \in AllTopics PROVE Minded(p, u)
    BY <2>2, <2>3 DEF Minded, IsEmpty, Members, Minder, OnIt, Leaves
  <2>5. QED BY <2>2, <2>4, MinderKept, Zenon
<1>3. CASE RemoveForget(p)
  <2>1. act[p].pc = "rm.forget" /\ Alone(p) /\ UNCHANGED <<wsSubscribers, members>>
    BY <1>1, <1>3, RemoveForgetEffect DEF RemoveForget
  <2>2. QED BY <2>1, MindsNothing DEF InUnsubscribe
<1>4. ASSUME NEW c \in Clients, Direct(p, c) PROVE EmptyIsMinded'
  <2>1. act[p].pc = "wait" /\ Alone(p) /\ UNCHANGED <<wsSubscribers, members>>
    BY <1>1, <1>4, DirectEffect DEF Direct
  <2>2. QED BY <2>1, MindsNothing DEF InUnsubscribe
<1>5. QED BY <1>2, <1>3, <1>4, Zenon

LEMMA MindedStep ==
    ASSUME TypeInv, OwnCalls, HeldIds, LinksOK, EmptyIsMinded, [Next]_vars
    PROVE  EmptyIsMinded'
<1>1. UNCHANGED vars => EmptyIsMinded'
  BY MindedStays, Zenon DEF vars
<1>2. QED
  BY <1>1, Apart, MessageMinds, SubscribeMinds, UnsubscribeMinds, CleanupMinds, ProgramMinds
  DEF Next

\* A topic that subscribers of WebSocket have left stays neither in
\* ps.wsSubscribers nor in the way of checkTopicEmpty, whatever the clients, the
\* program's Unsubscribe and PublishToIDWithAck do at once (unsubscribeWebSocket
\* counts the members under one lock and drops the topic under another one), as
\* long as no two sessions claim one id.
THEOREM EmptyTopicsGo == ASSUME IdsApart PROVE Spec => []NoEmptyTopics
<1> DEFINE Inv == TypeInv /\ RegisteredIsUsable /\ OwnCalls /\ HeldIds /\ LinksOK /\ EmptyIsMinded
<1>1. Init => HeldIds /\ LinksOK /\ EmptyIsMinded
  <2> SUFFICES ASSUME Init PROVE HeldIds /\ LinksOK /\ EmptyIsMinded
    OBVIOUS
  <2>1. \A p \in Actors : act[p] = IF p \in Sessions THEN At("read", None) ELSE At("wait", None)
    BY DEF Init
  <2>2. \A p \in Actors : act[p].pc \in {"read", "wait"} /\ act[p].id = None
    BY <2>1, AtFields
  <2>3. \A t \in AllTopics : wsSubscribers[t] = None
    BY DEF Init
  <2>4. QED BY <2>2, <2>3, Apart DEF HeldIds, Attached, LinksOK, UsesRef, EmptyIsMinded, IsEmpty
<1>2. TypeInv /\ RegisteredIsUsable /\ OwnCalls /\ HeldIds /\ LinksOK /\ EmptyIsMinded
        /\ [Next]_vars => HeldIds' /\ LinksOK' /\ EmptyIsMinded'
  BY HeldIdsStep, LinksStep, MindedStep, Zenon
<1>3. OwnCalls /\ EmptyIsMinded => NoEmptyTopics
  BY DEF OwnCalls, OwnActors, OwnActor, EmptyIsMinded, IsEmpty, NoEmptyTopics, Quiet, Minder,
         OnIt, Leaves
<1>4. QED BY <1>1, <1>2, <1>3, UsableInvariant, OwnInvariant, PTL DEF Spec

-----------------------------------------------------------------------------
(* The connections that actors hold. *)

\* Whoever moves by itself is one of these.
Moves(p) ==
    \/ /\ p \in Sessions
       /\ \/ \E c \in Clients : Ping(p, c)
          \/ \E t \in Topics : Handle(p, "sub.topic", t) \/ Handle(p, "uns.topic", t)
          \/ Registering(p) \/ Cleaning(p) \/ Disconnect(p)
    \/ Subscribing(p) \/ Unsubscribing(p)
    \/ p \in {"remove"} \X Removals /\ (RemoveTopic(p) \/ RemoveForget(p))
    \/ p \in {"direct"} \X Directs /\ \E c \in Clients : Direct(p, c)

LEMMA MovedOne ==
    ASSUME TypeInv, OwnCalls, [Next]_vars, NEW q \in Actors, act'[q] # act[q]
    PROVE  Moves(q)
<1>1. ActorsOK /\ OwnActors
  BY DEF TypeInv, OwnCalls
<1>2. ASSUME NEW p \in Actors, Alone(p), Moves(p) PROVE Moves(q)
  BY <1>2 DEF Alone
<1>3. ASSUME NEW p \in Sessions,
             \/ \E c \in Clients : Ping(p, c)
             \/ \E t \in Topics : Handle(p, "sub.topic", t) \/ Handle(p, "uns.topic", t)
             \/ Registering(p) \/ Cleaning(p) \/ CloseOld(p) \/ Disconnect(p)
      PROVE  Moves(q)
  <2>1. p \in Actors
    BY Apart
  <2>2. CASE CloseOld(p)
    BY <2>2, Zenon DEF CloseOld
  <2>3. CASE ~CloseOld(p)
    <3>1. Moves(p)
      BY <1>3, <2>3, Zenon DEF Moves
    <3>2. PingRegister(p) => Alone(p)
      BY <1>1, <2>1, PingRegisterEffect, Zenon
    <3>3. CleanTake(p) => Alone(p)
      BY <1>1, <2>1, CleanTakeEffect, AfterEffect, Zenon
    <3>4. Alone(p)
      BY <1>1, <1>3, <2>3, <3>2, <3>3, MessageRemains, CleanupRemains, Zenon
      DEF Registering, OneRemains
    <3>5. QED BY <1>2, <2>1, <3>1, <3>4, Zenon
  <2>4. QED BY <2>2, <2>3
<1>4. ASSUME NEW p \in Actors, Subscribing(p) \/ Unsubscribing(p) PROVE Moves(q)
  <2>1. Alone(p)
    BY <1>1, <1>4, SubscribeRemains, UnsubscribeRemains, Zenon DEF OneRemains
  <2>2. Moves(p)
    BY <1>4, Zenon DEF Moves
  <2>3. QED BY <1>2, <2>1, <2>2, Zenon
<1>5. ASSUME NEW p \in {"remove"} \X Removals, RemoveTopic(p) \/ RemoveForget(p)
      PROVE  Moves(q)
  <2>1. p \in Actors /\ Moves(p)
    BY <1>5, Apart, Zenon DEF Moves
  <2>2. Alone(p)
    BY <1>1, <1>5, <2>1, RemoveTopicEffect, RemoveForgetEffect, Zenon
  <2>3. QED BY <1>2, <2>1, <2>2, Zenon
<1>6. ASSUME NEW p \in {"direct"} \X Directs, NEW c \in Clients, Direct(p, c) PROVE Moves(q)
  <2>1. p \in Actors /\ Moves(p)
    BY <1>6, Apart, Zenon DEF Moves
  <2>2. Alone(p)
    BY <1>1, <1>6, <2>1, DirectEffect, Zenon
  <2>3. QED BY <1>2, <2>1, <2>2, Zenon
<1>7. CASE UNCHANGED vars
  BY <1>7, Zenon DEF vars
<1>8. QED BY <1>3, <1>4, <1>5, <1>6, <1>7, Zenon DEF Next

\* What registerWebSocket leaves of the connections that somebody refers to.
LEMMA RegisterKeeps ==
    ASSUME RegistryOK, NEW c \in Clients, NEW s \in Sessions, Register(c, s),
           NEW k \in Conns \ FreeConns
    PROVE  conn'[k].client = conn[k].client /\ conn'[k].topics = conn[k].topics
<1>1. conn[k] \in Connection /\ conn \in [Conns -> Connection]
  BY DEF RegistryOK
<1>2. ASSUME NEW f \in FreeConns,
             conn' = [conn EXCEPT ![f] = [client |-> c, socket |-> s, topics |-> {},
                                          active |-> TRUE]]
      PROVE  conn'[k] = conn[k]
  BY <1>1, <1>2 DEF FreeConns
<1>3. ASSUME wsConns[c] # None,
             conn' = [conn EXCEPT ![wsConns[c]].socket = s, ![wsConns[c]].active = TRUE]
      PROVE  conn'[k].client = conn[k].client /\ conn'[k].topics = conn[k].topics
  BY <1>1, <1>3 DEF RegistryOK, Connection
<1>4. QED BY <1>2, <1>3, Zenon DEF Register

\* Whose a connection is does not change while somebody refers to it.
LEMMA ClientKept ==
    ASSUME TypeInv, RegisteredIsUsable, OwnCalls, [Next]_vars, NEW k \in Conns \ FreeConns
    PROVE  conn'[k].client = conn[k].client
<1>1. RegistryOK /\ OwnActors
  BY DEF TypeInv, OwnCalls
<1>2. ASSUME NEW p \in Actors, (p \in Sessions /\ PingRegister(p)) \/ SubRegister(p)
      PROVE  conn'[k].client = conn[k].client
  BY <1>1, <1>2, Registration, RegisterKeeps
<1>3. ASSUME NEW p \in Sessions, CleanTake(p) PROVE conn'[k].client = conn[k].client
  <2>1. UNCHANGED conn \/ \E c \in Conns : conn' = [conn EXCEPT ![c].active = FALSE]
    BY <1>1, <1>3, Apart DEF CleanTake, RegistryOK, TypeInv, ActorsOK, LocalsSet, InCleanup
  <2>2. QED BY <1>1, <2>1 DEF RegistryOK, Connection
<1>4. QED BY <1>2, <1>3, Apart, ConnectionStep DEF SameConnections

\* A client's entry stays until the cleanup of that client takes it.
LEMMA EntryKept ==
    ASSUME TypeInv, RegisteredIsUsable, OwnCalls, [Next]_vars, NEW c \in Clients, wsConns[c] # None
    PROVE  wsConns'[c] = wsConns[c] \/ \E p \in Sessions : CleanTake(p) /\ act[p].client = c
<1>1. RegistryOK /\ OwnActors
  BY DEF TypeInv, OwnCalls
<1>2. ASSUME NEW p \in Actors, (p \in Sessions /\ PingRegister(p)) \/ SubRegister(p)
      PROVE  wsConns'[c] = wsConns[c]
  <2>1. PICK d \in Clients, s \in Sessions : Register(d, s)
    BY <1>1, <1>2, Registration, Zenon
  <2>2. CASE d = c
    BY <2>1, <2>2 DEF Register
  <2>3. CASE d # c
    BY <1>1, <2>1, <2>3, RegisterEffect
  <2>4. QED BY <2>2, <2>3
<1>3. ASSUME NEW p \in Sessions, CleanTake(p), act[p].client # c PROVE wsConns'[c] = wsConns[c]
  <2>1. act[p].client \in Clients
    BY <1>3, Apart DEF CleanTake, TypeInv, ActorsOK, LocalsSet, InCleanup
  <2>2. QED BY <1>1, <1>3, <2>1 DEF CleanTake, RegistryOK
<1>4. QED BY <1>2, <1>3, Apart, ConnectionStep DEF SameConnections

\* An actor that is to use a connection holds one of the client of its call; a
\* session that subscribes or unsubscribes holds the registered one.
Holds == {"sub.join", "sub.mark", "uns.forget", "cl.copy"}
HeldConns ==
    /\ \A p \in Actors : act[p].pc \in Holds => conn[act[p].obj].client = act[p].client
    /\ \A p \in Sessions : act[p].pc \in Holds \ {"cl.copy"} => act[p].obj = wsConns[act[p].client]

\* Which steps lead to the places where an actor holds a connection, or the
\* object of a topic it leaves.
LEMMA Arrives ==
    ASSUME TypeInv, OwnCalls, NEW p \in Actors, Moves(p)
    PROVE  /\ act'[p].pc \in Holds
                => SubConn(p) \/ SubJoin(p) \/ UnsConn(p) \/ (p \in Sessions /\ CleanTake(p))
           /\ act'[p].pc \in {"uns.conn", "uns.forget", "uns.leave"}
                => UnsTopic(p) \/ UnsConn(p) \/ UnsForget(p)
<1> DEFINE Far == act'[p].pc \notin Holds \cup {"uns.conn", "uns.forget", "uns.leave"}
<1>1. ActorsOK
  BY DEF TypeInv
<1>2. Done(p) => Far
  BY <1>1, DoneEffect DEF Holds
<1>3. AfterCleanup(p) => Far
  BY <1>1, AfterEffect DEF Holds
<1>4. ASSUME NEW pc, Goto(p, pc), pc \notin Holds \cup {"uns.conn", "uns.forget", "uns.leave"}
      PROVE  Far
  BY <1>1, <1>4, GotoEffect
<1>5. ASSUME p \in Sessions,
             \/ \E c \in Clients : Ping(p, c)
             \/ \E t \in Topics : Handle(p, "sub.topic", t) \/ Handle(p, "uns.topic", t)
             \/ Registering(p) \/ Disconnect(p)
      PROVE  Far
  <2>1. ASSUME NEW c \in Clients, Ping(p, c) PROVE Far
    BY <1>1, <2>1, PingEffect DEF Holds
  <2>2. ASSUME NEW t, NEW pc \in {"sub.topic", "uns.topic"}, Handle(p, pc, t) PROVE Far
    BY <1>1, <2>2, HandleEffect DEF Holds
  <2>3. PingRegister(p) => Far
    BY <1>1, PingRegisterEffect DEF Holds
  <2>4. PingList(p) => Far
    BY <1>2 DEF PingList
  <2>5. Disconnect(p) => Far
    BY <1>4 DEF Disconnect, Holds
  <2>6. QED BY <1>5, <2>1, <2>2, <2>3, <2>4, <2>5 DEF Registering
<1>6. ASSUME p \in Sessions, Cleaning(p) PROVE Far \/ (CleanTake(p) /\ act'[p].pc = "cl.copy")
  <2>1. Leave(p) => Far
    BY <1>1, LeaveEffect DEF Holds
  <2>2. CleanTake(p) => Far \/ act'[p].pc = "cl.copy"
    BY <1>1, <1>3, CleanTakeEffect
  <2>3. CleanCopy(p) => Far
    BY <1>1, CleanCopyEffect DEF Holds
  <2>4. CleanTopic(p) => Far
    BY <1>1, <1>3, CleanTopicEffect DEF Holds
  <2>5. CleanLeave(p) => Far
    BY <1>4 DEF CleanLeave, LeaveTopic, Holds
  <2>6. CleanDrop(p) => Far
    BY <1>4 DEF CleanDrop, Holds
  <2> HIDE DEF Far
  <2>7. QED BY <1>6, <2>1, <2>2, <2>3, <2>4, <2>5, <2>6, Zenon DEF Cleaning
<1>7. ASSUME Subscribing(p)
      PROVE  Far \/ ((SubConn(p) \/ SubJoin(p)) /\ act'[p].pc \in {"sub.join", "sub.mark"})
  <2>1. SubTopic(p) => Far
    BY <1>1, SubTopicEffect DEF Holds
  <2>2. SubRegister(p) => Far
    BY <1>4 DEF SubRegister, Holds
  <2>3. SubConn(p) => Far \/ act'[p].pc = "sub.join"
    BY <1>1, <1>2, SubConnEffect DEF Holds
  <2>4. SubJoin(p) => act'[p].pc = "sub.mark"
    BY <1>1, GotoEffect DEF SubJoin, Holds
  <2>5. SubMark(p) => Far
    BY <1>2 DEF SubMark
  <2>6. QED BY <1>7, <2>1, <2>2, <2>3, <2>4, <2>5 DEF Subscribing
<1>8. ASSUME Unsubscribing(p) PROVE Far \/ UnsTopic(p) \/ UnsConn(p) \/ UnsForget(p)
  <2>1. UnsLeave(p) => Far
    BY <1>2, <1>4 DEF UnsLeave, LeaveTopic, Holds
  <2>2. UnsDrop(p) => Far
    BY <1>2 DEF UnsDrop
  <2>3. QED BY <1>8, <2>1, <2>2 DEF Unsubscribing
<1>9. UnsTopic(p) => Far \/ act'[p].pc = "uns.conn"
  BY <1>1, <1>2, UnsTopicEffect
<1>10. UnsForget(p) => act'[p].pc = "uns.leave"
  BY <1>1, GotoEffect DEF UnsForget
<1>11. ASSUME p \in {"remove"} \X Removals, RemoveTopic(p) \/ RemoveForget(p) PROVE Far
  BY <1>1, <1>11, RemoveTopicEffect, RemoveForgetEffect DEF Holds
<1>12. ASSUME NEW c \in Clients, Direct(p, c) PROVE Far
  BY <1>1, <1>12, DirectEffect DEF Holds
<1>13. ASSUME ~Far
       PROVE  \/ p \in Sessions /\ CleanTake(p) /\ act'[p].pc = "cl.copy"
              \/ (SubConn(p) \/ SubJoin(p)) /\ act'[p].pc \in {"sub.join", "sub.mark"}
              \/ UnsTopic(p) \/ UnsConn(p) \/ UnsForget(p)
  <2> HIDE DEF Far
  <2>1. QED BY <1>5, <1>6, <1>7, <1>8, <1>11, <1>12, <1>13, Zenon DEF Moves
<1>14. QED BY <1>9, <1>10, <1>13 DEF Holds

LEMMA HeldConnsStep ==
    ASSUME IdsApart, TypeInv, RegisteredIsUsable, OwnCalls, HeldIds, HeldConns, [Next]_vars
    PROVE  HeldConns'
<1>1. ActorsOK /\ RegistryOK /\ OwnActors
  BY DEF TypeInv, OwnCalls
<1>2. ASSUME NEW c \in Clients, wsConns[c] # None
      PROVE  /\ wsConns[c] \in Conns \ FreeConns /\ conn[wsConns[c]].client = c
             /\ conn'[wsConns[c]].client = c
  <2>1. wsConns[c] \in Conns \ FreeConns /\ conn[wsConns[c]].client = c
    BY <1>1, <1>2 DEF RegistryOK, FreeConns, RegisteredIsUsable
  <2>2. QED BY <2>1, ClientKept
<1>3. ASSUME NEW p \in Actors, act'[p] = act[p], act'[p].pc \in Holds
      PROVE  /\ conn'[act'[p].obj].client = act'[p].client
             /\ p \in Sessions /\ act'[p].pc # "cl.copy" => act'[p].obj = wsConns'[act'[p].client]
  <2> DEFINE k == act[p].obj
             c == act[p].client
  <2>1. k \in Conns \ FreeConns /\ c \in Clients /\ k # None
    BY <1>1, <1>3, WsAssumption
    DEF ActorsOK, LocalsSet, FreeConns, Holds, InSubscribe, InUnsubscribe, InCleanup
  <2>2. conn'[k].client = c
    BY <1>3, <2>1, ClientKept DEF HeldConns
  <2>3. ASSUME p \in Sessions, act[p].pc # "cl.copy" PROVE k = wsConns'[c]
    <3>1. k = wsConns[c] /\ wsConns[c] # None
      BY <1>3, <2>1, <2>3 DEF HeldConns
    <3>2. ASSUME NEW q \in Sessions, CleanTake(q), act[q].client = c PROVE FALSE
      <4>1. act[q].client = act[q].id /\ act[q].id \in Ids[q] /\ act[q].pc = "cl.take"
        BY <1>1, <3>2, TakesOwn, Apart, WsAssumption
        DEF CleanTake, OwnActors, OwnActor, OwnSession, InCleanup
      <4>2. act[p].client = act[p].id /\ act[p].id \in Ids[p]
        BY <1>1, <1>3, <2>1, <2>3, Apart, WsAssumption
        DEF OwnActors, OwnActor, OwnSession, Holds, InSubscribe, InUnsubscribe
      <4>3. p = q
        BY <2>3, <3>2, <4>1, <4>2 DEF IdsApart
      <4>4. QED BY <1>3, <4>1, <4>3 DEF Holds
    <3>3. QED BY <2>1, <3>1, <3>2, EntryKept
  <2>4. QED BY <1>3, <2>2, <2>3
<1>4. ASSUME NEW p \in Actors, Moves(p), act'[p].pc \in Holds
      PROVE  /\ conn'[act'[p].obj].client = act'[p].client
             /\ p \in Sessions /\ act'[p].pc # "cl.copy" => act'[p].obj = wsConns'[act'[p].client]
  <2> DEFINE c == act[p].client
  <2>1. CASE SubConn(p) \/ UnsConn(p)
    <3>1. UNCHANGED <<wsConns, conn>> /\ c \in Clients
      BY <1>1, <2>1 DEF SubConn, UnsConn, ActorsOK, LocalsSet, InSubscribe, InUnsubscribe
    <3>2. act'[p].client = c /\ act'[p].obj = wsConns[c] /\ wsConns[c] # None
      BY <1>1, <1>4, <2>1, SubConnEffect, UnsConnEffect, DoneEffect DEF SameCall, Holds
    <3>3. QED BY <1>2, <3>1, <3>2
  <2>2. CASE SubJoin(p)
    <3>1. /\ UNCHANGED <<wsConns, conn>> /\ act[p].pc = "sub.join"
          /\ act'[p].obj = act[p].obj /\ act'[p].client = c
      BY <1>1, <2>2, GotoEffect DEF SubJoin, SameLocals, SameCall
    <3>2. QED BY <3>1 DEF HeldConns, Holds
  <2>3. CASE p \in Sessions /\ CleanTake(p)
    <3>1. /\ act'[p].pc = "cl.copy" /\ act'[p].client = c /\ act'[p].obj = wsConns[c]
          /\ c \in Clients /\ wsConns[c] # None
      BY <2>3, TakesOwn DEF SameCall, Take
    <3>2. QED BY <1>2, <3>1
  <2>4. QED BY <1>4, <2>1, <2>2, <2>3, Arrives
<1>5. \A p \in Actors : act'[p] # act[p] => Moves(p)
  BY MovedOne
<1>6. QED BY <1>3, <1>4, <1>5, Apart DEF HeldConns

-----------------------------------------------------------------------------
(* The members of the topics. *)

Subscribed(t, c) == wsSubscribers[t] # None /\ members[wsSubscribers[t]][c] # None
Entry(t, c) == members[wsSubscribers[t]][c]
SameEntry(t, c) ==
    Subscribed(t, c) /\ wsSubscribers'[t] = wsSubscribers[t] /\ Entry(t, c)' = Entry(t, c)

\* A client that is in a topic after a step was in it before, with the same
\* connection, unless that step was the one that joins it.
LEMMA EntryStep ==
    ASSUME TypeInv, [Next]_vars, NEW t \in AllTopics, NEW c \in Clients, Subscribed(t, c)'
    PROVE  \/ SameEntry(t, c)
           \/ \E p \in Actors : /\ SubJoin(p) /\ act[p].topic \in AllTopics
                                /\ act[p].ref = wsSubscribers[t] /\ act[p].client = c
<1>1. TopicsOK /\ ActorsOK
  BY DEF TypeInv
<1>2. UNCHANGED <<wsSubscribers, members>> => SameEntry(t, c)
  BY DEF SameEntry, Subscribed, Entry
<1>3. ASSUME NEW p \in Actors, SubTopic(p) PROVE SameEntry(t, c)
  <2>1. PICK u, j : u = act[p].topic /\ j = act'[p].ref
    OBVIOUS
  <2>2. u \in AllTopics /\ j \in WsTopicDatas
    BY <1>1, <1>3, <2>1, SubTopicEffect DEF ActorsOK, LocalsSet, InSubscribe
  <2>3. CASE /\ j \in FreeTopicDatas
             /\ wsSubscribers' = [wsSubscribers EXCEPT ![u] = j]
             /\ members' = [members EXCEPT ![j] = [d \in Clients |-> None]]
    <3>1. members'[j][c] = None /\ wsSubscribers'[u] = j
      BY <1>1, <2>2, <2>3 DEF TopicsOK
    <3>2. t # u
      BY <3>1 DEF Subscribed
    <3>3. wsSubscribers'[t] = wsSubscribers[t] /\ wsSubscribers[t] # j
      BY <1>1, <2>3, <3>2 DEF TopicsOK, FreeTopicDatas
    <3>4. members'[wsSubscribers[t]] = members[wsSubscribers[t]]
      BY <1>1, <2>2, <2>3, <3>3 DEF TopicsOK, Subscribed
    <3>5. QED BY <3>3, <3>4 DEF SameEntry, Subscribed, Entry
  <2>4. QED BY <1>1, <1>2, <1>3, <2>1, <2>3, SubTopicEffect
<1>4. ASSUME NEW p \in Actors, SubJoin(p),
             ~(act[p].ref = wsSubscribers[t] /\ act[p].client = c)
      PROVE  SameEntry(t, c)
  <2>1. /\ UNCHANGED wsSubscribers /\ act[p].ref \in WsTopicDatas /\ act[p].client \in Clients
        /\ members' = [members EXCEPT ![act[p].ref][act[p].client] = act[p].obj]
    BY <1>1, <1>4 DEF SubJoin, ActorsOK, LocalsSet, InSubscribe
  <2>2. wsSubscribers[t] \in WsTopicDatas
    BY <1>1, <2>1 DEF Subscribed, TopicsOK
  <2>3. members'[wsSubscribers[t]][c] = members[wsSubscribers[t]][c]
    BY <1>1, <1>4, <2>1, <2>2 DEF TopicsOK
  <2>4. QED BY <2>1, <2>3 DEF SameEntry, Subscribed, Entry
<1>5. ASSUME NEW p \in Actors, NEW a, NEW b, LeaveTopic(p, act[p].ref, a, b),
             act[p].pc \in {"uns.leave", "cl.leave"}
      PROVE  SameEntry(t, c)
  <2>1. /\ UNCHANGED wsSubscribers /\ act[p].ref \in WsTopicDatas /\ act[p].client \in Clients
        /\ members' = [members EXCEPT ![act[p].ref][act[p].client] = None]
    BY <1>1, <1>5 DEF LeaveTopic, ActorsOK, LocalsSet, InUnsubscribe, InCleanup
  <2>2. wsSubscribers[t] \in WsTopicDatas
    BY <1>1, <2>1 DEF Subscribed, TopicsOK
  <2>3. members'[wsSubscribers[t]][c] = members[wsSubscribers[t]][c]
    BY <1>1, <2>1, <2>2 DEF TopicsOK, Subscribed
  <2>4. QED BY <2>1, <2>3 DEF SameEntry, Subscribed, Entry
<1>6. ASSUME NEW u \in AllTopics, UNCHANGED members,
             \/ DropIfEmpty(u)
             \/ wsSubscribers' = [wsSubscribers EXCEPT ![u] = None]
      PROVE  SameEntry(t, c)
  <2>1. wsSubscribers'[t] \in {wsSubscribers[t], None}
    BY <1>1, <1>6, DropShrinks DEF TopicsOK
  <2>2. QED BY <1>6, <2>1 DEF SameEntry, Subscribed, Entry
<1>7. ASSUME NEW p \in Actors, UnsDrop(p) \/ CleanDrop(p) PROVE SameEntry(t, c)
  <2>1. DropIfEmpty(act[p].topic) /\ UNCHANGED members /\ act[p].topic \in AllTopics
    BY <1>1, <1>7 DEF UnsDrop, CleanDrop, ActorsOK, LocalsSet, InUnsubscribe
  <2>2. QED BY <1>6, <2>1, Zenon
<1>8. ASSUME NEW p \in {"remove"} \X Removals, RemoveTopic(p) PROVE SameEntry(t, c)
  <2>1. p[2] \in AllTopics
    BY WsAssumption DEF AllTopics
  <2>2. QED BY <1>6, <1>8, <2>1, Zenon DEF RemoveTopic
<1>9. ASSUME NEW p \in Actors, UnsLeave(p) \/ CleanLeave(p) PROVE SameEntry(t, c)
  BY <1>5, <1>9 DEF UnsLeave, CleanLeave
<1>10. ASSUME NEW p \in Actors, SubJoin(p) PROVE act[p].topic \in AllTopics
  BY <1>1, <1>10 DEF SubJoin, ActorsOK, LocalsSet, InSubscribe
<1>11. ASSUME NEW p \in Actors, Subscribing(p)
       PROVE  SubTopic(p) \/ SubJoin(p) \/ UNCHANGED <<wsSubscribers, members>>
  BY <1>11, Zenon DEF Subscribing, SubRegister, SubConn, SubMark
<1>12. ASSUME NEW p \in Actors, Unsubscribing(p)
       PROVE  UnsLeave(p) \/ UnsDrop(p) \/ UNCHANGED <<wsSubscribers, members>>
  BY <1>12, Zenon DEF Unsubscribing, UnsTopic, UnsConn, UnsForget
<1>13. ASSUME NEW p \in Sessions, Cleaning(p)
       PROVE  CleanLeave(p) \/ CleanDrop(p) \/ UNCHANGED <<wsSubscribers, members>>
  BY <1>13, Zenon DEF Cleaning, Leave, CleanTake, CleanCopy, CleanTopic
<1>14. \/ UNCHANGED <<wsSubscribers, members>>
       \/ \E p \in Actors : SubTopic(p) \/ SubJoin(p) \/ UnsLeave(p) \/ UnsDrop(p)
                            \/ CleanLeave(p) \/ CleanDrop(p)
       \/ \E p \in {"remove"} \X Removals : RemoveTopic(p)
  BY <1>11, <1>12, <1>13, Apart, Zenon
  DEF Next, vars, Ping, Handle, Registering, PingRegister, PingList, CloseOld, Disconnect,
      RemoveForget, Direct
<1>15. QED BY <1>2, <1>3, <1>4, <1>7, <1>8, <1>9, <1>10, <1>14

\* A connection that somebody refers to keeps a topic until an unsubscription
\* takes it, if the program takes none.
LEMMA MarkStep ==
    ASSUME Removals = {}, TypeInv, OwnCalls, RegisteredIsUsable, [Next]_vars,
           NEW k \in Conns \ FreeConns, NEW t \in conn[k].topics
    PROVE  \/ t \in conn'[k].topics
           \/ \E p \in Actors : UnsForget(p) /\ act[p].obj = k /\ act[p].topic = t
<1>1. ActorsOK /\ RegistryOK /\ OwnActors /\ conn[k] \in Connection
  BY DEF TypeInv, OwnCalls, RegistryOK
<1>2. UNCHANGED conn => t \in conn'[k].topics
  OBVIOUS
<1>3. ASSUME NEW p \in Actors, (p \in Sessions /\ PingRegister(p)) \/ SubRegister(p)
      PROVE  t \in conn'[k].topics
  BY <1>1, <1>3, Registration, RegisterKeeps
<1>4. ASSUME NEW p \in Actors, SubMark(p) PROVE t \in conn'[k].topics
  <2>1. /\ act[p].obj \in Conns
        /\ conn' = [conn EXCEPT ![act[p].obj].topics = @ \cup {act[p].topic}]
    BY <1>1, <1>4 DEF SubMark, ActorsOK, LocalsSet
  <2>2. QED BY <1>1, <2>1 DEF RegistryOK, Connection
<1>5. ASSUME NEW p \in Actors, UnsForget(p), ~(act[p].obj = k /\ act[p].topic = t)
      PROVE  t \in conn'[k].topics
  <2>1. /\ act[p].obj \in Conns
        /\ conn' = [conn EXCEPT ![act[p].obj].topics = @ \ {act[p].topic}]
    BY <1>1, <1>5 DEF UnsForget, ActorsOK, LocalsSet
  <2>2. QED BY <1>1, <1>5, <2>1 DEF RegistryOK, Connection
<1>6. ASSUME NEW p \in Sessions, CleanTake(p) PROVE t \in conn'[k].topics
  <2>1. UNCHANGED conn \/ \E i \in Conns : conn' = [conn EXCEPT ![i].active = FALSE]
    BY <1>1, <1>6, Apart DEF CleanTake, RegistryOK, TypeInv, ActorsOK, LocalsSet, InCleanup
  <2>2. QED BY <1>1, <2>1 DEF RegistryOK, Connection
<1>7. ASSUME NEW p \in Actors, Subscribing(p)
      PROVE  SubRegister(p) \/ SubMark(p) \/ UNCHANGED conn
  BY <1>7, Zenon DEF Subscribing, SubTopic, SubConn, SubJoin
<1>8. ASSUME NEW p \in Actors, Unsubscribing(p)
      PROVE  UnsForget(p) \/ UNCHANGED conn
  BY <1>8, Zenon DEF Unsubscribing, UnsTopic, UnsConn, UnsLeave, LeaveTopic, UnsDrop
<1>9. ASSUME NEW p \in Sessions, Cleaning(p) PROVE CleanTake(p) \/ UNCHANGED conn
  BY <1>9, Zenon DEF Cleaning, Leave, CleanCopy, CleanTopic, CleanLeave, LeaveTopic, CleanDrop
<1>10. \/ UNCHANGED conn
       \/ \E p \in Sessions : PingRegister(p) \/ CleanTake(p)
       \/ \E p \in Actors : SubRegister(p) \/ SubMark(p) \/ UnsForget(p)
       \/ \E p \in {"remove"} \X Removals : RemoveTopic(p) \/ RemoveForget(p)
  BY <1>7, <1>8, <1>9, Zenon
  DEF Next, vars, Ping, Handle, Registering, PingList, CloseOld, Disconnect, Direct
<1>11. ~\E p \in {"remove"} \X Removals : TRUE
  OBVIOUS
<1>12. QED BY <1>2, <1>3, <1>4, <1>5, <1>6, <1>10, <1>11, Apart

\* The session that will take client c out of topic t: its connection knows the
\* topic, or will at its next step; or it is taking the client out.
Marked(p, t, c) ==
    Attached(act[p]) /\ Entry(t, c) = wsConns[c] /\ t \in conn[Entry(t, c)].topics
LooksAfter(p, t, c) ==
    /\ act[p].id = c
    /\ \/ Marked(p, t, c)
       \/ act[p].pc = "sub.mark" /\ act[p].topic = t /\ Entry(t, c) = wsConns[c]
       \/ /\ act[p].pc \in {"uns.leave", "cl.leave"}
          /\ act[p].topic = t /\ act[p].ref = wsSubscribers[t]
       \/ act[p].pc = "cl.copy" /\ act[p].obj = Entry(t, c) /\ t \in conn[Entry(t, c)].topics
       \/ act[p].pc \in {"cl.topic", "cl.leave", "cl.drop"} /\ t \in act[p].todo

MembersMinded ==
    \A t \in Topics, c \in Clients : Subscribed(t, c) => \E p \in Sessions : LooksAfter(p, t, c)
\* A session that leaves a topic its client is in has found the topic's object.
RefCurrent ==
    \A p \in Sessions :
        act[p].pc \in {"uns.conn", "uns.forget", "uns.leave"}
                /\ Subscribed(act[p].topic, act[p].client)
            => act[p].ref = wsSubscribers[act[p].topic]

Known == IdsApart /\ Removals = {} /\ TypeInv /\ RegisteredIsUsable /\ OwnCalls /\ HeldIds
           /\ LinksOK /\ HeldConns

\* Which session a call's client and topic belong to.
LEMMA CallOf ==
    ASSUME OwnCalls, NEW p \in Sessions, act[p].pc \in InSubscribe \cup InUnsubscribe \cup InCleanup
    PROVE  act[p].client = act[p].id /\ (act[p].id # None => act[p].id \in Ids[p])
BY Apart DEF OwnCalls, OwnActors, OwnActor, OwnSession

LEMMA TopicOf ==
    ASSUME OwnCalls, NEW p \in Actors, act[p].pc \in InSubscribe \cup InUnsubscribe
    PROVE  /\ p \in Sessions => act[p].topic \in Topics
           /\ p \notin Sessions => p = <<"direct", act[p].topic>> /\ act[p].topic \in Directs
<1>1. OwnActor(p, act[p])
  BY DEF OwnCalls, OwnActors
<1>2. CASE p \in Sessions
  BY <1>1, <1>2 DEF OwnActor, OwnSession
<1>3. CASE p \notin Sessions
  BY <1>1, <1>3 DEF OwnActor, OwnProgram, Actors
<1>4. QED BY <1>2, <1>3

\* A session is the only one that takes its client's connection out of the
\* registry, or a topic of the clients out of it.
LEMMA EntryOfOne ==
    ASSUME Known, [Next]_vars, NEW q \in Sessions, NEW c \in Clients, act[q].id = c,
           wsConns[c] # None, ~CleanTake(q)
    PROVE  wsConns'[c] = wsConns[c]
<1>1. c \in Ids[q]
  BY Apart, WsAssumption DEF Known, OwnCalls, OwnActors, OwnActor, OwnSession
<1>2. ASSUME NEW p \in Sessions, CleanTake(p), act[p].client = c PROVE FALSE
  <2>1. act[p].id = c /\ c \in Ids[p]
    BY <1>2, CallOf, WsAssumption DEF Known, CleanTake, InCleanup
  <2>2. QED BY <1>1, <1>2, <2>1 DEF Known, IdsApart
<1>3. QED BY <1>2, EntryKept DEF Known

LEMMA MarkOfOne ==
    ASSUME Known, [Next]_vars, NEW q \in Sessions, NEW c \in Clients, act[q].id = c,
           NEW t \in Topics, NEW k \in Conns \ FreeConns, conn[k].client = c,
           t \in conn[k].topics, ~(UnsForget(q) /\ act[q].topic = t)
    PROVE  t \in conn'[k].topics
<1>1. c \in Ids[q]
  BY Apart, WsAssumption DEF Known, OwnCalls, OwnActors, OwnActor, OwnSession
<1>2. ASSUME NEW p \in Actors, UnsForget(p), act[p].obj = k, act[p].topic = t PROVE FALSE
  <2>1. act[p].pc = "uns.forget"
    BY <1>2 DEF UnsForget
  <2>2. p \in Sessions
    BY <1>2, <2>1, TopicOf, WsAssumption DEF Known, InUnsubscribe
  <2>3. act[p].client = c
    BY <1>2, <2>1 DEF Known, HeldConns, Holds
  <2>4. c \in Ids[p]
    BY <2>1, <2>2, <2>3, CallOf, WsAssumption DEF Known, InUnsubscribe
  <2>5. p = q
    BY <1>1, <2>2, <2>4 DEF Known, IdsApart
  <2>6. QED BY <1>2, <2>5
<1>3. QED BY <1>2, MarkStep DEF Known

\* The connection of a member is not free.
LEMMA EntryUsed ==
    ASSUME TypeInv, NEW t \in AllTopics, NEW c \in Clients, Subscribed(t, c)
    PROVE  Entry(t, c) \in Conns \ FreeConns /\ Entry(t, c) # None
BY DEF TypeInv, TopicsOK, Subscribed, Entry, FreeConns, FreeTopicDatas

LEMMA MarkedOn ==
    ASSUME Known, [Next]_vars, NEW q \in Sessions, NEW t \in Topics, NEW c \in Clients,
           SameEntry(t, c), act[q].id = c, Marked(q, t, c), Attached(act'[q]),
           ~CleanTake(q), ~(UnsForget(q) /\ act[q].topic = t)
    PROVE  Marked(q, t, c)'
<1>1. Subscribed(t, c) /\ Entry(t, c)' = Entry(t, c) /\ t \in AllTopics
  BY DEF SameEntry, AllTopics
<1>2. Entry(t, c) \in Conns \ FreeConns /\ Entry(t, c) # None /\ Entry(t, c) = wsConns[c]
  BY <1>1, EntryUsed DEF Known, Marked
<1>3. wsConns'[c] = wsConns[c]
  BY <1>2, EntryOfOne
<1>4. conn[Entry(t, c)].client = c
  BY <1>2 DEF Known, RegisteredIsUsable
<1>5. t \in conn'[Entry(t, c)].topics
  BY <1>2, <1>4, MarkOfOne DEF Marked
<1>6. QED BY <1>1, <1>2, <1>3, <1>5 DEF Marked

\* A session that does not move looks after whom it looked after.
LEMMA StillLooks ==
    ASSUME Known, [Next]_vars, NEW q \in Sessions, NEW t \in Topics, NEW c \in Clients,
           SameEntry(t, c), LooksAfter(q, t, c), act'[q] = act[q]
    PROVE  LooksAfter(q, t, c)'
<1>1. ~CleanTake(q)
  <2>1. CleanTake(q) => act[q].pc = "cl.take" /\ act'[q].pc = "cl.copy"
    BY TakesOwn DEF Known, CleanTake
  <2>2. QED BY <2>1
<1>2. ~UnsForget(q)
  <2>1. UnsForget(q) => act[q].pc = "uns.forget" /\ act'[q].pc = "uns.leave"
    BY GotoEffect, Apart DEF Known, UnsForget, TypeInv
  <2>2. QED BY <2>1
<1>3. /\ Subscribed(t, c) /\ Entry(t, c)' = Entry(t, c) /\ wsSubscribers'[t] = wsSubscribers[t]
      /\ t \in AllTopics /\ act'[q].id = c /\ act[q].id = c
  BY DEF SameEntry, AllTopics, LooksAfter
<1>4. Entry(t, c) \in Conns \ FreeConns /\ Entry(t, c) # None
  BY <1>3, EntryUsed DEF Known
<1>5. CASE Marked(q, t, c)
  <2>1. Attached(act'[q])
    BY <1>5, Zenon DEF Marked
  <2>2. Marked(q, t, c)'
    BY <1>1, <1>2, <1>3, <1>5, <2>1, MarkedOn
  <2>3. QED BY <1>3, <2>2 DEF LooksAfter
<1>6. CASE act[q].pc = "sub.mark" /\ act[q].topic = t /\ Entry(t, c) = wsConns[c]
  <2>1. wsConns'[c] = wsConns[c]
    BY <1>1, <1>3, <1>4, <1>6, EntryOfOne
  <2>2. QED BY <1>3, <1>6, <2>1 DEF LooksAfter
<1>7. CASE act[q].pc = "cl.copy" /\ act[q].obj = Entry(t, c) /\ t \in conn[Entry(t, c)].topics
  <2>1. conn[Entry(t, c)].client = c
    BY <1>3, <1>7, CallOf, Apart DEF Known, HeldConns, Holds, InCleanup
  <2>2. t \in conn'[Entry(t, c)].topics
    BY <1>2, <1>3, <1>4, <1>7, <2>1, MarkOfOne
  <2>3. QED BY <1>3, <1>7, <2>2 DEF LooksAfter
<1>8. QED BY <1>3, <1>5, <1>6, <1>7 DEF LooksAfter

\* A session that has its id keeps it, until its cleanup takes the connection.
LEMMA AttachedOn ==
    ASSUME ActorsOK, NEW p \in Sessions, Moves(p), ~CleanTake(p), Attached(act[p])
    PROVE  Attached(act'[p]) /\ act'[p].id = act[p].id
<1> DEFINE Goal == Attached(act'[p]) /\ act'[p].id = act[p].id
<1>1. p \in Actors
  BY Apart
<1>2. Done(p) => Goal
  BY <1>1, DoneEffect DEF Attached
<1>3. ASSUME NEW pc, Goto(p, pc), pc \notin {"cl.copy", "cl.topic", "cl.leave", "cl.drop", "over"},
             pc # "register"
      PROVE  Goal
  BY <1>1, <1>3, GotoEffect DEF Attached, SameLocals, SameCall, SameOwner
<1>4. ASSUME SameOwner(p), act'[p].pc # "register",
             act'[p].pc \notin {"cl.copy", "cl.topic", "cl.leave", "cl.drop", "over"}
      PROVE  Goal
  BY <1>4 DEF Attached, SameOwner
<1>5. ASSUME NEW c \in Clients, Ping(p, c) PROVE Goal
  BY <1>1, <1>5, PingEffect, WsAssumption DEF Attached
<1>6. ASSUME NEW t, NEW pc \in {"sub.topic", "uns.topic"}, Handle(p, pc, t) PROVE Goal
  BY <1>1, <1>4, <1>6, HandleEffect
<1>7. PingRegister(p) => Goal
  BY <1>1, PingRegisterEffect DEF Attached
<1>8. PingList(p) => Goal
  BY <1>2 DEF PingList
<1>9. Disconnect(p) => Goal
  BY <1>3 DEF Disconnect, Attached
<1>10. Leave(p) => Goal
  BY <1>1, <1>4, LeaveEffect
<1>11. ~(CleanCopy(p) \/ CleanTopic(p) \/ CleanLeave(p) \/ CleanDrop(p))
  BY DEF CleanCopy, CleanTopic, CleanLeave, CleanDrop, Attached
<1>12. SubTopic(p) => Goal
  BY <1>1, <1>4, SubTopicEffect DEF SameCall
<1>13. SubConn(p) => Goal
  BY <1>1, <1>2, <1>4, SubConnEffect DEF SameCall
<1>14. SubRegister(p) \/ SubJoin(p) \/ SubMark(p) => Goal
  BY <1>2, <1>3 DEF SubRegister, SubJoin, SubMark
<1>15. UnsTopic(p) => Goal
  BY <1>1, <1>2, <1>4, UnsTopicEffect DEF SameCall
<1>16. UnsConn(p) => Goal
  BY <1>1, <1>4, UnsConnEffect DEF SameCall
<1>17. UnsForget(p) \/ UnsLeave(p) \/ UnsDrop(p) => Goal
  BY <1>2, <1>3 DEF UnsForget, UnsLeave, LeaveTopic, UnsDrop
<1> HIDE DEF Goal
<1>18. Subscribing(p) => Goal
  BY <1>12, <1>13, <1>14, Zenon DEF Subscribing
<1>19. Unsubscribing(p) => Goal
  BY <1>15, <1>16, <1>17, Zenon DEF Unsubscribing
<1>20. Cleaning(p) => Goal
  BY <1>10, <1>11, Zenon DEF Cleaning
<1>21. ~(p \in {"remove"} \X Removals) /\ ~(p \in {"direct"} \X Directs)
  BY WsAssumption
<1>22. Goal
  BY <1>5, <1>6, <1>7, <1>8, <1>9, <1>18, <1>19, <1>20, <1>21, Zenon DEF Moves, Registering
<1>23. QED BY <1>22 DEF Goal

\* What a session does next from where it looks after a client.
LEMMA MovesFrom ==
    ASSUME NEW p \in Sessions, Moves(p)
    PROVE  /\ act[p].pc = "sub.mark" => SubMark(p)
           /\ act[p].pc = "uns.leave" => UnsLeave(p)
           /\ act[p].pc = "cl.copy" => CleanCopy(p)
           /\ act[p].pc = "cl.topic" => CleanTopic(p)
           /\ act[p].pc = "cl.leave" => CleanLeave(p)
           /\ act[p].pc = "cl.drop" => CleanDrop(p)
<1>1. ~(p \in {"remove"} \X Removals) /\ ~(p \in {"direct"} \X Directs)
  BY WsAssumption
<1>2. Subscribing(p) =>
        SubMark(p) \/ act[p].pc \in {"sub.topic", "sub.register", "sub.conn", "sub.join"}
  BY DEF Subscribing, SubTopic, SubRegister, SubConn, SubJoin
<1>3. Unsubscribing(p) =>
        UnsLeave(p) \/ act[p].pc \in {"uns.topic", "uns.conn", "uns.forget", "uns.drop"}
  BY DEF Unsubscribing, UnsTopic, UnsConn, UnsForget, UnsDrop
<1>4. Cleaning(p) =>
        \/ act[p].pc \in {"leave", "cl.take"}
        \/ CleanCopy(p) \/ CleanTopic(p) \/ CleanLeave(p) \/ CleanDrop(p)
  BY DEF Cleaning, Leave, CleanTake
<1>5. ASSUME \/ \E c \in Clients : Ping(p, c)
             \/ \E t \in Topics : Handle(p, "sub.topic", t) \/ Handle(p, "uns.topic", t)
             \/ Registering(p) \/ Disconnect(p)
      PROVE  act[p].pc \in {"read", "register", "list"}
  BY <1>5 DEF Ping, Handle, Registering, PingRegister, PingList, Disconnect
<1>6. /\ SubMark(p) => act[p].pc = "sub.mark"
      /\ UnsLeave(p) => act[p].pc = "uns.leave"
      /\ CleanCopy(p) => act[p].pc = "cl.copy"
      /\ CleanTopic(p) => act[p].pc = "cl.topic"
      /\ CleanLeave(p) => act[p].pc = "cl.leave"
      /\ CleanDrop(p) => act[p].pc = "cl.drop"
  BY DEF SubMark, UnsLeave, CleanCopy, CleanTopic, CleanLeave, CleanDrop
<1>7. \/ Subscribing(p) \/ Unsubscribing(p) \/ Cleaning(p)
      \/ act[p].pc \in {"read", "register", "list"}
  BY <1>1, <1>5, Zenon DEF Moves
<1>8. QED BY <1>2, <1>3, <1>4, <1>6, <1>7

\* A session that moves goes on looking after whom it looked after, if it is
\* still there.
LEMMA LooksOn ==
    ASSUME Known, RefCurrent, [Next]_vars, NEW q \in Sessions, NEW t \in Topics, NEW c \in Clients,
           SameEntry(t, c), LooksAfter(q, t, c), Moves(q)
    PROVE  LooksAfter(q, t, c)'
<1>1. ActorsOK /\ RegistryOK /\ TopicsOK /\ q \in Actors /\ LocalsSet(act[q])
  BY Apart DEF Known, TypeInv, ActorsOK
<1>2. /\ Subscribed(t, c) /\ Entry(t, c)' = Entry(t, c) /\ wsSubscribers'[t] = wsSubscribers[t]
      /\ t \in AllTopics /\ act[q].id = c
  BY DEF SameEntry, AllTopics, LooksAfter
<1>3. Entry(t, c) \in Conns \ FreeConns /\ Entry(t, c) # None
  BY <1>2, EntryUsed DEF Known
<1>4. CASE Marked(q, t, c)
  <2>1. conn[Entry(t, c)].client = c
    BY <1>3, <1>4 DEF Known, RegisteredIsUsable, Marked
  <2>2. CASE CleanTake(q)
    <3>1. /\ act'[q].pc = "cl.copy" /\ act'[q].id = c /\ act'[q].obj = wsConns[c]
      BY <1>2, <2>2, TakesOwn DEF Known, SameCall, SameOwner
    <3>2. ~UnsForget(q)
      BY <2>2 DEF CleanTake, UnsForget
    <3>3. t \in conn'[Entry(t, c)].topics
      BY <1>2, <1>3, <1>4, <2>1, <3>2, MarkOfOne DEF Marked
    <3>4. QED BY <1>2, <1>4, <3>1, <3>3 DEF LooksAfter, Marked
  <2>3. CASE UnsForget(q) /\ act[q].topic = t
    <3>1. /\ act[q].pc = "uns.forget" /\ act'[q].pc = "uns.leave" /\ act'[q].id = c
          /\ act'[q].topic = t /\ act'[q].ref = act[q].ref
      BY <1>1, <1>2, <2>3, GotoEffect DEF UnsForget, SameLocals, SameCall, SameOwner
    <3>2. act[q].client = c
      BY <1>2, <3>1, CallOf DEF Known, InUnsubscribe
    <3>3. act[q].ref = wsSubscribers[t]
      BY <1>2, <2>3, <3>1, <3>2 DEF RefCurrent
    <3>4. QED BY <1>2, <3>1, <3>3 DEF LooksAfter
  <2>4. CASE ~CleanTake(q) /\ ~(UnsForget(q) /\ act[q].topic = t)
    <3>1. Attached(act'[q]) /\ act'[q].id = c
      BY <1>1, <1>2, <1>4, <2>4, AttachedOn DEF Marked
    <3>2. Marked(q, t, c)'
      BY <1>2, <1>4, <2>4, <3>1, MarkedOn
    <3>3. QED BY <3>1, <3>2 DEF LooksAfter
  <2>5. QED BY <2>2, <2>3, <2>4
<1>5. CASE act[q].pc = "sub.mark" /\ act[q].topic = t /\ Entry(t, c) = wsConns[c]
  <2>1. SubMark(q)
    BY <1>5, MovesFrom
  <2>2. act[q].client = c /\ act[q].obj = wsConns[c]
    BY <1>2, <1>5, CallOf DEF Known, HeldConns, Holds, InSubscribe
  <2>3. /\ conn' = [conn EXCEPT ![act[q].obj].topics = @ \cup {act[q].topic}]
        /\ wsConns' = wsConns
    BY <2>1 DEF SubMark
  <2>4. t \in conn'[Entry(t, c)].topics
    BY <1>1, <1>3, <1>5, <2>2, <2>3 DEF RegistryOK, Connection
  <2>5. Attached(act[q]) /\ ~CleanTake(q)
    BY <1>2, <1>5, WsAssumption DEF Attached, CleanTake
  <2>6. Attached(act'[q]) /\ act'[q].id = c
    BY <1>1, <1>2, <2>5, AttachedOn
  <2>7. Marked(q, t, c)'
    BY <1>2, <1>5, <2>3, <2>4, <2>6 DEF Marked
  <2>8. QED BY <2>6, <2>7 DEF LooksAfter
<1>6. CASE /\ act[q].pc \in {"uns.leave", "cl.leave"}
           /\ act[q].topic = t /\ act[q].ref = wsSubscribers[t]
  <2>1. members' = [members EXCEPT ![act[q].ref][act[q].client] = None]
    BY <1>6, MovesFrom DEF UnsLeave, CleanLeave, LeaveTopic
  <2>2. act[q].client = c
    BY <1>2, <1>6, CallOf DEF Known, InUnsubscribe, InCleanup
  <2>3. Entry(t, c)' = None
    BY <1>1, <1>2, <1>6, <2>1, <2>2 DEF Entry, TopicsOK, Subscribed
  <2>4. QED BY <1>2, <1>3, <2>3
<1>7. CASE act[q].pc = "cl.copy" /\ act[q].obj = Entry(t, c) /\ t \in conn[Entry(t, c)].topics
  <2>1. CleanCopy(q)
    BY <1>7, MovesFrom
  <2>2. act'[q].pc = "cl.topic" /\ act'[q].id = c /\ t \in act'[q].todo
    BY <1>1, <1>2, <1>7, <2>1, CleanCopyEffect DEF SameCall, SameOwner
  <2>3. QED BY <2>2 DEF LooksAfter
<1>8. CASE act[q].pc \in {"cl.topic", "cl.leave", "cl.drop"} /\ t \in act[q].todo
  <2>1. CASE act[q].pc = "cl.topic"
    <3>1. CleanTopic(q)
      BY <2>1, MovesFrom
    <3>2. PICK u \in act[q].todo :
            /\ SameOwner(q) /\ act'[q].topic = u /\ act'[q].ref = wsSubscribers[u]
            /\ act'[q].todo = act[q].todo \ {u}
            /\ \/ wsSubscribers[u] = None /\ act'[q].pc = "cl.topic"
               \/ wsSubscribers[u] # None /\ act'[q].pc = "cl.leave"
      BY <1>1, <1>8, <3>1, CleanTopicEffect
    <3>3. act'[q].id = c
      BY <1>2, <3>2 DEF SameOwner
    <3>4. CASE u = t
      BY <1>2, <3>2, <3>3, <3>4 DEF LooksAfter, Subscribed
    <3>5. CASE u # t
      BY <1>8, <3>2, <3>3, <3>5 DEF LooksAfter
    <3>6. QED BY <3>4, <3>5
  <2>2. CASE act[q].pc \in {"cl.leave", "cl.drop"}
    <3>1. Goto(q, "cl.drop") \/ Goto(q, "cl.topic")
      BY <2>2, MovesFrom DEF CleanLeave, LeaveTopic, CleanDrop
    <3>2. act'[q].pc \in {"cl.drop", "cl.topic"} /\ act'[q].id = c /\ act'[q].todo = act[q].todo
      BY <1>1, <1>2, <3>1, GotoEffect DEF SameLocals, SameCall, SameOwner
    <3>3. QED BY <1>8, <3>2 DEF LooksAfter
  <2>3. QED BY <1>8, <2>1, <2>2
<1>9. QED BY <1>4, <1>5, <1>6, <1>7, <1>8 DEF LooksAfter

\* Who joins a topic of the clients is a session, for the id it has; a private
\* topic is joined by the call it belongs to.
LEMMA WhoJoins ==
    ASSUME Known, NEW p \in Actors, SubJoin(p), NEW t \in AllTopics, act[p].ref = wsSubscribers[t]
    PROVE  /\ act[p].pc = "sub.join" /\ act[p].topic = t
           /\ t \in Topics => p \in Sessions /\ act[p].id = act[p].client
           /\ t \in Directs => p = <<"direct", t>>
<1>1. act[p].pc = "sub.join"
  BY DEF SubJoin
<1>2. act[p].topic = t
  BY <1>1 DEF Known, LinksOK, UsesRef
<1>3. QED BY <1>1, <1>2, TopicOf, CallOf, WsAssumption DEF Known, InSubscribe

LEMMA MembersStep ==
    ASSUME Known, RefCurrent, MembersMinded, [Next]_vars
    PROVE  MembersMinded'
<1>1. ASSUME NEW t \in Topics, NEW c \in Clients, Subscribed(t, c)'
      PROVE  \E p \in Sessions : LooksAfter(p, t, c)'
  <2>1. t \in AllTopics /\ TypeInv /\ ActorsOK /\ TopicsOK
    BY DEF AllTopics, Known, TypeInv
  <2>2. CASE SameEntry(t, c)
    <3>1. PICK q \in Sessions : LooksAfter(q, t, c)
      BY <2>2 DEF SameEntry, MembersMinded
    <3>2. act'[q] # act[q] => Moves(q)
      BY MovedOne, Apart DEF Known
    <3>3. LooksAfter(q, t, c)'
      BY <2>2, <3>1, <3>2, StillLooks, LooksOn
    <3>4. QED BY <3>3
  <2>3. ASSUME NEW p \in Actors, SubJoin(p), act[p].ref = wsSubscribers[t], act[p].client = c
        PROVE  \E q \in Sessions : LooksAfter(q, t, c)'
    <3>1. p \in Sessions /\ act[p].pc = "sub.join" /\ act[p].topic = t /\ act[p].id = c
      BY <2>1, <2>3, WhoJoins
    <3>2. act[p].obj = wsConns[c]
      BY <2>3, <3>1 DEF Known, HeldConns, Holds
    <3>3. /\ UNCHANGED <<wsConns, wsSubscribers>>
          /\ members' = [members EXCEPT ![act[p].ref][act[p].client] = act[p].obj]
          /\ act'[p].pc = "sub.mark" /\ act'[p].topic = t /\ act'[p].id = c
      BY <2>1, <2>3, <3>1, GotoEffect DEF SubJoin, SameLocals, SameCall, SameOwner
    <3>4. Entry(t, c)' = wsConns'[c]
      BY <1>1, <2>1, <2>3, <3>2, <3>3 DEF Entry, TopicsOK, Subscribed
    <3>5. LooksAfter(p, t, c)'
      BY <3>3, <3>4 DEF LooksAfter
    <3>6. QED BY <3>1, <3>5
  <2>4. QED BY <1>1, <2>1, <2>2, <2>3, EntryStep, Zenon
<1>2. QED BY <1>1, Zenon DEF MembersMinded

LEMMA RefCurrentStep ==
    ASSUME Known, RefCurrent, [Next]_vars
    PROVE  RefCurrent'
<1>1. ASSUME NEW p \in Sessions, act'[p].pc \in {"uns.conn", "uns.forget", "uns.leave"},
             NEW t, NEW c, t = act'[p].topic, c = act'[p].client, Subscribed(t, c)'
      PROVE  act'[p].ref = wsSubscribers'[t]
  <2>1. ActorsOK /\ p \in Actors
    BY Apart DEF Known, TypeInv
  <2>2. CASE act'[p] = act[p]
    <3>1. /\ act[p].topic = t /\ act[p].client = c /\ act[p].ref = act'[p].ref
          /\ act[p].pc \in {"uns.conn", "uns.forget", "uns.leave"}
      BY <1>1, <2>2
    <3>2. t \in Topics /\ t \in AllTopics /\ c \in Clients
      BY <2>1, <3>1, TopicOf DEF Known, InUnsubscribe, ActorsOK, LocalsSet, AllTopics
    <3>3. CASE SameEntry(t, c)
      BY <3>1, <3>3 DEF SameEntry, RefCurrent
    <3>4. ASSUME NEW q \in Actors, SubJoin(q), act[q].ref = wsSubscribers[t], act[q].client = c
          PROVE  FALSE
      <4>1. q \in Sessions /\ act[q].pc = "sub.join" /\ act[q].id = c
        BY <3>2, <3>4, WhoJoins
      <4>2. c \in Ids[q] /\ c \in Ids[p]
        BY <3>1, <3>2, <3>4, <4>1, CallOf, WsAssumption DEF Known, InSubscribe, InUnsubscribe
      <4>3. q = p
        BY <4>1, <4>2 DEF Known, IdsApart
      <4>4. QED BY <3>1, <4>1, <4>3
    <3>5. QED BY <1>1, <3>2, <3>3, <3>4, EntryStep DEF Known
  <2>3. CASE act'[p] # act[p]
    <3>1. UnsTopic(p) \/ UnsConn(p) \/ UnsForget(p)
      BY <1>1, <2>1, <2>3, MovedOne, Arrives DEF Known
    <3>2. UNCHANGED <<wsSubscribers, members>>
      BY <3>1 DEF UnsTopic, UnsConn, UnsForget
    <3>3. CASE UnsTopic(p)
      BY <1>1, <2>1, <3>2, <3>3, UnsTopicEffect, DoneEffect DEF SameCall
    <3>4. CASE UnsConn(p) \/ UnsForget(p)
      <4>1. /\ act[p].pc \in {"uns.conn", "uns.forget"}
            /\ act[p].topic = t /\ act[p].client = c /\ act'[p].ref = act[p].ref
        BY <1>1, <2>1, <3>4, UnsConnEffect, GotoEffect DEF UnsForget, SameLocals, SameCall
      <4>2. Subscribed(t, c)
        BY <1>1, <3>2 DEF Subscribed
      <4>3. QED BY <3>2, <4>1, <4>2 DEF RefCurrent
    <3>5. QED BY <3>1, <3>3, <3>4
  <2>4. QED BY <2>2, <2>3
<1>2. QED BY <1>1 DEF RefCurrent

\* The topic of a PublishToIDWithAck has the client of that call for a member
\* at most, and is gone when the call is over.
PrivateOf(d, r) ==
    wsSubscribers[d] # None =>
        /\ r.pc \notin {"wait", "sub.topic", "over"}
        /\ \A c \in Clients : Subscribed(d, c) => c = r.client
        /\ r.pc \in {"uns.conn", "uns.forget", "uns.leave"} => r.ref = wsSubscribers[d]
        /\ r.pc = "uns.drop" => \A c \in Clients : ~Subscribed(d, c)
PrivateOK == \A d \in Directs : PrivateOf(d, act[<<"direct", d>>])

LEMMA PrivateStep ==
    ASSUME Known, PrivateOK, [Next]_vars
    PROVE  PrivateOK'
<1>1. TypeInv /\ ActorsOK /\ TopicsOK
  BY DEF Known, TypeInv
<1>2. ASSUME NEW d \in Directs, NEW p, p = <<"direct", d>>, wsSubscribers'[d] # None
      PROVE  PrivateOf(d, act[p])'
  <2>1. p \in Actors /\ p \notin Sessions /\ d \in AllTopics /\ d \notin Topics /\ p[1] = "direct"
    BY <1>2, Apart, WsAssumption DEF AllTopics
  <2>2. PrivateOf(d, act[p])
    BY <1>2 DEF PrivateOK
  <2>3. ASSUME NEW c \in Clients, Subscribed(d, c)', ~(SubJoin(p) /\ act[p].client = c)
        PROVE  SameEntry(d, c)
    BY <1>1, <1>2, <2>1, <2>3, EntryStep, WhoJoins
  <2>4. ASSUME ~SubTopic(p) PROVE wsSubscribers'[d] = wsSubscribers[d]
    <3>1. ASSUME NEW q \in Actors, SubTopic(q) PROVE wsSubscribers'[d] = wsSubscribers[d]
      <4>1. act[q].pc = "sub.topic" /\ act[q].topic \in AllTopics
        BY <1>1, <3>1, SubTopicEffect DEF ActorsOK, LocalsSet, InSubscribe
      <4>2. act[q].topic # d
        BY <1>2, <2>1, <2>4, <3>1, <4>1, TopicOf DEF Known, InSubscribe
      <4>3. QED BY <1>1, <2>1, <3>1, <4>1, <4>2, SubTopicEffect DEF TopicsOK
    <3>2. QED BY <1>1, <1>2, <2>1, <3>1, ShrinksStep DEF Shrinks
  <2>5. CASE act'[p] = act[p]
    <3>1. ~SubTopic(p) /\ ~SubJoin(p)
      <4>1. SubTopic(p) => act[p].pc = "sub.topic" /\ act'[p].pc = "sub.register"
        BY <1>1, <2>1, SubTopicEffect
      <4>2. SubJoin(p) => act[p].pc = "sub.join" /\ act'[p].pc = "sub.mark"
        BY <1>1, <2>1, GotoEffect DEF SubJoin
      <4>3. QED BY <2>5, <4>1, <4>2
    <3>2. wsSubscribers'[d] = wsSubscribers[d]
      BY <2>4, <3>1
    <3>3. \A c \in Clients : Subscribed(d, c)' => Subscribed(d, c)
      BY <2>3, <3>1 DEF SameEntry
    <3>4. QED BY <1>2, <2>2, <2>5, <3>2, <3>3 DEF PrivateOf
  <2>6. CASE SubTopic(p)
    <3>1. act[p].pc = "sub.topic" /\ act[p].topic = d
      BY <1>2, <2>1, <2>6, TopicOf DEF SubTopic, Known, InSubscribe
    <3>2. wsSubscribers[d] = None
      BY <2>2, <3>1 DEF PrivateOf
    <3>3. PICK j \in WsTopicDatas :
             /\ wsSubscribers' = [wsSubscribers EXCEPT ![d] = j]
             /\ members' = [members EXCEPT ![j] = [c \in Clients |-> None]]
      BY <1>1, <2>1, <2>6, <3>1, <3>2, SubTopicEffect, WsAssumption
    <3>4. \A c \in Clients : ~Subscribed(d, c)'
      BY <1>1, <2>1, <3>3 DEF Subscribed, TopicsOK
    <3>5. act'[p].pc = "sub.register"
      BY <1>1, <2>1, <2>6, SubTopicEffect
    <3>6. QED BY <3>4, <3>5 DEF PrivateOf
  <2>7. CASE SubRegister(p) \/ SubConn(p) \/ SubMark(p)
    <3>1. /\ UNCHANGED <<wsSubscribers, members>>
          /\ act'[p].pc \in {"sub.conn", "sub.join", "uns.topic"}
          /\ act'[p].client = act[p].client
      BY <1>1, <2>1, <2>7, SubConnEffect, DoneEffect, GotoEffect
      DEF SubRegister, SubConn, SubMark, SameLocals, SameCall
    <3>2. QED BY <1>2, <2>2, <3>1 DEF PrivateOf, Subscribed
  <2>8. CASE SubJoin(p)
    <3>1. /\ UNCHANGED wsSubscribers /\ act'[p].pc = "sub.mark" /\ act'[p].client = act[p].client
      BY <1>1, <2>1, <2>8, GotoEffect DEF SubJoin, SameLocals, SameCall
    <3>2. \A c \in Clients : Subscribed(d, c)' => c = act'[p].client
      BY <1>2, <2>2, <2>3, <3>1 DEF PrivateOf, SameEntry
    <3>3. QED BY <3>1, <3>2 DEF PrivateOf
  <2>9. CASE UnsTopic(p)
    <3>1. UNCHANGED <<wsSubscribers, members>> /\ act[p].topic = d
      BY <1>2, <2>1, <2>9, TopicOf DEF UnsTopic, Known, InUnsubscribe
    <3>2. /\ act'[p].pc = "uns.conn" /\ act'[p].client = act[p].client
          /\ act'[p].ref = wsSubscribers[d]
      BY <1>1, <1>2, <2>1, <2>9, <3>1, UnsTopicEffect DEF SameCall
    <3>3. QED BY <1>2, <2>2, <3>1, <3>2 DEF PrivateOf, Subscribed
  <2>10. CASE UnsConn(p) \/ UnsForget(p)
    <3>1. /\ UNCHANGED <<wsSubscribers, members>> /\ act[p].pc \in {"uns.conn", "uns.forget"}
          /\ act'[p].pc \in {"uns.forget", "uns.leave"}
          /\ act'[p].client = act[p].client /\ act'[p].ref = act[p].ref
      BY <1>1, <2>1, <2>10, UnsConnEffect, GotoEffect
      DEF UnsConn, UnsForget, SameLocals, SameCall
    <3>2. QED BY <1>2, <2>2, <3>1 DEF PrivateOf, Subscribed
  <2>11. CASE UnsLeave(p)
    <3>1. /\ UNCHANGED wsSubscribers /\ act[p].pc = "uns.leave"
          /\ members' = [members EXCEPT ![act[p].ref][act[p].client] = None]
      BY <2>11 DEF UnsLeave, LeaveTopic
    <3>2. act[p].ref = wsSubscribers[d] /\ wsSubscribers[d] # None
      BY <1>2, <2>2, <3>1 DEF PrivateOf
    <3>3. Members(act[p].ref) \subseteq {act[p].client}
      BY <2>2, <3>2 DEF PrivateOf, Subscribed, Members
    <3>4. act'[p].pc = "uns.drop"
      BY <1>1, <2>1, <2>11, <3>3, GotoEffect DEF UnsLeave, LeaveTopic
    <3>5. act[p].client \in Clients /\ wsSubscribers[d] \in WsTopicDatas
      BY <1>1, <2>1, <3>1, <3>2 DEF ActorsOK, LocalsSet, InUnsubscribe, TopicsOK
    <3>6. ASSUME NEW c \in Clients PROVE ~Subscribed(d, c)'
      BY <1>1, <2>2, <3>1, <3>2, <3>5 DEF PrivateOf, Subscribed, TopicsOK
    <3>7. QED BY <3>4, <3>6 DEF PrivateOf
  <2>12. CASE UnsDrop(p)
    <3>1. act[p].pc = "uns.drop" /\ act[p].topic = d /\ DropIfEmpty(d)
      BY <1>2, <2>1, <2>12, TopicOf DEF UnsDrop, Known, InUnsubscribe
    <3>2. wsSubscribers[d] # None
      BY <1>2, <2>4, <3>1 DEF SubTopic
    <3>3. Members(wsSubscribers[d]) = {}
      BY <2>2, <3>1, <3>2 DEF PrivateOf, Subscribed, Members
    <3>4. QED BY <1>1, <1>2, <2>1, <3>1, <3>3, DropShrinks
  <2>13. ASSUME NEW c \in Clients, Direct(p, c) PROVE FALSE
    <3>1. act[p].pc = "wait" /\ UNCHANGED wsSubscribers
      BY <2>13 DEF Direct
    <3>2. QED BY <1>2, <2>2, <3>1 DEF PrivateOf
  <2>14. CASE Moves(p)
    <3>1. p \notin {"remove"} \X Removals
      BY <1>2
    <3>2. \/ Subscribing(p) \/ Unsubscribing(p)
          \/ \E c \in Clients : Direct(p, c)
      BY <2>1, <2>14, <3>1, Zenon DEF Moves
    <3>3. QED
      BY <2>6, <2>7, <2>8, <2>9, <2>10, <2>11, <2>12, <2>13, <3>2, Zenon
      DEF Subscribing, Unsubscribing
  <2>15. QED BY <1>1, <2>1, <2>5, <2>14, MovedOne DEF Known
<1>3. ASSUME NEW d \in Directs PROVE PrivateOf(d, act[<<"direct", d>>])'
  BY <1>2 DEF PrivateOf
<1>4. QED BY <1>3, Zenon DEF PrivateOK

\* When nobody is in the middle of a call, the subscribers of a topic are the
\* registered connections of their clients: cleanupWebSocketClient finds in the
\* topics of the connection all that subscribeWebSocket joined, though the two
\* take four locks one after the other, whatever PublishToIDWithAck does to the
\* same client meanwhile.  No two sessions claim one id, and the program does
\* not call Unsubscribe(topic).
THEOREM GhostsGo == ASSUME IdsApart, Removals = {} PROVE Spec => []NoGhostSubscribers
<1> DEFINE Ghosts == HeldConns /\ RefCurrent /\ MembersMinded /\ PrivateOK
           Base == TypeInv /\ RegisteredIsUsable /\ OwnCalls
<1>1. Init => HeldIds /\ LinksOK /\ Ghosts
  <2> SUFFICES ASSUME Init PROVE HeldIds /\ LinksOK /\ Ghosts
    OBVIOUS
  <2>1. \A p \in Actors : act[p] = IF p \in Sessions THEN At("read", None) ELSE At("wait", None)
    BY DEF Init
  <2>2. \A p \in Actors : act[p].pc \in {"read", "wait"} /\ act[p].id = None
    BY <2>1, AtFields
  <2>3. \A t \in AllTopics : wsSubscribers[t] = None
    BY DEF Init
  <2>4. HeldIds /\ LinksOK
    BY <2>2, <2>3, Apart DEF HeldIds, Attached, LinksOK, UsesRef
  <2>5. HeldConns /\ RefCurrent
    BY <2>2, Apart DEF HeldConns, Holds, RefCurrent
  <2>6. MembersMinded /\ PrivateOK
    BY <2>3 DEF MembersMinded, PrivateOK, PrivateOf, Subscribed, AllTopics
  <2>7. QED BY <2>4, <2>5, <2>6
<1>2. Base /\ HeldIds /\ LinksOK /\ Ghosts /\ [Next]_vars => HeldIds' /\ LinksOK' /\ Ghosts'
  <2> SUFFICES ASSUME Base, HeldIds, LinksOK, Ghosts, [Next]_vars
               PROVE  HeldIds' /\ LinksOK' /\ Ghosts'
    OBVIOUS
  <2>1. Known
    BY DEF Known
  <2>2. QED
    BY <2>1, HeldIdsStep, LinksStep, HeldConnsStep, RefCurrentStep, MembersStep, PrivateStep, Zenon
<1>3. Base /\ Ghosts => NoGhostSubscribers
  <2> SUFFICES ASSUME Base, Ghosts, Quiet, NEW t \in AllTopics, NEW c \in Clients, Subscribed(t, c)
               PROVE  Entry(t, c) = wsConns[c]
    BY DEF NoGhostSubscribers, Subscribed, Entry
  <2>1. CASE t \in Topics
    <3>1. PICK p \in Sessions : LooksAfter(p, t, c)
      BY <2>1 DEF MembersMinded
    <3>2. act[p].pc \in {"read", "over", "wait"}
      BY Apart DEF Quiet
    <3>3. QED BY <3>1, <3>2 DEF LooksAfter, Marked
  <2>2. CASE t \in Directs
    <3> DEFINE p == <<"direct", t>>
    <3>1. p \in Actors /\ p \notin Sessions
      BY <2>2, Apart
    <3>2. act[p].pc \notin {"wait", "over", "read"}
      BY <2>2, <3>1
      DEF PrivateOK, PrivateOf, Subscribed, OwnCalls, OwnActors, OwnActor, OwnProgram,
          InSubscribe, InUnsubscribe
    <3>3. QED BY <3>1, <3>2 DEF Quiet
  <2>3. QED BY <2>1, <2>2 DEF AllTopics
<1>4. QED BY <1>1, <1>2, <1>3, UsableInvariant, OwnInvariant, PTL DEF Spec
=============================================================================
