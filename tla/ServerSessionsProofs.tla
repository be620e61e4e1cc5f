------------------------ MODULE ServerSessionsProofs ------------------------
(***************************************************************************)
(* Proofs about ServerSessions, for any number of clients, any programs    *)
(* and any capacity of the buffers.                                        *)
(***************************************************************************)
EXTENDS ServerSessions, TLAPS

\* A message of the set is in the sequence; no two are.
Has(q, S) == \E i \in DOMAIN q : q[i] \in S
AtMostOne(q, S) == \A i, j \in DOMAIN q : q[i] \in S /\ q[j] \in S => i = j

\* What calls for the acknowledgment n of client c, and what asks for answers to
\* request k.
CallOf(c, n) == {m \in Message : m.action \in Acked /\ m.ack = Id(c, n)}
AskFor(k) == {m \in Message : m.action = "publish_ack" /\ m.ack = Id(Server, k)}

-----------------------------------------------------------------------------
(* Where a call is, and where a question. *)

ToSend(c, n) == app[c].at = "send" /\ app[c].msg \in CallOf(c, n)
Made(c, n) == \E k \in DOMAIN requests : requests[k].for = Id(c, n)

CallIsInOnePlace(c, n) ==
    LET calls == CallOf(c, n) IN
    /\ AtMostOne(node[c].queue, calls) /\ AtMostOne(up[c], calls)
    /\ \A j, k \in DOMAIN requests : requests[j].for = Id(c, n) /\ requests[k].for = Id(c, n) => j = k
    /\ ToSend(c, n) => ~Has(node[c].queue, calls) /\ ~Has(up[c], calls) /\ ~Made(c, n)
    /\ Has(node[c].queue, calls) => ~Has(up[c], calls) /\ ~Made(c, n)
    /\ Has(up[c], calls) => ~Made(c, n)

Tasked(d, k) == \E x \in tasks : x.to = d /\ x.msg \in AskFor(k)
Running(d, k) == [client |-> d, ack |-> Id(Server, k), at |-> "callback", ok |-> FALSE] \in answering
Succeeded(d, k) == [client |-> d, ack |-> Id(Server, k), ok |-> TRUE] \in ran

QuestionIsInOnePlace(d, k) ==
    LET asks == AskFor(k) IN
    /\ \A x, y \in tasks : x.to = d /\ y.to = d /\ x.msg \in asks /\ y.msg \in asks => x = y
    /\ AtMostOne(ring[d], asks) /\ AtMostOne(down[d], asks)
    /\ Tasked(d, k) => ~Has(ring[d], asks) /\ ~Has(down[d], asks) /\ ~Running(d, k)
                       /\ ~Succeeded(d, k)
    /\ Has(ring[d], asks) => ~Has(down[d], asks) /\ ~Running(d, k) /\ ~Succeeded(d, k)
    /\ Has(down[d], asks) => ~Running(d, k) /\ ~Succeeded(d, k)
    /\ Running(d, k) => ~Succeeded(d, k)

\* No callback of d for request k has succeeded, nor will one.
Lost(d, k) ==
    /\ ~Tasked(d, k) /\ ~Has(ring[d], AskFor(k)) /\ ~Has(down[d], AskFor(k))
    /\ ~Running(d, k) /\ ~Succeeded(d, k)

-----------------------------------------------------------------------------
(* Answers, and the messages that carry them. *)

Requested == {Id(Server, k) : k \in DOMAIN requests}
Own(c) == {Id(c, n) : n \in DOMAIN acks[c]}

Told(r, k) == IF r.ok THEN Succeeded(r.client, k) ELSE r.client \in Clients /\ Lost(r.client, k)

\* An answer to the request that the bus calls id, or that a client calls id.
AnswerTo(id, r) == \A k \in DOMAIN requests : id = Id(Server, k) => Told(r, k)
AnswerFor(id, r) == \E k \in DOMAIN requests : requests[k].for = id /\ Told(r, k)

UpActions == Sent \cup {"ping", "ack", "get_ack_status", "cancel_ack"}
DownActions == {"publish", "direct_message", "pong", "publish_ack", "ack_response", "ack_status",
                "reply"}

\* What client c may have sent, and what may be sent to it.
UpMessage(c, m) ==
    /\ m \in Message /\ m.action \in UpActions
    /\ m.action \in {"subscribe", "unsubscribe", "publish", "publish_with_ack"} => m.about \in Topics
    /\ m.action \in Acked => m.ack \in Own(c)
    /\ m.action = "ack" => /\ m.ack \in Requested
                           /\ \A r \in m.answers : r.client = c /\ AnswerTo(m.ack, r)

DownMessage(c, m) ==
    /\ m \in Message /\ m.action \in DownActions
    /\ m.action = "publish" => m.about \in Topics
    /\ m.action = "publish_ack" => m.ack \in Requested
    /\ m.action = "ack_response" => m.ack \in Own(c) /\ \A r \in m.answers : AnswerFor(m.ack, r)

UpTraffic ==
    \A c \in Clients :
        /\ \A i \in DOMAIN node[c].queue : UpMessage(c, node[c].queue[i])
        /\ \A i \in DOMAIN up[c] : UpMessage(c, up[c][i])
        /\ app[c].at = "send" => UpMessage(c, app[c].msg) /\ app[c].msg.action # "ack"
        /\ handler[c].at = "send" => UpMessage(c, handler[c].msg)
                                     /\ handler[c].msg.action \in {"publish", "ack"}

DownTraffic ==
    /\ \A c \in Clients :
          /\ \A i \in DOMAIN ring[c] : DownMessage(c, ring[c][i])
          /\ \A i \in DOMAIN down[c] : DownMessage(c, down[c][i])
          /\ session[c].at = "push" /\ session[c].to # {} =>
                session[c].msg.action \in {"publish", "direct_message"} /\ DownMessage(c, session[c].msg)
          /\ session[c].reply # None => session[c].reply.action \in {"reply", "pong", "ack_status"}
    /\ \A x \in tasks : DownMessage(x.to, x.msg) /\ x.msg.action \in {"publish_ack", "ack_response"}

Answers ==
    /\ \A x \in answering : /\ x.ack \in Requested
                            /\ x.at = "callback" => ~x.ok
                            /\ x.at = "send" => AnswerTo(x.ack, [client |-> x.client, ok |-> x.ok])
    /\ \A e \in ran : e.ack \in Requested
    /\ \A k \in DOMAIN requests : /\ requests[k].for \in Own(requests[k].for.by)
                                  /\ requests[k].for.by \in Clients
                                  /\ \A r \in requests[k].received : Told(r, k)
    /\ \A c \in Clients : \A n \in DOMAIN acks[c] :
       \A r \in acks[c][n].responses \cup acks[c][n].result : AnswerFor(Id(c, n), r)

CallsInOnePlace == \A c \in Clients : \A n \in DOMAIN acks[c] : CallIsInOnePlace(c, n)
QuestionsInOnePlace == \A d \in Clients : \A k \in DOMAIN requests : QuestionIsInOnePlace(d, k)

\* A call that has begun is one of the program.
CallsAreOfTheProgram ==
    \A c \in Clients : app[c].at # "idle" => app[c].pc <= Len(program.calls[c])

IInv ==
    /\ TypeOK /\ CallsAreOfTheProgram
    /\ UpTraffic /\ DownTraffic /\ Answers
    /\ CallsInOnePlace /\ QuestionsInOnePlace

ClientAck == [client : BOOLEAN, listed : BOOLEAN, cancelled : BOOLEAN, responses : SUBSET Answer,
              status : SUBSET Answer, result : SUBSET Answer]

Request == [for : AckId, to : SUBSET (Clients \cup {Server}), listed : BOOLEAN, waiting : BOOLEAN,
            received : SUBSET Answer]

-----------------------------------------------------------------------------
(* Sequences of messages *)

\* A message is appended to a sequence.
LEMMA Appended ==
    ASSUME NEW T, NEW q \in Seq(T), NEW m \in T, NEW S
    PROVE  /\ Append(q, m) \in Seq(T)
           /\ \A i \in DOMAIN Append(q, m) :
                 Append(q, m)[i] = m \/ (i \in DOMAIN q /\ Append(q, m)[i] = q[i])
           /\ Has(Append(q, m), S) <=> Has(q, S) \/ m \in S
           /\ AtMostOne(q, S) /\ (m \in S => ~Has(q, S)) => AtMostOne(Append(q, m), S)
<1>1. /\ Append(q, m) \in Seq(T) /\ DOMAIN Append(q, m) = 1..Len(q) + 1
      /\ DOMAIN q = 1..Len(q) /\ Len(q) \in Nat
      /\ Append(q, m)[Len(q) + 1] = m
      /\ \A i \in DOMAIN q : Append(q, m)[i] = q[i]
  OBVIOUS
<1>2. \A i \in DOMAIN Append(q, m) :
         (Append(q, m)[i] = m /\ i = Len(q) + 1) \/ (i \in DOMAIN q /\ Append(q, m)[i] = q[i])
  BY <1>1
<1>3. Has(Append(q, m), S) <=> Has(q, S) \/ m \in S
  BY <1>1, <1>2 DEF Has
<1>4. AtMostOne(q, S) /\ (m \in S => ~Has(q, S)) => AtMostOne(Append(q, m), S)
  BY <1>1, <1>2 DEF Has, AtMostOne
<1>5. QED BY <1>1, <1>2, <1>3, <1>4

\* The head of a sequence is taken off.
LEMMA TakenOff ==
    ASSUME NEW T, NEW q \in Seq(T), q # <<>>, NEW S
    PROVE  /\ Head(q) \in T /\ Tail(q) \in Seq(T)
           /\ \E j \in DOMAIN q : Head(q) = q[j]
           /\ \A i \in DOMAIN Tail(q) : \E j \in DOMAIN q : Tail(q)[i] = q[j]
           /\ Head(q) \in S => Has(q, S)
           /\ Has(Tail(q), S) => Has(q, S)
           /\ AtMostOne(q, S) => AtMostOne(Tail(q), S) /\ (Head(q) \in S => ~Has(Tail(q), S))
<1>1. /\ Head(q) = q[1] /\ 1 \in DOMAIN q /\ Head(q) \in T /\ Tail(q) \in Seq(T)
      /\ \A i \in DOMAIN Tail(q) : i \in Nat /\ i + 1 \in DOMAIN q /\ Tail(q)[i] = q[i + 1] /\ i + 1 # 1
  OBVIOUS
<1>2. Head(q) \in S => Has(q, S)
  BY <1>1 DEF Has
<1>3. Has(Tail(q), S) => Has(q, S)
  BY <1>1 DEF Has
<1>4. AtMostOne(q, S) => AtMostOne(Tail(q), S)
  <2>1. SUFFICES ASSUME AtMostOne(q, S), NEW i \in DOMAIN Tail(q), NEW j \in DOMAIN Tail(q),
                        Tail(q)[i] \in S, Tail(q)[j] \in S
                 PROVE  i = j
    BY DEF AtMostOne
  <2>2. i + 1 = j + 1
    BY <1>1, <2>1 DEF AtMostOne
  <2>3. QED BY <1>1, <2>2
<1>5. AtMostOne(q, S) /\ Head(q) \in S => ~Has(Tail(q), S)
  BY <1>1 DEF AtMostOne, Has
<1>6. QED BY <1>1, <1>2, <1>3, <1>4, <1>5

-----------------------------------------------------------------------------
(* Types *)

Node == [connected : BOOLEAN, done : BOOLEAN, sender : BOOLEAN, queue : Seq(Message)]
App == [at : {"idle", "send", "wait", "status", "cancel", "close"}, pc : Nat \ {0}, msg : Message]
Handler == [at : {"read", "send", "over"}, msg : Message]
Answering == [client : Clients, ack : AckId, at : {"callback", "send"}, ok : BOOLEAN]
Session == [at : {"read", "list", "push", "relay", "over"}, to : SUBSET Clients, msg : Message,
            reply : Message \cup {None}]

\* Of the clients, of the links and the writers, and of the server.
ClientTypes ==
    /\ node \in [Clients -> Node]
    /\ subs \in [Clients -> SUBSET Topics] /\ chats \in [Clients -> Nat]
    /\ acks \in [Clients -> Seq(ClientAck)]
    /\ app \in [Clients -> App] /\ handler \in [Clients -> Handler]
    /\ answering \subseteq Answering
    /\ ran \subseteq [client : Clients \cup {Server}, ack : AckId, ok : BOOLEAN]

LinkTypes ==
    /\ up \in [Clients -> Seq(Message)] /\ down \in [Clients -> Seq(Message)]
    /\ ring \in [Clients -> Seq(Message)]
    /\ closed \in [Clients -> SUBSET {"client", "server"}]

ServerTypes ==
    /\ session \in [Clients -> Session]
    /\ wsConns \subseteq Clients /\ connections \subseteq Clients
    /\ members \in [Topics -> SUBSET Clients]
    /\ requests \in Seq(Request)
    /\ tasks \subseteq [to : Clients, msg : Message]
    /\ stop \in [at : {"no", "conns", "bus", "over"}, todo : SUBSET Clients]

\* Types, in parts.
LEMMA TypeParts ==
    TypeOK <=> program \in Programs /\ ClientTypes /\ LinkTypes /\ ServerTypes /\ panicked \in BOOLEAN
BY DEF TypeOK, ClientTypes, LinkTypes, ServerTypes, Node, App, Handler, Answering, Session, ClientAck,
       Request

\* What is sent is a message.
LEMMA Messages ==
    /\ \A m \in Message : /\ m.action \in Actions
                          /\ m.about \in Topics \cup Clients \cup {Server, None}
                          /\ m.ack \in AckId \cup {None} /\ m.answers \in SUBSET Answer
    /\ \A action \in Actions, about \in Topics \cup Clients \cup {Server, None},
          ack \in AckId \cup {None}, answers \in SUBSET Answer :
          /\ Msg(action, about, ack, answers) \in Message
          /\ Msg(action, about, ack, answers).action = action
          /\ Msg(action, about, ack, answers).about = about
          /\ Msg(action, about, ack, answers).ack = ack
          /\ Msg(action, about, ack, answers).answers = answers
    /\ \A action \in Actions, about \in Topics \cup Clients \cup {Server, None} :
          /\ Plain(action, about) \in Message
          /\ Plain(action, about).action = action /\ Plain(action, about).about = about
    /\ Ping \in Message /\ Ping.action = "ping"
    /\ \A c \in Clients, n \in Nat : Id(c, n) \in AckId /\ Id(Server, n) \in AckId
<1>1. /\ \A m \in Message : /\ m.action \in Actions
                            /\ m.about \in Topics \cup Clients \cup {Server, None}
                            /\ m.ack \in AckId \cup {None} /\ m.answers \in SUBSET Answer
      /\ \A action \in Actions, about \in Topics \cup Clients \cup {Server, None},
            ack \in AckId \cup {None}, answers \in SUBSET Answer :
            /\ Msg(action, about, ack, answers) \in Message
            /\ Msg(action, about, ack, answers).action = action
            /\ Msg(action, about, ack, answers).about = about
            /\ Msg(action, about, ack, answers).ack = ack
            /\ Msg(action, about, ack, answers).answers = answers
  BY DEF Message, Msg
<1>2. \A action \in Actions, about \in Topics \cup Clients \cup {Server, None} :
         /\ Plain(action, about) \in Message
         /\ Plain(action, about).action = action /\ Plain(action, about).about = about
  BY <1>1 DEF Plain
<1>3. Ping \in Message /\ Ping.action = "ping"
  BY <1>2 DEF Ping, Actions
<1>5. \A c \in Clients, n \in Nat : Id(c, n) \in AckId /\ Id(Server, n) \in AckId
  BY DEF Id, AckId
<1>6. QED BY <1>1, <1>2, <1>3, <1>5

\* What SendMessage does to the record of the client.
LEMMA SendFacts ==
    ASSUME node \in [Clients -> Node], NEW c \in Clients, NEW m \in Message, SendMessage(c, m)
    PROVE  /\ node' \in [Clients -> Node]
           /\ \A d \in Clients : d # c => node'[d] = node[d]
           /\ \A d \in Clients : /\ node'[d].connected = node[d].connected
                                 /\ node'[d].done = node[d].done /\ node'[d].sender = node[d].sender
           /\ node'[c].queue = node[c].queue \/ node'[c].queue = Append(node[c].queue, m)
<1>1. CASE node' = node
  BY <1>1
<1>2. CASE node' = [node EXCEPT ![c].queue = Append(@, m)]
  <2> DEFINE q == Append(node[c].queue, m)
  <2>1. node[c] \in Node /\ node[c].queue \in Seq(Message) /\ q \in Seq(Message)
    BY DEF Node
  <2>2. node' = [node EXCEPT ![c] = [node[c] EXCEPT !.queue = q]]
    BY <1>2
  <2> HIDE DEF q
  <2>3. /\ [node[c] EXCEPT !.queue = q] \in Node
        /\ [node[c] EXCEPT !.queue = q].queue = q
        /\ [node[c] EXCEPT !.queue = q].connected = node[c].connected
        /\ [node[c] EXCEPT !.queue = q].done = node[c].done
        /\ [node[c] EXCEPT !.queue = q].sender = node[c].sender
    BY <2>1 DEF Node
  <2>4. node'[c].queue = q
    BY <2>2, <2>3
  <2>5. /\ node' \in [Clients -> Node]
        /\ \A d \in Clients : d # c => node'[d] = node[d]
        /\ \A d \in Clients : /\ node'[d].connected = node[d].connected
                              /\ node'[d].done = node[d].done /\ node'[d].sender = node[d].sender
    BY <2>2, <2>3
  <2>6. QED BY <2>4, <2>5 DEF q
<1>3. QED BY <1>1, <1>2 DEF SendMessage

\* The call that comes next in the program of a client.
LEMMA NextCall ==
    ASSUME program \in Programs, app \in [Clients -> App], NEW c \in Clients,
           app[c].pc <= Len(program.calls[c])
    PROVE  Now(c) \in Call
<1>1. program \in Program /\ app[c].pc \in Nat \ {0}
  BY SessionsAssumption DEF App
<1>2. program.calls[c] \in Seq(Call)
  BY <1>1 DEF Program
<1>3. QED BY <1>1, <1>2 DEF Now

\* A call returns, or has something to send.
LEMMA AppFacts ==
    ASSUME app \in [Clients -> App], NEW c \in Clients, NEW m \in Message
    PROVE  /\ Returns(c) => /\ app' \in [Clients -> App] /\ app'[c].at = "idle"
                            /\ \A d \in Clients : d # c => app'[d] = app[d]
           /\ Sending(c, m) => /\ app' \in [Clients -> App] /\ app'[c].at = "send" /\ app'[c].msg = m
                               /\ app'[c].pc = app[c].pc
                               /\ \A d \in Clients : d # c => app'[d] = app[d]
<1>1. app[c] \in App /\ app[c].pc + 1 \in Nat \ {0}
  BY DEF App
<1>2. CASE Returns(c)
  <2>1. app' = [app EXCEPT ![c] = [app[c] EXCEPT !.at = "idle", !.pc = app[c].pc + 1]]
    BY <1>2 DEF Returns
  <2>2. /\ [app[c] EXCEPT !.at = "idle", !.pc = app[c].pc + 1] \in App
        /\ [app[c] EXCEPT !.at = "idle", !.pc = app[c].pc + 1].at = "idle"
    BY <1>1 DEF App
  <2>3. /\ app' \in [Clients -> App] /\ app'[c].at = "idle"
        /\ \A d \in Clients : d # c => app'[d] = app[d]
    BY <2>1, <2>2
  <2>4. Sending(c, m) => app' = [app EXCEPT ![c] = [app[c] EXCEPT !.at = "send", !.msg = m]]
    BY DEF Sending
  <2>5. [app[c] EXCEPT !.at = "send", !.msg = m].at = "send"
    BY <1>1 DEF App
  <2>6. ~Sending(c, m)
    BY <2>3, <2>4, <2>5
  <2>7. QED BY <2>3, <2>6
<1>3. CASE Sending(c, m) /\ ~Returns(c)
  <2>1. app' = [app EXCEPT ![c] = [app[c] EXCEPT !.at = "send", !.msg = m]]
    BY <1>3 DEF Sending
  <2>2. /\ [app[c] EXCEPT !.at = "send", !.msg = m] \in App
        /\ [app[c] EXCEPT !.at = "send", !.msg = m].at = "send"
        /\ [app[c] EXCEPT !.at = "send", !.msg = m].msg = m
        /\ [app[c] EXCEPT !.at = "send", !.msg = m].pc = app[c].pc
    BY <1>1 DEF App
  <2>3. /\ app' \in [Clients -> App] /\ app'[c].at = "send" /\ app'[c].msg = m
        /\ app'[c].pc = app[c].pc
        /\ \A d \in Clients : d # c => app'[d] = app[d]
    BY <2>1, <2>2
  <2>4. QED BY <1>3, <2>3
<1>4. QED BY <1>2, <1>3

\* The call moves on where it stands.
LEMMA AppMoves ==
    ASSUME app \in [Clients -> App], NEW c \in Clients,
           NEW at \in {"idle", "send", "wait", "status", "cancel", "close"},
           app' = [app EXCEPT ![c].at = at]
    PROVE  /\ app' \in [Clients -> App] /\ app'[c].at = at /\ app'[c].pc = app[c].pc
           /\ \A d \in Clients : d # c => app'[d] = app[d]
<1>1. app' = [app EXCEPT ![c] = [app[c] EXCEPT !.at = at]]
  OBVIOUS
<1>2. /\ [app[c] EXCEPT !.at = at] \in App /\ [app[c] EXCEPT !.at = at].at = at
      /\ [app[c] EXCEPT !.at = at].pc = app[c].pc
  BY DEF App
<1>3. QED BY <1>1, <1>2

\* One of the ClientAcks of a client changes: to be told of it is to be told which.
LEMMA AckFacts ==
    ASSUME acks \in [Clients -> Seq(ClientAck)], NEW c \in Clients, NEW n, NEW a,
           n \in DOMAIN acks[c] => a \in ClientAck,
           acks' = [acks EXCEPT ![c] = [acks[c] EXCEPT ![n] = a]]
    PROVE  /\ acks' \in [Clients -> Seq(ClientAck)]
           /\ \A d \in Clients : DOMAIN acks'[d] = DOMAIN acks[d]
           /\ \A d \in Clients : \A i \in DOMAIN acks[d] :
                 acks'[d][i] = IF d = c /\ i = n THEN a ELSE acks[d][i]
<1>1. acks[c] \in Seq(ClientAck) /\ DOMAIN acks[c] = 1..Len(acks[c]) /\ Len(acks[c]) \in Nat
      /\ \A i \in DOMAIN acks[c] : acks[c][i] \in ClientAck
  OBVIOUS
<1> DEFINE s == [acks[c] EXCEPT ![n] = a]
<1>2. /\ s = [i \in 1..Len(acks[c]) |-> IF i = n THEN a ELSE acks[c][i]]
      /\ DOMAIN s = DOMAIN acks[c]
      /\ \A i \in DOMAIN acks[c] : s[i] = IF i = n THEN a ELSE acks[c][i]
  BY <1>1
<1>3. s \in Seq(ClientAck)
  <2> DEFINE l == Len(acks[c])
  <2>1. l \in Nat /\ s \in [1..l -> ClientAck]
    BY <1>1, <1>2
  <2> HIDE DEF s, l
  <2>2. QED BY <2>1
<1> HIDE DEF s
<1>4. acks' = [acks EXCEPT ![c] = s]
  BY DEF s
<1>5. QED BY <1>2, <1>3, <1>4

\* The answers a ClientAck holds or has given.
Known(c, n) == acks[c][n].responses \cup acks[c][n].result

\* A ClientAck with one field changed.
LEMMA ClientAckFacts ==
    ASSUME NEW a \in ClientAck, NEW s \in SUBSET Answer
    PROVE  /\ a.responses \in SUBSET Answer /\ a.result \in SUBSET Answer
           /\ LET b == [a EXCEPT !.status = s] IN
                 b \in ClientAck /\ b.responses = a.responses /\ b.result = a.result
           /\ LET b == [a EXCEPT !.responses = s] IN
                 b \in ClientAck /\ b.responses = s /\ b.result = a.result
           /\ LET b == [a EXCEPT !.responses = {}, !.result = s] IN
                 b \in ClientAck /\ b.responses = {} /\ b.result = s
           /\ LET b == [a EXCEPT !.cancelled = TRUE] IN
                 b \in ClientAck /\ b.responses = a.responses /\ b.result = a.result
           /\ LET b == [a EXCEPT !.listed = FALSE] IN
                 b \in ClientAck /\ b.responses = a.responses /\ b.result = a.result
BY DEF ClientAck

\* What a step may do to the ClientAcks: they become more, and what they know comes
\* from an answer of the server.
AcksGrow(c) ==
    /\ acks' \in [Clients -> Seq(ClientAck)]
    /\ \A d \in Clients : Len(acks[d]) <= Len(acks'[d])
    /\ \A d \in Clients : \A n \in DOMAIN acks'[d] : \A r \in acks'[d][n].responses \cup acks'[d][n].result :
          \/ n \in DOMAIN acks[d] /\ r \in Known(d, n)
          \/ /\ d = c /\ down[c] # <<>> /\ Head(down[c]).action = "ack_response"
             /\ n = Head(down[c]).ack.n /\ r \in Head(down[c]).answers

\* One ClientAck of a client changes, and holds no answer that it did not hold or was not
\* sent.
LEMMA OneAckGrows ==
    ASSUME acks \in [Clients -> Seq(ClientAck)], NEW c \in Clients, NEW n, NEW a,
           acks' = [acks EXCEPT ![c] = [acks[c] EXCEPT ![n] = a]],
           n \in DOMAIN acks[c] =>
               /\ a \in ClientAck
               /\ \A r \in a.responses \cup a.result :
                     \/ r \in Known(c, n)
                     \/ /\ down[c] # <<>> /\ Head(down[c]).action = "ack_response"
                        /\ n = Head(down[c]).ack.n /\ r \in Head(down[c]).answers
    PROVE  AcksGrow(c)
<1>1. /\ acks' \in [Clients -> Seq(ClientAck)]
      /\ \A d \in Clients : DOMAIN acks'[d] = DOMAIN acks[d]
      /\ \A d \in Clients : \A i \in DOMAIN acks[d] :
            acks'[d][i] = IF d = c /\ i = n THEN a ELSE acks[d][i]
  BY AckFacts, Zenon
<1>2. \A d \in Clients : Len(acks[d]) <= Len(acks'[d])
  <2>1. SUFFICES ASSUME NEW d \in Clients PROVE Len(acks[d]) <= Len(acks'[d])
    OBVIOUS
  <2>2. acks[d] \in Seq(ClientAck) /\ acks'[d] \in Seq(ClientAck) /\ DOMAIN acks'[d] = DOMAIN acks[d]
    BY <1>1
  <2>3. QED BY <2>2
<1>3. ASSUME NEW d \in Clients, NEW i \in DOMAIN acks'[d],
             NEW r \in acks'[d][i].responses \cup acks'[d][i].result
      PROVE  \/ i \in DOMAIN acks[d] /\ r \in Known(d, i)
             \/ /\ d = c /\ down[c] # <<>> /\ Head(down[c]).action = "ack_response"
                /\ i = Head(down[c]).ack.n /\ r \in Head(down[c]).answers
  <2>1. i \in DOMAIN acks[d]
    BY <1>1, <1>3
  <2>2. CASE d = c /\ i = n
    BY <1>1, <2>1, <2>2
  <2>3. CASE ~(d = c /\ i = n)
    <3>1. acks'[d][i] = acks[d][i]
      BY <1>1, <2>1, <2>3
    <3>2. QED BY <3>1, <2>1 DEF Known
  <2>4. QED BY <2>2, <2>3
<1>4. QED BY <1>1, <1>2, <1>3 DEF AcksGrow

\* That is all that happens to the ClientAcks of a client, but for new ones.
LEMMA AcksSteps ==
    ASSUME TypeOK, NEW c \in Clients,
           HearsAnswer(c) \/ CallBegins(c) \/ CallStep(c)
    PROVE  acks' = acks \/ AcksGrow(c)
<1> USE DEF ClientTypes
<1>1. ClientTypes /\ LinkTypes /\ program \in Programs
  BY TypeParts
<1>2. acks[c] \in Seq(ClientAck) /\ \A n \in DOMAIN acks[c] : acks[c][n] \in ClientAck
  BY <1>1
<1>3. CASE HearsAnswer(c)
  <2> DEFINE m == Head(down[c])  n == m.ack.n
  <2>1. /\ down[c] # <<>> /\ m \in Message /\ m.answers \in SUBSET Answer
        /\ m.action \in {"ack_response", "ack_status"}
    BY <1>1, <1>3, Messages, TakenOff DEF HearsAnswer, Hears, LinkTypes
  <2>2. CASE acks' = [acks EXCEPT ![c][n].status = m.answers]
    <3> DEFINE a == [acks[c][n] EXCEPT !.status = m.answers]
    <3>1. acks' = [acks EXCEPT ![c] = [acks[c] EXCEPT ![n] = a]]
      BY <2>2
    <3> HIDE DEF n
    <3>2. n \in DOMAIN acks[c] =>
             a \in ClientAck /\ a.responses = acks[c][n].responses /\ a.result = acks[c][n].result
      <4> HIDE DEF m
      <4>1. QED BY <1>2, <2>1, ClientAckFacts
    <3>4. n \in DOMAIN acks[c] => a \in ClientAck /\ a.responses \cup a.result = Known(c, n)
      BY <3>2 DEF Known
    <3> HIDE DEF a
    <3>3. QED BY <1>1, <3>1, <3>4, OneAckGrows
  <2>3. CASE m.action = "ack_response" /\ acks' = [acks EXCEPT ![c][n].responses = m.answers]
    <3> DEFINE a == [acks[c][n] EXCEPT !.responses = m.answers]
    <3>1. acks' = [acks EXCEPT ![c] = [acks[c] EXCEPT ![n] = a]]
      BY <2>3
    <3>2. n \in DOMAIN acks[c] =>
             a \in ClientAck /\ a.responses = m.answers /\ a.result = acks[c][n].result
      <4>1. SUFFICES ASSUME n \in DOMAIN acks[c]
                     PROVE  a \in ClientAck /\ a.responses = m.answers /\ a.result = acks[c][n].result
        OBVIOUS
      <4>2. acks[c][n] \in ClientAck
        BY <1>2, <4>1
      <4>3. QED BY <2>1, <4>2, ClientAckFacts, Zenon
    <3>3. n \in DOMAIN acks[c] => \A r \in a.responses \cup a.result : r \in Known(c, n) \/ r \in m.answers
      BY <3>2 DEF Known
    <3> HIDE DEF a
    <3>4. QED BY <1>1, <2>1, <2>3, <3>1, <3>2, <3>3, OneAckGrows
  <2>4. QED BY <1>3, <2>1, <2>2, <2>3 DEF HearsAnswer
<1>4. CASE CallAcked(c)
  <2> DEFINE a == [client |-> node[c].connected, listed |-> node[c].connected, cancelled |-> FALSE,
                   responses |-> {}, status |-> {}, result |-> {}]
  <2>1. a \in ClientAck /\ a.responses = {} /\ a.result = {}
    BY <1>1 DEF ClientAck, Node
  <2> HIDE DEF a
  <2>2. acks' = [acks EXCEPT ![c] = Append(acks[c], a)]
    BY <1>4 DEF CallAcked, a
  <2>3. /\ Append(acks[c], a) \in Seq(ClientAck) /\ Len(acks[c]) <= Len(Append(acks[c], a))
        /\ \A i \in DOMAIN Append(acks[c], a) :
              Append(acks[c], a)[i] = a \/ (i \in DOMAIN acks[c] /\ Append(acks[c], a)[i] = acks[c][i])
    BY <1>2, <2>1
  <2> DEFINE s == Append(acks[c], a)
  <2> HIDE DEF s
  <2>4. acks' = [acks EXCEPT ![c] = s]
    BY <2>2 DEF s
  <2>5. \A d \in Clients : Len(acks[d]) \in Nat
    BY <1>1
  <2>6. acks' \in [Clients -> Seq(ClientAck)] /\ \A d \in Clients : Len(acks[d]) <= Len(acks'[d])
    BY <1>1, <2>3, <2>4, <2>5 DEF s
  <2>7. \A d \in Clients : \A n \in DOMAIN acks'[d] : \A r \in acks'[d][n].responses \cup acks'[d][n].result :
           n \in DOMAIN acks[d] /\ r \in Known(d, n)
    BY <1>1, <2>1, <2>3, <2>4 DEF s, Known
  <2>8. QED BY <2>6, <2>7 DEF AcksGrow
<1>5. CASE WaitReturns(c)
  <2> DEFINE n == Now(c).ack
  <2>1. PICK got \in IF Now(c).do = "Wait" THEN {Mine(c).responses} ELSE {{r} : r \in Mine(c).responses} :
           acks' = [acks EXCEPT ![c][n].responses = {}, ![c][n].result = got]
    BY <1>5 DEF WaitReturns
  <2>2. got \subseteq acks[c][n].responses
    BY <2>1 DEF Mine
  <2> DEFINE a == [acks[c][n] EXCEPT !.responses = {}, !.result = got]
  <2>3. acks' = [acks EXCEPT ![c] = [acks[c] EXCEPT ![n] = a]]
    BY <2>1
  <2> HIDE DEF n
  <2>4. n \in DOMAIN acks[c] => a \in ClientAck /\ a.responses \cup a.result \subseteq Known(c, n)
    <3>1. SUFFICES ASSUME n \in DOMAIN acks[c]
                   PROVE  a \in ClientAck /\ a.responses \cup a.result \subseteq Known(c, n)
      OBVIOUS
    <3>2. acks[c][n] \in ClientAck /\ got \in SUBSET Answer
      BY <1>2, <2>2, <3>1, ClientAckFacts
    <3>3. a \in ClientAck /\ a.responses = {} /\ a.result = got
      BY <3>2, ClientAckFacts
    <3>4. QED BY <2>2, <3>3 DEF Known
  <2> HIDE DEF a
  <2>5. QED BY <1>1, <2>3, <2>4, OneAckGrows
<1>6. CASE Cancels(c)
  <2> DEFINE n == Now(c).ack  a == [acks[c][n] EXCEPT !.cancelled = TRUE]
  <2>1. acks' = [acks EXCEPT ![c] = [acks[c] EXCEPT ![n] = a]]
    BY <1>6 DEF Cancels
  <2>2. n \in DOMAIN acks[c] => a \in ClientAck /\ a.responses \cup a.result \subseteq Known(c, n)
    BY <1>2, ClientAckFacts DEF Known
  <2> HIDE DEF a, n
  <2>3. QED BY <1>1, <2>1, <2>2, OneAckGrows
<1>7. CASE CancelEnds(c)
  <2> DEFINE n == Now(c).ack  a == [acks[c][n] EXCEPT !.listed = FALSE]
  <2>1. acks' = [acks EXCEPT ![c] = [acks[c] EXCEPT ![n] = a]]
    BY <1>7 DEF CancelEnds
  <2>2. n \in DOMAIN acks[c] => a \in ClientAck /\ a.responses \cup a.result \subseteq Known(c, n)
    BY <1>2, ClientAckFacts DEF Known
  <2> HIDE DEF a, n
  <2>3. QED BY <1>1, <2>1, <2>2, OneAckGrows
<1>8. CASE StatusReturns(c)
  <2> DEFINE n == Now(c).ack  a == [acks[c][n] EXCEPT !.status = {}]
  <2>1. acks' = [acks EXCEPT ![c] = [acks[c] EXCEPT ![n] = a]]
    BY <1>8 DEF StatusReturns
  <2>2. n \in DOMAIN acks[c] => a \in ClientAck /\ a.responses \cup a.result \subseteq Known(c, n)
    BY <1>2, ClientAckFacts DEF Known
  <2> HIDE DEF a, n
  <2>3. QED BY <1>1, <2>1, <2>2, OneAckGrows
<1>9. WaitTimeout(c) => Cancels(c)
  BY DEF WaitTimeout
<1>10. CallCancel(c) => acks' = acks \/ Cancels(c)
  BY DEF CallCancel
<1>11. CallSimple(c) \/ CallWait(c) \/ CallGetStatus(c) \/ CallClose(c) \/ AppSends(c) \/ CloseEnds(c)
          => acks' = acks
  BY DEF CallSimple, CallWait, CallGetStatus, CallClose, AppSends, CloseEnds
<1>12. QED
  BY <1>3, <1>4, <1>5, <1>6, <1>7, <1>8, <1>9, <1>10, <1>11 DEF CallBegins, CallStep

\* The record of a client changes.
LEMMA NodeFacts ==
    ASSUME node \in [Clients -> Node], NEW c \in Clients, NEW q \in Seq(Message)
    PROVE  /\ node' = [node EXCEPT ![c].queue = q] =>
                 /\ node' \in [Clients -> Node] /\ node'[c].queue = q
                 /\ \A d \in Clients : d # c => node'[d] = node[d]
           /\ node' = [node EXCEPT ![c].queue = q, ![c].sender = FALSE, ![c].connected = FALSE] =>
                 /\ node' \in [Clients -> Node] /\ node'[c].queue = q
                 /\ \A d \in Clients : d # c => node'[d] = node[d]
           /\ (\/ node' = [node EXCEPT ![c].connected = FALSE, ![c].sender = FALSE]
               \/ node' = [node EXCEPT ![c].connected = FALSE, ![c].done = TRUE]) =>
                 /\ node' \in [Clients -> Node] /\ \A d \in Clients : node'[d].queue = node[d].queue
<1>1. node[c] \in Node
  OBVIOUS
<1>2. ASSUME NEW n \in Node, node' = [node EXCEPT ![c] = n]
      PROVE  node' \in [Clients -> Node] /\ node'[c] = n /\ \A d \in Clients : d # c => node'[d] = node[d]
  BY <1>2
<1>3. ASSUME node' = [node EXCEPT ![c].queue = q]
      PROVE  /\ node' \in [Clients -> Node] /\ node'[c].queue = q
             /\ \A d \in Clients : d # c => node'[d] = node[d]
  <2> DEFINE n == [node[c] EXCEPT !.queue = q]
  <2>1. node' = [node EXCEPT ![c] = n] /\ n \in Node /\ n.queue = q
    BY <1>1, <1>3 DEF Node
  <2> HIDE DEF n
  <2>2. QED BY <1>2, <2>1
<1>4. ASSUME node' = [node EXCEPT ![c].queue = q, ![c].sender = FALSE, ![c].connected = FALSE]
      PROVE  /\ node' \in [Clients -> Node] /\ node'[c].queue = q
             /\ \A d \in Clients : d # c => node'[d] = node[d]
  <2> DEFINE n == [node[c] EXCEPT !.queue = q, !.sender = FALSE, !.connected = FALSE]
  <2>1. node' = [node EXCEPT ![c] = n] /\ n \in Node /\ n.queue = q
    BY <1>1, <1>4 DEF Node
  <2> HIDE DEF n
  <2>2. QED BY <1>2, <2>1
<1>5. ASSUME node' = [node EXCEPT ![c].connected = FALSE, ![c].sender = FALSE]
      PROVE  node' \in [Clients -> Node] /\ \A d \in Clients : node'[d].queue = node[d].queue
  <2> DEFINE n == [node[c] EXCEPT !.connected = FALSE, !.sender = FALSE]
  <2>1. node' = [node EXCEPT ![c] = n] /\ n \in Node /\ n.queue = node[c].queue
    BY <1>1, <1>5 DEF Node
  <2> HIDE DEF n
  <2>2. QED BY <1>2, <2>1
<1>6. ASSUME node' = [node EXCEPT ![c].connected = FALSE, ![c].done = TRUE]
      PROVE  node' \in [Clients -> Node] /\ \A d \in Clients : node'[d].queue = node[d].queue
  <2> DEFINE n == [node[c] EXCEPT !.connected = FALSE, !.done = TRUE]
  <2>1. node' = [node EXCEPT ![c] = n] /\ n \in Node /\ n.queue = node[c].queue
    BY <1>1, <1>6 DEF Node
  <2> HIDE DEF n
  <2>2. QED BY <1>2, <2>1
<1>7. QED BY <1>3, <1>4, <1>5, <1>6, Zenon

\* The steps of a client keep the types of its state.
LEMMA ClientTypesKept ==
    ASSUME IInv, NEW c \in Clients,
           SenderStep(c) \/ HandlerStep(c) \/ CallBegins(c) \/ CallStep(c)
    PROVE  ClientTypes'
<1> USE DEF ClientTypes
<1>1. ClientTypes /\ LinkTypes /\ program \in Programs
  BY TypeParts DEF IInv
<1>2. node[c] \in Node /\ app[c] \in App /\ handler[c] \in Handler
  BY <1>1
<1>3. HearsAnswer(c) \/ CallBegins(c) \/ CallStep(c) => acks' \in [Clients -> Seq(ClientAck)]
  BY <1>1, AcksSteps DEF IInv, AcksGrow
<1>4. CASE SenderStep(c)
  <2>1. CASE SenderWrites(c)
    <3>1. node' \in [Clients -> Node]
      <4>1. /\ node[c].queue \in Seq(Message) /\ node[c].queue # <<>>
            /\ node' = [node EXCEPT ![c].queue = Tail(node[c].queue)]
        BY <1>2, <2>1 DEF SenderWrites, Node
      <4>2. Tail(node[c].queue) \in Seq(Message)
        BY <4>1
      <4>3. QED BY <1>1, <4>1, <4>2, NodeFacts
    <3>2. QED BY <1>1, <2>1, <3>1 DEF SenderWrites
  <2>2. CASE SenderFails(c)
    <3>1. node' \in [Clients -> Node]
      <4>1. /\ node[c].queue \in Seq(Message) /\ node[c].queue # <<>>
            /\ node' = [node EXCEPT ![c].queue = Tail(node[c].queue), ![c].sender = FALSE,
                                    ![c].connected = FALSE]
        BY <1>2, <2>2 DEF SenderFails, Node
      <4>2. Tail(node[c].queue) \in Seq(Message)
        BY <4>1
      <4>3. QED BY <1>1, <4>1, <4>2, NodeFacts
    <3>2. QED BY <1>1, <2>2, <3>1 DEF SenderFails
  <2>3. QED BY <1>4, <2>1, <2>2 DEF SenderStep
<1>5. ASSUME NEW m \in Message, SendMessage(c, m) PROVE node' \in [Clients -> Node]
  BY <1>1, <1>5, SendFacts
<1>6. CASE HandlerStep(c)
  <2>1. CASE HearsPublish(c)
    <3>1. /\ down[c] # <<>> /\ Head(down[c]) \in Message /\ Head(down[c]).about \in Topics \cup Clients \cup {Server, None}
          /\ UNCHANGED <<node, subs, app, ran, acks, answering>>
      BY <1>1, <2>1, Messages, TakenOff DEF HearsPublish, Hears, LinkTypes
    <3> DEFINE p == Plain("publish", Head(down[c]).about)
    <3>2. p \in Message
      BY <3>1, Messages DEF Actions, Sent
    <3>3. CASE UNCHANGED <<chats, handler>>
      BY <1>1, <3>1, <3>3
    <3>5. CASE chats[c] > 0 /\ chats' = [chats EXCEPT ![c] = @ - 1] /\ Says(c, p)
      <4> HIDE DEF p
      <4>1. chats' \in [Clients -> Nat]
        BY <1>1, <3>5
      <4>2. [at |-> "send", msg |-> p] \in Handler
        BY <3>2 DEF Handler
      <4>3. handler' \in [Clients -> Handler]
        BY <1>1, <3>5, <4>2 DEF Says
      <4>4. QED BY <1>1, <3>1, <4>1, <4>3
    <3>4. QED BY <2>1, <3>3, <3>5 DEF HearsPublish
  <2>2. CASE HearsPublishAck(c)
    <3> DEFINE m == Head(down[c])
    <3>1. /\ down[c] # <<>> /\ m \in Message /\ m.action = "publish_ack" /\ m.ack \in AckId
          /\ UNCHANGED <<node, subs, app, ran, acks, chats>>
      <4>1. down[c] # <<>> /\ m.action = "publish_ack" /\ \E j \in DOMAIN down[c] : m = down[c][j]
        BY <1>1, <2>2, TakenOff DEF HearsPublishAck, Hears, LinkTypes
      <4>2. m \in Message /\ m.ack \in Requested
        BY <4>1 DEF IInv, DownTraffic, DownMessage
      <4>3. QED BY <2>2, <4>1, <4>2, Messages, <1>1 DEF HearsPublishAck, Hears, Requested, ServerTypes, Id, AckId,
                   IInv, TypeOK
    <3> DEFINE p == Msg("ack", None, m.ack, {[client |-> c, ok |-> FALSE]})
               x == [client |-> c, ack |-> m.ack, at |-> "callback", ok |-> FALSE]
    <3>2. {[client |-> c, ok |-> FALSE]} \in SUBSET Answer /\ "ack" \in Actions
      BY DEF Actions, Answer
    <3>3. p \in Message /\ [at |-> "send", msg |-> p] \in Handler
      <4>1. p \in Message
        BY <3>1, <3>2, Messages
      <4> HIDE DEF p
      <4>2. QED BY <4>1 DEF Handler
    <3>4. x \in Answering
      BY <3>1 DEF Answering
    <3>5. \/ handler' = handler /\ answering' = answering \cup {x}
          \/ handler' = [handler EXCEPT ![c] = [at |-> "send", msg |-> p]] /\ answering' = answering
      BY <2>2 DEF HearsPublishAck, Says
    <3> HIDE DEF p, x
    <3>6. handler' \in [Clients -> Handler] /\ answering' \subseteq Answering
      BY <1>1, <3>3, <3>4, <3>5
    <3>7. QED BY <1>1, <3>1, <3>6
  <2>3. CASE HearsAnswer(c)
    BY <1>1, <1>3, <2>3 DEF HearsAnswer, Hears
  <2>4. CASE HearsOther(c)
    BY <1>1, <2>4 DEF HearsOther, Hears
  <2>5. CASE HandlerSends(c)
    <3>1. handler[c].msg \in Message
      BY <1>2 DEF Handler
    <3>2. node' \in [Clients -> Node]
      BY <1>5, <2>5, <3>1 DEF HandlerSends
    <3>3. handler' \in [Clients -> Handler]
      BY <1>1, <2>5, Messages DEF HandlerSends, Handler
    <3>4. QED BY <1>1, <2>5, <3>2, <3>3 DEF HandlerSends
  <2>6. CASE HandlerEnds(c)
    <3>1. node' \in [Clients -> Node] /\ handler' \in [Clients -> Handler]
      BY <1>1, <1>2, <2>6, NodeFacts DEF HandlerEnds, Node, Handler
    <3>2. QED BY <1>1, <2>6, <3>1 DEF HandlerEnds
  <2>7. QED BY <1>6, <2>1, <2>2, <2>3, <2>4, <2>5, <2>6 DEF HandlerStep
<1>7. Returns(c) => app' \in [Clients -> App]
  BY <1>1, AppFacts, Messages
<1>8. ASSUME NEW m \in Message, Sending(c, m) PROVE app' \in [Clients -> App]
  BY <1>1, <1>8, AppFacts
<1>9. ASSUME NEW do \in Sent \cup {"Wait", "WaitAny", "GetStatus", "Cancel", "Close"}, Calls(c, {do})
      PROVE  Now(c) \in Call
  BY <1>1, <1>9, NextCall DEF Calls
<1>10. ASSUME NEW S, Calls(c, S)
       PROVE /\ Now(c) \in Call /\ Now(c).do \in S
             /\ UNCHANGED <<program, chats, handler, answering, ran>>
  BY <1>1, <1>10, NextCall DEF Calls
<1>11. ASSUME Now(c) \in Call
       PROVE  /\ Now(c).about \in Topics \cup Clients \cup {Server, None} /\ Now(c).ack \in Nat
              /\ Now(c).do \in {"subscribe", "unsubscribe", "publish", "publish_with_ack"} => Now(c).about \in Topics
  BY <1>11 DEF Call
<1>12. Now(c) \in Call => Id(c, Now(c).ack) \in AckId
  BY <1>11, Messages
<1>13. CASE CallBegins(c)
  <2>1. CASE CallSimple(c)
    <3> DEFINE about == Now(c).about  do == Now(c).do
    <3>1. /\ Now(c) \in Call /\ do \in Sent \ Acked /\ UNCHANGED <<chats, handler, answering, ran, node, acks>>
      BY <1>10, <2>1 DEF CallSimple
    <3>2. do \in {"subscribe", "unsubscribe"} => about \in Topics
      BY <1>11, <3>1
    <3>3. subs' \in [Clients -> SUBSET Topics]
      <4> HIDE DEF do, about
      <4>1. CASE do = "subscribe" /\ subs' = [subs EXCEPT ![c] = @ \cup {about}]
        BY <1>1, <3>2, <4>1
      <4>2. CASE subs' = [subs EXCEPT ![c] = @ \ {about}]
        BY <1>1, <4>2
      <4>3. CASE subs' = subs
        BY <1>1, <4>3
      <4>4. QED BY <2>1, <4>1, <4>2, <4>3 DEF CallSimple, do, about
    <3>4. Plain(do, about) \in Message
      BY <1>11, <3>1, Messages DEF Actions
    <3>5. app' \in [Clients -> App]
      BY <1>7, <1>8, <2>1, <3>4 DEF CallSimple
    <3>6. QED BY <1>1, <3>1, <3>3, <3>5
  <2>2. CASE CallAcked(c)
    <3>1. /\ Now(c) \in Call /\ Now(c).do \in Acked /\ UNCHANGED <<chats, handler, answering, ran, node, subs>>
      BY <1>10, <2>2 DEF CallAcked
    <3>2. Id(c, Len(acks[c]) + 1) \in AckId
      BY <1>1, Messages
    <3>3. Msg(Now(c).do, Now(c).about, Id(c, Len(acks[c]) + 1), {}) \in Message
      BY <1>11, <3>1, <3>2, Messages DEF Actions, Sent
    <3>4. app' \in [Clients -> App]
      BY <1>7, <1>8, <2>2, <3>3 DEF CallAcked
    <3>5. acks' \in [Clients -> Seq(ClientAck)]
      BY <1>3, <2>2 DEF CallBegins
    <3>6. QED BY <1>1, <3>1, <3>4, <3>5
  <2>3. CASE CallWait(c)
    <3>1. /\ UNCHANGED <<chats, handler, answering, ran, node, subs, acks>>
      BY <1>10, <2>3 DEF CallWait
    <3>2. app' \in [Clients -> App]
      BY <1>1, <1>7, <2>3, AppMoves DEF CallWait
    <3>3. QED BY <1>1, <3>1, <3>2
  <2>4. CASE CallCancel(c)
    <3>1. /\ Now(c) \in Call /\ UNCHANGED <<chats, handler, answering, ran, node, subs>>
      BY <1>10, <2>4 DEF CallCancel
    <3>2. Msg("cancel_ack", None, Id(c, Now(c).ack), {}) \in Message
      BY <1>12, <3>1, Messages DEF Actions
    <3>3. app' \in [Clients -> App]
      BY <1>7, <1>8, <2>4, <3>2 DEF CallCancel, Cancels
    <3>4. acks' \in [Clients -> Seq(ClientAck)]
      BY <1>3, <2>4 DEF CallBegins
    <3>5. QED BY <1>1, <3>1, <3>3, <3>4
  <2>5. CASE CallGetStatus(c)
    <3>1. /\ Now(c) \in Call /\ UNCHANGED <<chats, handler, answering, ran, node, subs, acks>>
      BY <1>10, <2>5 DEF CallGetStatus
    <3>2. Msg("get_ack_status", None, Id(c, Now(c).ack), {}) \in Message
      BY <1>12, <3>1, Messages DEF Actions
    <3>3. app' \in [Clients -> App]
      BY <1>7, <1>8, <2>5, <3>2 DEF CallGetStatus
    <3>4. QED BY <1>1, <3>1, <3>3
  <2>6. CASE CallClose(c)
    <3>1. /\ UNCHANGED <<chats, handler, answering, ran, subs, acks>>
      BY <1>10, <2>6 DEF CallClose
    <3>2. app' \in [Clients -> App]
      BY <1>1, <2>6, AppMoves DEF CallClose
    <3>3. node' \in [Clients -> Node]
      <4>1. node[c].queue \in Seq(Message)
        BY <1>2 DEF Node
      <4>2. QED BY <1>1, <2>6, <4>1, NodeFacts DEF CallClose
    <3>4. QED BY <1>1, <3>1, <3>2, <3>3
  <2>7. QED BY <1>13, <2>1, <2>2, <2>3, <2>4, <2>5, <2>6 DEF CallBegins
<1>14. CASE CallStep(c)
  <2>1. CASE AppSends(c)
    <3>1. app[c].msg \in Message
      BY <1>2 DEF App
    <3>2. node' \in [Clients -> Node]
      BY <1>5, <2>1, <3>1 DEF AppSends
    <3>3. app' \in [Clients -> App]
      BY <1>1, <1>7, <2>1, AppMoves DEF AppSends
    <3>4. QED BY <1>1, <2>1, <3>2, <3>3 DEF AppSends
  <2>2. CASE WaitReturns(c)
    <3>1. app' \in [Clients -> App] /\ acks' \in [Clients -> Seq(ClientAck)]
      BY <1>3, <1>7, <1>14, <2>2 DEF WaitReturns
    <3>2. QED BY <1>1, <2>2, <3>1 DEF WaitReturns
  <2>3. CASE WaitTimeout(c)
    <3>1. Msg("cancel_ack", None, Id(c, Now(c).ack), {}) \in Message
      <4>1. app[c].pc <= Len(program.calls[c])
        BY <2>3 DEF WaitTimeout, IInv, CallsAreOfTheProgram
      <4>2. Now(c) \in Call
        BY <1>1, <4>1, NextCall
      <4>3. QED BY <1>12, <4>2, Messages DEF Actions
    <3>2. app' \in [Clients -> App] /\ acks' \in [Clients -> Seq(ClientAck)]
      BY <1>3, <1>8, <1>14, <2>3, <3>1 DEF WaitTimeout, Cancels
    <3>3. QED BY <1>1, <2>3, <3>2 DEF WaitTimeout
  <2>4. CASE CancelEnds(c)
    <3>1. app' \in [Clients -> App] /\ acks' \in [Clients -> Seq(ClientAck)]
      BY <1>3, <1>7, <1>14, <2>4 DEF CancelEnds
    <3>2. QED BY <1>1, <2>4, <3>1 DEF CancelEnds
  <2>5. CASE StatusReturns(c)
    <3>1. app' \in [Clients -> App] /\ acks' \in [Clients -> Seq(ClientAck)]
      BY <1>3, <1>7, <1>14, <2>5 DEF StatusReturns
    <3>2. QED BY <1>1, <2>5, <3>1 DEF StatusReturns
  <2>6. CASE CloseEnds(c)
    <3>1. app' \in [Clients -> App]
      BY <1>7, <2>6 DEF CloseEnds
    <3>2. QED BY <1>1, <2>6, <3>1 DEF CloseEnds
  <2>7. QED BY <1>14, <2>1, <2>2, <2>3, <2>4, <2>5, <2>6 DEF CallStep
<1>20. QED BY <1>4, <1>6, <1>13, <1>14

\* What a send to a registered client does: nothing, or one message is in its ring.
LEMMA PushFacts ==
    ASSUME ring \in [Clients -> Seq(Message)], wsConns \subseteq Clients,
           NEW c, NEW m \in Message, SendToWebSocket(c, m)
    PROVE  \/ ring' = ring
           \/ c \in Clients /\ ring' = [ring EXCEPT ![c] = Append(ring[c], m)]
BY DEF SendToWebSocket

\* What a reply to a client does.
LEMMA ResponseFacts ==
    ASSUME ring \in [Clients -> Seq(Message)], wsConns \subseteq Clients,
           NEW c, NEW m \in Message, SendResponse(c, m)
    PROVE  \/ ring' = ring /\ down' = down
           \/ c \in Clients /\ ring' = [ring EXCEPT ![c] = Append(ring[c], m)] /\ down' = down
           \/ ring' = ring /\ down' = [down EXCEPT ![c] = Append(down[c], m)]
<1>1. CASE SendToWebSocket(c, m) /\ UNCHANGED down
  BY <1>1, PushFacts
<1>2. QED BY <1>1 DEF SendResponse

\* What is in the network and in the BatchWriters stays well-typed.
LEMMA LinkTypesKept ==
    ASSUME TypeOK, Next
    PROVE  LinkTypes'
<1> USE DEF LinkTypes
<1>1. ClientTypes /\ LinkTypes /\ ServerTypes
  BY TypeParts
<1>2. ASSUME NEW c \in Clients, NEW m \in Message,
             \/ ring' = ring /\ down' = down
             \/ ring' = [ring EXCEPT ![c] = Append(ring[c], m)] /\ down' = down
             \/ ring' = ring /\ down' = [down EXCEPT ![c] = Append(down[c], m)]
      PROVE  ring' \in [Clients -> Seq(Message)] /\ down' \in [Clients -> Seq(Message)]
  <2>1. ring[c] \in Seq(Message) /\ down[c] \in Seq(Message)
    BY <1>1
  <2>2. Append(ring[c], m) \in Seq(Message) /\ Append(down[c], m) \in Seq(Message)
    BY <1>2, <2>1, Appended
  <2>3. QED BY <1>1, <1>2, <2>2
<1>3. ASSUME NEW c \in Clients, SenderStep(c) PROVE LinkTypes'
  <2>1. CASE SenderWrites(c)
    <3> DEFINE q == node[c].queue
    <3>1. q \in Seq(Message) /\ q # <<>> /\ up[c] \in Seq(Message)
      BY <1>1, <2>1 DEF SenderWrites, ClientTypes, Node
    <3>2. Append(up[c], Head(q)) \in Seq(Message)
      BY <3>1, TakenOff, Appended
    <3>3. up' = [up EXCEPT ![c] = Append(up[c], Head(q))] /\ UNCHANGED <<down, ring, closed>>
      BY <2>1 DEF SenderWrites, bus
    <3> HIDE DEF q
    <3>4. QED BY <1>1, <3>2, <3>3
  <2>2. CASE SenderFails(c)
    BY <1>1, <2>2 DEF SenderFails, links, bus
  <2>3. QED BY <1>3, <2>1, <2>2 DEF SenderStep
<1>4. ASSUME NEW c \in Clients, HandlerStep(c) PROVE LinkTypes'
  <2>1. CASE \E S : Hears(c, S)
    <3>1. PICK S : Hears(c, S)
      BY <2>1
    <3>2. down[c] \in Seq(Message) /\ down[c] # <<>>
      BY <1>1, <3>1 DEF Hears
    <3>3. Tail(down[c]) \in Seq(Message)
      BY <3>2, TakenOff
    <3>4. QED BY <1>1, <3>1, <3>3 DEF Hears, bus
  <2>2. CASE HandlerSends(c) \/ HandlerEnds(c)
    BY <1>1, <2>2 DEF HandlerSends, HandlerEnds, links, bus
  <2>3. QED
    BY <1>4, <2>1, <2>2 DEF HandlerStep, HearsPublish, HearsPublishAck, HearsAnswer, HearsOther
<1>5. ASSUME NEW c \in Clients, CallBegins(c) PROVE LinkTypes'
  <2>1. \E S : Calls(c, S)
    BY <1>5 DEF CallBegins, CallSimple, CallAcked, CallWait, CallCancel, CallGetStatus, CallClose
  <2>2. QED BY <1>1, <2>1 DEF Calls, links, bus
<1>6. ASSUME NEW c \in Clients, CallStep(c) PROVE LinkTypes'
  <2>1. CASE CloseEnds(c)
    BY <1>1, <2>1 DEF CloseEnds, bus
  <2>2. QED BY <1>1, <1>6, <2>1
               DEF CallStep, AppSends, WaitReturns, WaitTimeout, CancelEnds, StatusReturns, links, bus
<1>7. ASSUME NEW c \in Clients, SessionStep(c) PROVE LinkTypes'
  <2>1. CASE \E S : Receives(c, S)
    <3>1. PICK S : Receives(c, S)
      BY <2>1
    <3>2. up[c] \in Seq(Message) /\ up[c] # <<>>
      BY <1>1, <3>1 DEF Receives
    <3>3. Tail(up[c]) \in Seq(Message)
      BY <3>2, TakenOff
    <3>4. QED BY <1>1, <3>1, <3>3 DEF Receives
  <2>2. CASE Push(c)
    <3>1. PICK d \in session[c].to : SendToWebSocket(d, session[c].msg)
      BY <2>2 DEF Push
    <3>2. session[c].msg \in Message /\ d \in Clients
      BY <1>1 DEF ServerTypes, Session
    <3>3. ring' \in [Clients -> Seq(Message)]
      <4>1. down' = down
        BY <2>2 DEF Push, links
      <4>2. QED BY <1>1, <1>2, <3>1, <3>2, <4>1, PushFacts DEF ServerTypes
    <3>4. QED BY <1>1, <2>2, <3>3 DEF Push, links
  <2>3. CASE Reply(c)
    <3>1. CASE UNCHANGED <<ring, down>>
      BY <1>1, <2>3, <3>1 DEF Reply
    <3>2. CASE session[c].reply # None /\ SendResponse(c, session[c].reply)
      <4>1. session[c].reply \in Message
        BY <1>1, <3>2 DEF ServerTypes, Session
      <4>2. ring' \in [Clients -> Seq(Message)] /\ down' \in [Clients -> Seq(Message)]
        BY <1>1, <1>2, <3>2, <4>1, ResponseFacts DEF ServerTypes
      <4>3. QED BY <1>1, <2>3, <4>2 DEF Reply
    <3>3. QED BY <2>3, <3>1, <3>2 DEF Reply
  <2>4. CASE PingLists(c) \/ RelayEnds(c) \/ SessionEnds(c)
    <3>1. CASE PingLists(c)
      BY <1>1, <3>1 DEF PingLists, links
    <3>2. CASE RelayEnds(c)
      BY <1>1, <3>2 DEF RelayEnds, links, bus
    <3>3. CASE SessionEnds(c)
      BY <1>1, <3>3 DEF SessionEnds
    <3>4. QED BY <2>4, <3>1, <3>2, <3>3
  <2>5. QED
    BY <1>7, <2>1, <2>2, <2>3, <2>4
       DEF SessionStep, ReceivesPing, ReceivesSubscribe, ReceivesPublish, ReceivesRelay,
           ReceivesAcked, ReceivesAck, ReceivesQuestion
<1>8. ASSUME NEW c \in Clients, WriterWrites(c) PROVE LinkTypes'
  <2>1. ring[c] \in Seq(Message) /\ ring[c] # <<>> /\ down[c] \in Seq(Message)
    BY <1>1, <1>8 DEF WriterWrites
  <2>2. Tail(ring[c]) \in Seq(Message) /\ Append(down[c], Head(ring[c])) \in Seq(Message)
    BY <2>1, TakenOff, Appended
  <2> DEFINE q == Tail(ring[c])  p == Append(down[c], Head(ring[c]))
  <2>3. \/ ring' = [ring EXCEPT ![c] = <<>>] /\ down' = down
        \/ ring' = [ring EXCEPT ![c] = q] /\ down' = [down EXCEPT ![c] = p]
    BY <1>8 DEF WriterWrites
  <2>4. UNCHANGED <<up, closed>>
    BY <1>8 DEF WriterWrites
  <2> HIDE DEF q, p
  <2>5. <<>> \in Seq(Message) /\ q \in Seq(Message) /\ p \in Seq(Message)
    BY <2>2 DEF q, p
  <2>6. QED BY <1>1, <2>3, <2>4, <2>5
<1>9. ASSUME NEW x \in answering, AnswerStep(x) PROVE LinkTypes'
  BY <1>1, <1>9 DEF AnswerStep, CallbackEnds, AckIsSent, links, bus
<1>10. ASSUME NEW x \in tasks, TaskRuns(x) \/ TaskIsLeft(x) PROVE LinkTypes'
  <2>1. x.msg \in Message /\ x.to \in Clients
    BY <1>1 DEF ServerTypes
  <2>2. CASE TaskRuns(x)
    <3>1. CASE SendResponse(x.to, x.msg)
      <4>1. ring' \in [Clients -> Seq(Message)] /\ down' \in [Clients -> Seq(Message)]
        BY <1>1, <1>2, <2>1, <3>1, ResponseFacts DEF ServerTypes
      <4>2. QED BY <1>1, <2>2, <4>1 DEF TaskRuns
    <3>2. CASE SendToWebSocket(x.to, x.msg) /\ UNCHANGED down
      <4>1. ring' \in [Clients -> Seq(Message)] /\ down' \in [Clients -> Seq(Message)]
        BY <1>1, <1>2, <2>1, <3>2, PushFacts DEF ServerTypes
      <4>2. QED BY <1>1, <2>2, <4>1 DEF TaskRuns
    <3>3. QED BY <2>2, <3>1, <3>2 DEF TaskRuns
  <2>3. CASE TaskIsLeft(x)
    BY <1>1, <2>3 DEF TaskIsLeft, links
  <2>4. QED BY <1>10, <2>2, <2>3
<1>11. ASSUME NEW k \in DOMAIN requests, RequestStep(k) PROVE LinkTypes'
  BY <1>1, <1>11 DEF RequestStep, ServerAnswers, WaitEnds, links
<1>12. ASSUME StopBegins \/ StopStep PROVE LinkTypes'
  <2>1. CASE \E c \in Clients : StopCloses(c)
    BY <1>1, <2>1 DEF StopCloses
  <2>2. CASE \E c \in Clients : StopDrains(c)
    BY <1>1, <2>2 DEF StopDrains, links
  <2>3. CASE StopBegins \/ StopClosesBus \/ StopEnds
    BY <1>1, <2>3 DEF StopBegins, StopClosesBus, StopEnds, links, bus
  <2>4. QED BY <1>12, <2>1, <2>2, <2>3 DEF StopStep
<1>13. QED
  BY <1>3, <1>4, <1>5, <1>6, <1>7, <1>8, <1>9, <1>10, <1>11, <1>12 DEF Next

\* The members of a sequence change where they are.
LEMMA ChangedInPlace ==
    ASSUME NEW T, NEW s \in Seq(T), NEW f, f = [k \in DOMAIN s |-> f[k]],
           \A k \in DOMAIN s : f[k] \in T
    PROVE  f \in Seq(T) /\ DOMAIN f = DOMAIN s /\ Len(f) = Len(s)
<1>1. DOMAIN s = 1..Len(s) /\ Len(s) \in Nat
  OBVIOUS
<1>2. f \in [1..Len(s) -> T]
  BY <1>1
<1>3. f \in Seq(T)
  BY <1>1, <1>2
<1>4. DOMAIN f = 1..Len(s)
  BY <1>2
<1>5. QED BY <1>1, <1>3, <1>4

\* What a step does to the requests: they become more, and what they answer to stays.
RequestsGrow ==
    /\ requests' \in Seq(Request)
    /\ Len(requests) <= Len(requests')
    /\ \A k \in DOMAIN requests : requests'[k].for = requests[k].for

\* The updates of a request.
LEMMA RequestFacts ==
    ASSUME NEW r \in Request, NEW s \in SUBSET Answer
    PROVE  /\ r.for \in AckId /\ r.received \in SUBSET Answer /\ r.to \subseteq Clients \cup {Server}
           /\ LET q == [r EXCEPT !.received = s] IN
                 q \in Request /\ q.for = r.for /\ q.received = s
           /\ LET q == [r EXCEPT !.listed = FALSE] IN
                 q \in Request /\ q.for = r.for /\ q.received = r.received
           /\ LET q == [r EXCEPT !.waiting = FALSE, !.listed = FALSE, !.received = {}] IN
                 q \in Request /\ q.for = r.for /\ q.received = {}
BY DEF Request

\* handleAck adds the answers under the id of the session.
LEMMA AckReceived ==
    ASSUME requests \in Seq(Request), NEW c \in Clients, ReceivesAck(c),
           Head(up[c]).answers \in SUBSET Answer,
           \A r \in Head(up[c]).answers : r.client = c
    PROVE  /\ RequestsGrow /\ DOMAIN requests' = DOMAIN requests
           /\ \A k \in DOMAIN requests : \A r \in requests'[k].received :
                 \/ r \in requests[k].received
                 \/ Head(up[c]).ack = Id(Server, k) /\ r \in Head(up[c]).answers
<1> DEFINE m == Head(up[c])  new == {[r EXCEPT !.client = c] : r \in m.answers}
<1>1. new = m.answers
  <2>1. ASSUME NEW r \in m.answers PROVE [r EXCEPT !.client = c] = r
    <3>1. r \in Answer /\ r.client = c
      OBVIOUS
    <3>2. QED BY <3>1 DEF Answer
  <2>2. QED BY <2>1
<1>2. requests' = [k \in DOMAIN requests |->
                      IF k \in Meant(m.ack)
                      THEN [requests[k] EXCEPT !.received = requests[k].received \cup new]
                      ELSE requests[k]]
  BY DEF ReceivesAck
<1> HIDE DEF new
<1>3. ASSUME NEW k \in DOMAIN requests
      PROVE  /\ requests'[k] \in Request /\ requests'[k].for = requests[k].for
             /\ \A r \in requests'[k].received :
                  \/ r \in requests[k].received
                  \/ m.ack = Id(Server, k) /\ r \in m.answers
  <2> DEFINE s == requests[k].received \cup new
  <2>1. requests[k] \in Request /\ s \in SUBSET Answer
    <3>1. requests[k] \in Request
      OBVIOUS
    <3>2. requests[k].received \in SUBSET Answer
      BY <3>1 DEF Request
    <3>3. QED BY <1>1, <3>1, <3>2
  <2>2. CASE k \in Meant(m.ack)
    <3>1. requests'[k] = [requests[k] EXCEPT !.received = s]
      BY <1>2, <2>2
    <3> HIDE DEF s
    <3> DEFINE q == [requests[k] EXCEPT !.received = s]
    <3>2. q \in Request /\ q.for = requests[k].for /\ q.received = s
      BY <2>1, RequestFacts, Zenon
    <3>3. m.ack = Id(Server, k)
      BY <2>2 DEF Meant
    <3>4. requests'[k].received = requests[k].received \cup new
      BY <3>1, <3>2 DEF s
    <3>5. QED BY <1>1, <3>1, <3>2, <3>3, <3>4
  <2>3. CASE k \notin Meant(m.ack)
    BY <1>2, <2>1, <2>3
  <2>4. QED BY <2>2, <2>3
<1>4. requests' = [k \in DOMAIN requests |-> requests'[k]]
  BY <1>2
<1>5. requests' \in Seq(Request) /\ DOMAIN requests' = DOMAIN requests /\ Len(requests') = Len(requests)
  BY <1>3, <1>4, ChangedInPlace
<1>6. Len(requests) \in Nat
  OBVIOUS
<1>7. QED BY <1>3, <1>5, <1>6 DEF RequestsGrow

\* handleCancelAck takes a request out of the map.
LEMMA QuestionReceived ==
    ASSUME requests \in Seq(Request), NEW c \in Clients, ReceivesQuestion(c)
    PROVE  /\ RequestsGrow /\ DOMAIN requests' = DOMAIN requests
           /\ \A k \in DOMAIN requests : requests'[k].received = requests[k].received
<1> DEFINE m == Head(up[c])
<1>1. requests' = [k \in DOMAIN requests |->
                      IF m.action = "cancel_ack" /\ k \in Meant(m.ack)
                      THEN [requests[k] EXCEPT !.listed = FALSE] ELSE requests[k]]
  BY DEF ReceivesQuestion
<1>2. ASSUME NEW k \in DOMAIN requests
      PROVE  /\ requests'[k] \in Request /\ requests'[k].for = requests[k].for
             /\ requests'[k].received = requests[k].received
  <2>1. requests[k] \in Request
    OBVIOUS
  <2>2. requests'[k] \in {[requests[k] EXCEPT !.listed = FALSE], requests[k]}
    BY <1>1
  <2>3. QED BY <2>1, <2>2, RequestFacts
<1>3. requests' = [k \in DOMAIN requests |-> requests'[k]]
  BY <1>1
<1>4. requests' \in Seq(Request) /\ DOMAIN requests' = DOMAIN requests /\ Len(requests') = Len(requests)
  BY <1>2, <1>3, ChangedInPlace
<1>5. Len(requests) \in Nat
  OBVIOUS
<1>6. QED BY <1>2, <1>4, <1>5 DEF RequestsGrow

\* The server answers itself, and Wait returns: one request changes.
LEMMA RequestStepped ==
    ASSUME requests \in Seq(Request), NEW k \in DOMAIN requests, RequestStep(k)
    PROVE  /\ RequestsGrow /\ DOMAIN requests' = DOMAIN requests
           /\ \A j \in DOMAIN requests :
                 \/ requests'[j].received \subseteq requests[j].received
                 \/ j = k /\ ServerAnswers(k)
                    /\ requests'[j].received = {[client |-> Server, ok |-> TRUE]}
<1>1. requests[k] \in Request
  OBVIOUS
<1>2. PICK r \in Request :
         /\ requests' = [requests EXCEPT ![k] = r] /\ r.for = requests[k].for
         /\ \/ r.received = {}
            \/ ServerAnswers(k) /\ r.received = {[client |-> Server, ok |-> TRUE]}
  <2>1. CASE ServerAnswers(k)
    <3> DEFINE s == {[client |-> Server, ok |-> TRUE]}  r == [requests[k] EXCEPT !.received = s]
    <3>1. requests' = [requests EXCEPT ![k] = r]
      BY <2>1 DEF ServerAnswers
    <3>2. s \in SUBSET Answer
      BY DEF Answer
    <3>3. r \in Request /\ r.for = requests[k].for /\ r.received = s
      BY <1>1, <3>2, RequestFacts, Zenon
    <3> HIDE DEF r
    <3>4. QED BY <2>1, <3>1, <3>3
  <2>2. CASE WaitEnds(k)
    <3> DEFINE r == [requests[k] EXCEPT !.waiting = FALSE, !.listed = FALSE, !.received = {}]
    <3>1. requests' = [requests EXCEPT ![k] = r]
      BY <2>2 DEF WaitEnds
    <3>2. r \in Request /\ r.for = requests[k].for /\ r.received = {}
      BY <1>1, RequestFacts
    <3> HIDE DEF r
    <3>3. QED BY <3>1, <3>2
  <2>3. QED BY <2>1, <2>2 DEF RequestStep
<1>3. \A j \in DOMAIN requests : requests'[j] = IF j = k THEN r ELSE requests[j]
  BY <1>2
<1>4. requests' = [j \in DOMAIN requests |-> requests'[j]]
  BY <1>2
<1>5. requests' \in Seq(Request) /\ DOMAIN requests' = DOMAIN requests /\ Len(requests') = Len(requests)
  BY <1>2, <1>3, <1>4, ChangedInPlace
<1>6. Len(requests) \in Nat
  OBVIOUS
<1>7. QED BY <1>2, <1>3, <1>5, <1>6 DEF RequestsGrow

\* publishWithAck makes a request, and the tasks that ask for its answers.
LEMMA Asked ==
    ASSUME requests \in Seq(Request), tasks \subseteq [to : Clients, msg : Message],
           NEW m \in Message, m.ack \in AckId,
           NEW to \in SUBSET (Clients \cup {Server}), NEW listed \in BOOLEAN, Asks(m, to, listed)
    PROVE  LET k == Len(requests) + 1 IN
           /\ RequestsGrow /\ DOMAIN requests' = DOMAIN requests \cup {k} /\ k \notin DOMAIN requests
           /\ k \in Nat
           /\ \A j \in DOMAIN requests : requests'[j] = requests[j]
           /\ requests'[k].for = m.ack /\ requests'[k].received = {}
           /\ Msg("publish_ack", m.about, Id(Server, k), {}) \in Message
           /\ \A x \in tasks' : \/ x \in tasks
                                \/ /\ x.to \in Clients
                                   /\ x.msg = Msg("publish_ack", m.about, Id(Server, k), {})
                                   /\ x = [to |-> x.to, msg |-> x.msg]
<1> DEFINE k == Len(requests) + 1
           r == [for |-> m.ack, to |-> to, listed |-> listed, waiting |-> TRUE, received |-> {}]
           ask == Msg("publish_ack", m.about, Id(Server, k), {})
<1>1. r \in Request /\ r.for = m.ack /\ r.received = {}
  BY DEF Request
<1>2. requests' = Append(requests, r)
  BY DEF Asks
<1> HIDE DEF r
<1>3. /\ requests' \in Seq(Request) /\ Len(requests) <= Len(requests') /\ k \in Nat
      /\ DOMAIN requests' = DOMAIN requests \cup {k} /\ k \notin DOMAIN requests
      /\ \A j \in DOMAIN requests : requests'[j] = requests[j]
      /\ requests'[k] = r
  BY <1>1, <1>2
<1>4. ask \in Message
  BY <1>3, Messages DEF Id, AckId, Actions
<1>5. tasks' \subseteq tasks \cup {[to |-> d, msg |-> ask] : d \in to \ {Server}}
  BY DEF Asks
<1> HIDE DEF ask, k
<1>6. \A x \in tasks' : \/ x \in tasks
                        \/ x.to \in Clients /\ x.msg = ask /\ x = [to |-> x.to, msg |-> x.msg]
  BY <1>5
<1>7. QED BY <1>1, <1>3, <1>4, <1>6 DEF RequestsGrow, ask, k

\* A session goes on to something else.
LEMMA SessionFacts ==
    ASSUME session \in [Clients -> Session], NEW c \in Clients,
           NEW at \in {"read", "list", "push", "relay", "over"}, NEW to \in SUBSET Clients,
           NEW m \in Message, NEW reply \in Message \cup {None}
    PROVE  /\ Goto(c, at) => /\ session' \in [Clients -> Session]
                             /\ session'[c] = [session[c] EXCEPT !.at = at]
                             /\ session'[c].at = at /\ session'[c].reply = session[c].reply
                             /\ \A d \in Clients : d # c => session'[d] = session[d]
           /\ Pushes(c, to, m, reply) =>
                 /\ session' \in [Clients -> Session]
                 /\ session'[c] = [at |-> "push", to |-> to, msg |-> m, reply |-> reply]
                 /\ \A d \in Clients : d # c => session'[d] = session[d]
           /\ session' = [session EXCEPT ![c].to = to] =>
                 /\ session' \in [Clients -> Session]
                 /\ session'[c].to = to /\ session'[c].at = session[c].at
                 /\ session'[c].msg = session[c].msg /\ session'[c].reply = session[c].reply
                 /\ \A d \in Clients : d # c => session'[d] = session[d]
<1>1. session[c] \in Session
  OBVIOUS
<1>2. ASSUME NEW s \in Session, session' = [session EXCEPT ![c] = s]
      PROVE  /\ session' \in [Clients -> Session] /\ session'[c] = s
             /\ \A d \in Clients : d # c => session'[d] = session[d]
  BY <1>2
<1>3. ASSUME Goto(c, at)
      PROVE  /\ session' \in [Clients -> Session]
             /\ session'[c] = [session[c] EXCEPT !.at = at]
             /\ session'[c].at = at /\ session'[c].reply = session[c].reply
             /\ \A d \in Clients : d # c => session'[d] = session[d]
  <2> DEFINE s == [session[c] EXCEPT !.at = at]
  <2>1. s \in Session /\ s.at = at /\ s.reply = session[c].reply
    BY <1>1 DEF Session
  <2>2. session' = [session EXCEPT ![c] = s]
    BY <1>3 DEF Goto
  <2>3. s = [session[c] EXCEPT !.at = at]
    OBVIOUS
  <2> HIDE DEF s
  <2>4. QED BY <1>2, <2>1, <2>2, <2>3
<1>4. ASSUME Pushes(c, to, m, reply)
      PROVE  /\ session' \in [Clients -> Session]
             /\ session'[c] = [at |-> "push", to |-> to, msg |-> m, reply |-> reply]
             /\ \A d \in Clients : d # c => session'[d] = session[d]
  <2> DEFINE s == [at |-> "push", to |-> to, msg |-> m, reply |-> reply]
  <2>1. s \in Session /\ session' = [session EXCEPT ![c] = s]
    BY <1>4 DEF Session, Pushes
  <2>2. QED BY <1>2, <2>1, Zenon
<1>5. ASSUME session' = [session EXCEPT ![c].to = to]
      PROVE  /\ session' \in [Clients -> Session]
             /\ session'[c].to = to /\ session'[c].at = session[c].at
             /\ session'[c].msg = session[c].msg /\ session'[c].reply = session[c].reply
             /\ \A d \in Clients : d # c => session'[d] = session[d]
  <2> DEFINE s == [session[c] EXCEPT !.to = to]
  <2>1. /\ s \in Session /\ s.to = to /\ s.at = session[c].at /\ s.msg = session[c].msg
        /\ s.reply = session[c].reply
    BY <1>1 DEF Session
  <2>2. session' = [session EXCEPT ![c] = s]
    BY <1>5
  <2> HIDE DEF s
  <2>3. QED BY <1>2, <2>1, <2>2
<1>6. QED BY <1>3, <1>4, <1>5, Zenon

\* What the status of a request consists of.
LEMMA StatusIsOfAnswers ==
    ASSUME requests \in Seq(Request), NEW id
    PROVE  Status(id) \in SUBSET Answer
<1>1. UNION {requests[k].to : k \in Meant(id)} \subseteq Clients \cup {Server}
  <2>1. \A k \in Meant(id) : requests[k] \in Request
    BY DEF Meant
  <2>2. \A k \in Meant(id) : requests[k].to \subseteq Clients \cup {Server}
    BY <2>1 DEF Request
  <2>3. QED BY <2>2
<1> DEFINE received == UNION {requests[k].received : k \in Meant(id)}
           ok(d) == \E r \in received : r.client = d
           asked == UNION {requests[k].to : k \in Meant(id)}
<1>2. \A d \in asked : ok(d) \in BOOLEAN
  OBVIOUS
<1>3. {[client |-> d, ok |-> ok(d)] : d \in asked} \in SUBSET Answer
  <2>1. asked \subseteq Clients \cup {Server}
    BY <1>1
  <2> HIDE DEF ok, asked
  <2>2. QED BY <1>2, <2>1 DEF Answer
<1>4. QED BY <1>3 DEF Status

\* What the session of a client takes is a message that the client may have sent.
LEMMA HeadReceived ==
    ASSUME IInv, NEW c \in Clients, up[c] # <<>>
    PROVE  Head(up[c]) \in Message /\ UpMessage(c, Head(up[c]))
<1>1. up[c] \in Seq(Message)
  BY TypeParts DEF IInv, LinkTypes
<1>2. \E j \in DOMAIN up[c] : Head(up[c]) = up[c][j]
  BY <1>1, TakenOff
<1>3. QED BY <1>2 DEF IInv, UpTraffic, UpMessage

\* What the handler of a client takes may have been sent to it.
LEMMA HeadHeard ==
    ASSUME IInv, NEW c \in Clients, down[c] # <<>>
    PROVE  Head(down[c]) \in Message /\ DownMessage(c, Head(down[c]))
<1>1. down[c] \in Seq(Message)
  BY TypeParts DEF IInv, LinkTypes
<1>2. \E j \in DOMAIN down[c] : Head(down[c]) = down[c][j]
  BY <1>1, TakenOff
<1>3. QED BY <1>2 DEF IInv, DownTraffic, DownMessage

\* The other steps leave the server alone.
LEMMA ServerUntouched ==
    ASSUME Next
    PROVE  \/ \E c \in Clients : SessionStep(c)
           \/ \E x \in tasks : TaskRuns(x) \/ TaskIsLeft(x)
           \/ \E k \in DOMAIN requests : RequestStep(k)
           \/ StopStep \/ StopBegins
           \/ UNCHANGED <<session, wsConns, connections, members, requests, tasks, stop>>
<1>1. ASSUME NEW c \in Clients, SenderStep(c) \/ HandlerStep(c) \/ CallBegins(c) \/ CallStep(c) \/ WriterWrites(c)
      PROVE  UNCHANGED <<session, wsConns, connections, members, requests, tasks, stop>>
  <2>1. CASE SenderStep(c)
    BY <2>1 DEF SenderStep, SenderWrites, SenderFails, bus
  <2>2. CASE HandlerStep(c)
    BY <2>2 DEF HandlerStep, HearsPublish, HearsPublishAck, HearsAnswer, HearsOther, Hears,
                HandlerSends, HandlerEnds, bus
  <2>3. CASE CallBegins(c)
    <3>1. \E S : Calls(c, S)
      BY <2>3 DEF CallBegins, CallSimple, CallAcked, CallWait, CallCancel, CallGetStatus, CallClose
    <3>2. QED BY <3>1 DEF Calls, bus
  <2>4. CASE CallStep(c)
    BY <2>4 DEF CallStep, AppSends, WaitReturns, WaitTimeout, CancelEnds, StatusReturns, CloseEnds, bus
  <2>5. CASE WriterWrites(c)
    BY <2>5 DEF WriterWrites
  <2>6. QED BY <1>1, <2>1, <2>2, <2>3, <2>4, <2>5
<1>2. ASSUME NEW x \in answering, AnswerStep(x)
      PROVE  UNCHANGED <<session, wsConns, connections, members, requests, tasks, stop>>
  BY <1>2 DEF AnswerStep, CallbackEnds, AckIsSent, bus
<1>3. QED BY <1>1, <1>2 DEF Next

\* publishWithAck: the request is for the call that the session of the client takes, and
\* what is given to the workers asks for its answers.
LEMMA AckedReceived ==
    ASSUME IInv, NEW c \in Clients, ReceivesAcked(c)
    PROVE  LET m == Head(up[c])
               k == Len(requests) + 1
               ask == Msg("publish_ack", m.about, Id(Server, k), {})
           IN
           /\ m \in Message /\ m.action \in Acked /\ m.ack \in Own(c) /\ up[c] # <<>>
           /\ RequestsGrow /\ DOMAIN requests' = DOMAIN requests \cup {k} /\ k \notin DOMAIN requests
           /\ k \in Nat
           /\ \A j \in DOMAIN requests : requests'[j] = requests[j]
           /\ requests'[k].for = m.ack /\ requests'[k].received = {}
           /\ ask \in Message
           /\ \A x \in tasks' : \/ x \in tasks
                                \/ x.to \in Clients /\ x.msg = ask /\ x = [to |-> x.to, msg |-> x.msg]
<1> DEFINE m == Head(up[c])  k == Len(requests) + 1
           ask == Msg("publish_ack", m.about, Id(Server, k), {})
<1>1. ClientTypes /\ ServerTypes
  BY TypeParts DEF IInv
<1>2. up[c] # <<>> /\ m.action \in Acked
  BY DEF ReceivesAcked, Receives
<1>3. /\ m \in Message /\ m.ack \in Own(c)
      /\ m.action = "publish_with_ack" => m.about \in Topics
  BY <1>2, HeadReceived DEF UpMessage, Acked
<1>4. m.ack \in AckId
  <2>1. \A n \in DOMAIN acks[c] : n \in Nat
    BY <1>1 DEF ClientTypes
  <2>2. QED BY <1>3, <2>1, Messages DEF Own
<1> HIDE DEF m
<1>5. PICK to \in SUBSET (Clients \cup {Server}), listed \in BOOLEAN : Asks(m, to, listed)
  <2> USE DEF ServerTypes
  <2>1. CASE m.action = "publish_with_ack" /\ Asks(m, members[m.about], TRUE)
    BY <1>1, <1>3, <2>1
  <2>2. CASE Asks(m, {Server}, TRUE)
    BY <2>2
  <2>3. CASE Asks(m, {m.about} \cap connections, m.about \in connections)
    <3>1. {m.about} \cap connections \in SUBSET (Clients \cup {Server})
      BY <1>1
    <3>2. (m.about \in connections) \in BOOLEAN
      OBVIOUS
    <3>3. QED BY <2>3, <3>1, <3>2, Zenon
  <2>4. QED BY <2>1, <2>2, <2>3 DEF ReceivesAcked, m
<1>6. requests \in Seq(Request) /\ tasks \subseteq [to : Clients, msg : Message]
  BY <1>1 DEF ServerTypes
<1>7. /\ RequestsGrow /\ DOMAIN requests' = DOMAIN requests \cup {k} /\ k \notin DOMAIN requests
      /\ k \in Nat
      /\ \A j \in DOMAIN requests : requests'[j] = requests[j]
      /\ requests'[k].for = m.ack /\ requests'[k].received = {}
      /\ ask \in Message
      /\ \A x \in tasks' : \/ x \in tasks
                           \/ x.to \in Clients /\ x.msg = ask /\ x = [to |-> x.to, msg |-> x.msg]
  BY <1>3, <1>4, <1>5, <1>6, Asked, Zenon
<1> HIDE DEF k, ask
<1>8. QED BY <1>2, <1>3, <1>7 DEF m, k, ask

\* So does what the server keeps.
LEMMA ServerTypesKept ==
    ASSUME IInv, Next
    PROVE  ServerTypes'
<1> USE DEF ServerTypes
<1>1. ClientTypes /\ LinkTypes /\ ServerTypes
  BY TypeParts DEF IInv
<1>2. Plain("reply", None) \in Message /\ Plain("pong", None) \in Message /\ Ping \in Message
  BY Messages DEF Actions
<1>3. ASSUME NEW c \in Clients, SessionStep(c) PROVE ServerTypes'
  <2> DEFINE m == Head(up[c])
  <2>1. ASSUME NEW S, Receives(c, S)
        PROVE  /\ m \in Message /\ UpMessage(c, m) /\ m.action \in S /\ UNCHANGED stop
               /\ m.about \in Topics \cup Clients \cup {Server, None}
               /\ m.action \in {"subscribe", "unsubscribe", "publish", "publish_with_ack"} => m.about \in Topics
               /\ m.action \in Acked => m.ack \in AckId
               /\ m.answers \in SUBSET Answer
    <3>1. up[c] # <<>> /\ m.action \in S /\ UNCHANGED stop
      BY <2>1 DEF Receives
    <3>2. m \in Message /\ UpMessage(c, m)
      BY <3>1, HeadReceived
    <3>3. m.action \in Acked => m.ack \in AckId
      <4>1. m.action \in Acked => m.ack \in Own(c)
        BY <3>2 DEF UpMessage
      <4>2. \A n \in DOMAIN acks[c] : n \in Nat
        BY <1>1 DEF ClientTypes
      <4>3. QED BY <4>1, <4>2, Messages DEF Own
    <3>4. QED BY <3>1, <3>2, <3>3, Messages DEF UpMessage
  <2> HIDE DEF m
  <2>2. ASSUME NEW to \in SUBSET Clients, NEW p \in Message, NEW reply \in Message \cup {None},
               Pushes(c, to, p, reply)
        PROVE  session' \in [Clients -> Session]
    BY <1>1, <2>2, SessionFacts
  <2>3. ASSUME NEW at \in {"read", "list", "push", "relay", "over"}, Goto(c, at)
        PROVE  session' \in [Clients -> Session]
    BY <1>1, <1>2, <2>3, SessionFacts
  <2>4. Confirms(c) => session' \in [Clients -> Session]
    BY <1>2, <2>2 DEF Confirms, Replies
  <2>5. CASE ReceivesPing(c)
    <3>1. session' \in [Clients -> Session]
      BY <2>3, <2>5 DEF ReceivesPing
    <3>2. QED BY <1>1, <2>5, <3>1 DEF ReceivesPing, Receives
  <2>6. CASE PingLists(c)
    <3>1. session' \in [Clients -> Session]
      BY <1>2, <2>2, <2>6 DEF PingLists, Replies
    <3>2. QED BY <1>1, <2>6, <3>1 DEF PingLists
  <2>7. CASE ReceivesSubscribe(c)
    <3>1. session' \in [Clients -> Session]
      BY <2>4, <2>7 DEF ReceivesSubscribe
    <3>2. m.about \in Topics
      BY <2>1, <2>7 DEF ReceivesSubscribe, m
    <3>3. PICK g \in SUBSET Clients : members' = [members EXCEPT ![m.about] = g]
      <4>1. members[m.about] \in SUBSET Clients
        BY <1>1, <3>2
      <4>2. members' = [members EXCEPT ![m.about] =
                           IF m.action = "subscribe" THEN members[m.about] \cup {c} ELSE members[m.about] \ {c}]
        BY <2>7 DEF ReceivesSubscribe, m
      <4>3. QED BY <4>1, <4>2
    <3>4. members' \in [Topics -> SUBSET Clients]
      BY <1>1, <3>3
    <3>5. QED BY <1>1, <2>7, <3>1, <3>4 DEF ReceivesSubscribe, Receives
  <2>8. CASE ReceivesPublish(c)
    <3>1. m \in Message /\ (m.action = "publish" => m.about \in Topics)
      BY <2>1, <2>8 DEF ReceivesPublish
    <3>2. session' \in [Clients -> Session]
      <4>1. CASE m.action = "publish"
        <5>1. Pushes(c, members[m.about], m, Plain("reply", None)) /\ members[m.about] \in SUBSET Clients
          BY <1>1, <2>8, <3>1, <4>1 DEF ReceivesPublish, m
        <5>2. QED BY <1>2, <2>2, <3>1, <5>1
      <4>2. CASE m.action # "publish"
        <5>1. Pushes(c, {m.about} \cap wsConns, m, None) /\ {m.about} \cap wsConns \in SUBSET Clients
          BY <1>1, <2>8, <4>2 DEF ReceivesPublish, m
        <5>2. QED BY <2>2, <3>1, <5>1
      <4>3. QED BY <4>1, <4>2
    <3>3. QED BY <1>1, <2>8, <3>2 DEF ReceivesPublish, Receives
  <2>9. CASE Push(c)
    <3>1. PICK d \in session[c].to : session' = [session EXCEPT ![c].to = session[c].to \ {d}]
      BY <2>9 DEF Push
    <3>2. session[c].to \ {d} \in SUBSET Clients
      BY <1>1 DEF Session
    <3>3. session' \in [Clients -> Session]
      BY <1>1, <1>2, <3>1, <3>2, SessionFacts
    <3>4. QED BY <1>1, <2>9, <3>3 DEF Push
  <2>10. CASE Reply(c)
    <3>1. Reading \in Session
      BY <1>2 DEF Reading, Session
    <3>2. session' \in [Clients -> Session]
      BY <1>1, <2>10, <3>1 DEF Reply
    <3>3. QED BY <1>1, <2>10, <3>2 DEF Reply
  <2>11. CASE ReceivesRelay(c)
    <3>1. session' \in [Clients -> Session]
      BY <2>3, <2>11 DEF ReceivesRelay
    <3>2. QED BY <1>1, <2>11, <3>1 DEF ReceivesRelay, Receives
  <2>12. CASE RelayEnds(c)
    <3>1. session' \in [Clients -> Session]
      BY <2>4, <2>12 DEF RelayEnds
    <3>2. QED BY <1>1, <2>12, <3>1 DEF RelayEnds, bus
  <2>13. CASE ReceivesAcked(c)
    <3>1. RequestsGrow /\ tasks' \subseteq [to : Clients, msg : Message]
      <4>1. tasks \subseteq [to : Clients, msg : Message]
        BY <1>1
      <4> DEFINE ask == Msg("publish_ack", Head(up[c]).about, Id(Server, Len(requests) + 1), {})
      <4>2. /\ RequestsGrow /\ ask \in Message
            /\ \A x \in tasks' : x \in tasks \/ (x.to \in Clients /\ x.msg = ask /\ x = [to |-> x.to, msg |-> x.msg])
        BY <2>13, AckedReceived, Zenon
      <4> HIDE DEF ask
      <4>3. \A x \in tasks' : x \in [to : Clients, msg : Message]
        BY <4>1, <4>2
      <4>4. QED BY <4>2, <4>3
    <3>2. UNCHANGED stop
      BY <2>13 DEF ReceivesAcked, Receives
    <3>3. QED BY <1>1, <2>13, <3>1, <3>2 DEF ReceivesAcked, Receives, RequestsGrow
  <2>14. CASE ReceivesAck(c)
    <3>1. RequestsGrow
      <4>1. m.answers \in SUBSET Answer /\ UpMessage(c, m) /\ m.action = "ack"
        BY <2>1, <2>14 DEF ReceivesAck
      <4>2. \A r \in m.answers : r.client = c
        BY <4>1 DEF UpMessage
      <4>3. QED BY <1>1, <2>14, <4>1, <4>2, AckReceived DEF m
    <3>2. QED BY <1>1, <2>14, <3>1 DEF ReceivesAck, Receives, RequestsGrow
  <2>15. CASE ReceivesQuestion(c)
    <3>1. RequestsGrow
      BY <1>1, <2>15, QuestionReceived
    <3>2. m.ack \in AckId \cup {None}
      BY <2>1, <2>15, Messages DEF ReceivesQuestion
    <3>3. session' \in [Clients -> Session]
      <4>1. Status(m.ack) \in SUBSET Answer
        BY <1>1, StatusIsOfAnswers
      <4>2. Replies(c, IF m.action = "cancel_ack" THEN Msg("reply", None, m.ack, {})
                       ELSE Msg("ack_status", None, m.ack, Status(m.ack)))
        BY <2>15 DEF ReceivesQuestion, m
      <4>3. Msg("reply", None, m.ack, {}) \in Message /\ Msg("ack_status", None, m.ack, Status(m.ack)) \in Message
        BY <3>2, <4>1, Messages DEF Actions
      <4>4. QED BY <1>2, <2>2, <4>2, <4>3 DEF Replies
    <3>4. QED BY <1>1, <2>15, <3>1, <3>3 DEF ReceivesQuestion, Receives, RequestsGrow
  <2>16. CASE SessionEnds(c)
    <3>1. session' \in [Clients -> Session]
      BY <2>3, <2>16 DEF SessionEnds
    <3>2. QED BY <1>1, <2>16, <3>1 DEF SessionEnds, Without
  <2>17. QED
    BY <1>3, <2>5, <2>6, <2>7, <2>8, <2>9, <2>10, <2>11, <2>12, <2>13, <2>14, <2>15, <2>16
       DEF SessionStep
<1>4. ASSUME NEW x \in tasks, TaskRuns(x) \/ TaskIsLeft(x) PROVE ServerTypes'
  BY <1>1, <1>4 DEF TaskRuns, TaskIsLeft
<1>5. ASSUME NEW k \in DOMAIN requests, RequestStep(k) PROVE ServerTypes'
  <2>1. RequestsGrow
    BY <1>1, <1>5, RequestStepped
  <2>2. CASE ServerAnswers(k)
    BY <1>1, <2>1, <2>2 DEF ServerAnswers, RequestsGrow
  <2>3. CASE WaitEnds(k)
    <3> DEFINE r == requests[k]
    <3>1. requests[k] \in Request /\ r.for \in AckId /\ r.received \in SUBSET Answer /\ r.for.by \in Clients
      <4>1. requests[k] \in Request
        BY <1>1
      <4>2. QED BY <4>1 DEF Request, IInv, Answers
    <3>2. PICK got \in SUBSET r.received :
             tasks' = tasks \cup {[to |-> r.for.by, msg |-> Msg("ack_response", None, r.for, got)]}
      BY <2>3 DEF WaitEnds
    <3> HIDE DEF r
    <3>3. Msg("ack_response", None, r.for, got) \in Message
      BY <3>1, <3>2, Messages DEF Actions
    <3>4. tasks' \subseteq [to : Clients, msg : Message]
      BY <1>1, <3>1, <3>2, <3>3 DEF r
    <3>5. QED BY <1>1, <2>1, <2>3, <3>4 DEF WaitEnds, RequestsGrow
  <2>4. QED BY <1>5, <2>2, <2>3 DEF RequestStep
<1>6. CASE StopBegins
  BY <1>1, <1>6 DEF StopBegins, bus
<1>7. CASE StopStep
  <2>0. stop \in [at : {"no", "conns", "bus", "over"}, todo : SUBSET Clients]
    BY <1>1
  <2>1. ASSUME NEW c \in Clients, StopCloses(c) \/ StopDrains(c) PROVE ServerTypes'
    <3>1. stop' = [stop EXCEPT !.todo = stop.todo \ {c}]
      BY <2>1 DEF StopCloses, StopDrains
    <3>2. stop' \in [at : {"no", "conns", "bus", "over"}, todo : SUBSET Clients]
      BY <2>0, <3>1
    <3>3. CASE StopCloses(c)
      <4>1. members' \in [Topics -> SUBSET Clients]
        BY <1>1, <3>3 DEF StopCloses, Without
      <4>2. QED BY <1>1, <3>2, <3>3, <4>1 DEF StopCloses
    <3>4. CASE StopDrains(c)
      BY <1>1, <3>2, <3>4 DEF StopDrains
    <3>5. QED BY <2>1, <3>3, <3>4
  <2>2. CASE StopClosesBus
    BY <1>1, <2>2 DEF StopClosesBus
  <2>3. CASE StopEnds
    BY <1>1, <2>3 DEF StopEnds, bus
  <2>4. QED BY <1>7, <2>1, <2>2, <2>3 DEF StopStep
<1>8. CASE UNCHANGED <<session, wsConns, connections, members, requests, tasks, stop>>
  BY <1>1, <1>8
<1>9. QED BY <1>3, <1>4, <1>5, <1>6, <1>7, <1>8, ServerUntouched

\* A callback ends, or its ack is sent.
LEMMA AnswerTypesKept ==
    ASSUME IInv, NEW x \in answering, AnswerStep(x)
    PROVE  ClientTypes'
<1> USE DEF ClientTypes
<1>1. ClientTypes
  BY TypeParts DEF IInv
<1>2. x \in Answering /\ x.client \in Clients /\ x.ack \in AckId /\ x.ok \in BOOLEAN
  BY <1>1 DEF Answering
<1>3. ASSUME NEW ok \in BOOLEAN, CallbackEnds(x, ok) PROVE ClientTypes'
  <2>1. [client |-> x.client, ack |-> x.ack, ok |-> ok] \in [client : Clients \cup {Server}, ack : AckId, ok : BOOLEAN]
    BY <1>2
  <2>2. [x EXCEPT !.at = "send", !.ok = ok] \in Answering
    BY <1>2 DEF Answering
  <2>3. /\ ran' = ran \cup {[client |-> x.client, ack |-> x.ack, ok |-> ok]}
        /\ answering' = (answering \ {x}) \cup {[x EXCEPT !.at = "send", !.ok = ok]}
        /\ UNCHANGED <<node, subs, chats, acks, app, handler>>
    BY <1>3 DEF CallbackEnds, Outcome
  <2> DEFINE y == [x EXCEPT !.at = "send", !.ok = ok]
             e == [client |-> x.client, ack |-> x.ack, ok |-> ok]
  <2> HIDE DEF y, e
  <2>4. answering' \subseteq Answering
    BY <1>1, <2>2, <2>3 DEF y
  <2>5. ran' \subseteq [client : Clients \cup {Server}, ack : AckId, ok : BOOLEAN]
    BY <1>1, <2>1, <2>3 DEF e
  <2>6. QED BY <1>1, <2>3, <2>4, <2>5
<1>4. CASE AckIsSent(x)
  <2> DEFINE m == Msg("ack", None, x.ack, {[client |-> x.client, ok |-> x.ok]})
  <2>1. m \in Message
    <3>1. {[client |-> x.client, ok |-> x.ok]} \in SUBSET Answer
      BY <1>2 DEF Answer
    <3>2. QED BY <1>2, <3>1, Messages DEF Actions
  <2>2. SendMessage(x.client, m)
    BY <1>4 DEF AckIsSent
  <2> HIDE DEF m
  <2>3. node' \in [Clients -> Node]
    BY <1>1, <1>2, <2>1, <2>2, SendFacts
  <2>4. QED BY <1>1, <1>4, <2>3 DEF AckIsSent
<1>5. QED BY <1>3, <1>4 DEF AnswerStep

\* The other steps leave the clients alone, but for the callback of the server.
LEMMA ClientsUntouched ==
    ASSUME Next
    PROVE  /\ program' = program
           /\ \/ \E c \in Clients : SenderStep(c) \/ HandlerStep(c) \/ CallBegins(c) \/ CallStep(c)
              \/ \E x \in answering : AnswerStep(x)
              \/ \E k \in DOMAIN requests : ServerAnswers(k)
              \/ UNCHANGED local
           /\ panicked' \in BOOLEAN \/ panicked' = panicked
<1>1. ASSUME NEW c \in Clients, SenderStep(c) \/ HandlerStep(c)
      PROVE  UNCHANGED <<program, panicked>>
  BY <1>1 DEF SenderStep, SenderWrites, SenderFails, HandlerStep, HearsPublish, HearsPublishAck,
              HearsAnswer, HearsOther, Hears, HandlerSends, HandlerEnds
<1>2. ASSUME NEW c \in Clients, CallBegins(c)
      PROVE  program' = program /\ (panicked' \in BOOLEAN \/ panicked' = panicked)
  BY <1>2 DEF CallBegins, CallSimple, CallAcked, CallWait, CallCancel, CallGetStatus, CallClose, Calls, Cancels
<1>3. ASSUME NEW c \in Clients, CallStep(c)
      PROVE  program' = program /\ (panicked' \in BOOLEAN \/ panicked' = panicked)
  BY <1>3 DEF CallStep, AppSends, WaitReturns, WaitTimeout, CancelEnds, StatusReturns, CloseEnds, Cancels
<1>4. ASSUME NEW c \in Clients, SessionStep(c) PROVE UNCHANGED <<program, panicked, local>>
  <2>1. CASE \E S : Receives(c, S)
    BY <2>1 DEF Receives
  <2>2. CASE Push(c) \/ Reply(c) \/ PingLists(c) \/ RelayEnds(c) \/ SessionEnds(c)
    BY <2>2 DEF Push, Reply, PingLists, RelayEnds, SessionEnds
  <2>3. QED
    BY <1>4, <2>1, <2>2
       DEF SessionStep, ReceivesPing, ReceivesSubscribe, ReceivesPublish, ReceivesRelay,
           ReceivesAcked, ReceivesAck, ReceivesQuestion
<1>5. ASSUME NEW c \in Clients, WriterWrites(c) PROVE UNCHANGED <<program, panicked, local>>
  BY <1>5 DEF WriterWrites
<1>6. ASSUME NEW x \in answering, AnswerStep(x) PROVE UNCHANGED <<program, panicked>>
  BY <1>6 DEF AnswerStep, CallbackEnds, AckIsSent
<1>7. ASSUME NEW x \in tasks, TaskRuns(x) \/ TaskIsLeft(x) PROVE UNCHANGED <<program, panicked, local>>
  BY <1>7 DEF TaskRuns, TaskIsLeft
<1>8. ASSUME NEW k \in DOMAIN requests, RequestStep(k)
      PROVE  UNCHANGED <<program, panicked>> /\ (ServerAnswers(k) \/ UNCHANGED local)
  BY <1>8 DEF RequestStep, ServerAnswers, WaitEnds
<1>9. CASE StopBegins \/ StopStep
  BY <1>9 DEF StopBegins, StopStep, StopCloses, StopDrains, StopClosesBus, StopEnds
<1>10. QED BY <1>1, <1>2, <1>3, <1>4, <1>5, <1>6, <1>7, <1>8, <1>9 DEF Next

\* Every step keeps the types.
LEMMA TypesKept ==
    ASSUME IInv, Next
    PROVE  TypeOK'
<1>1. LinkTypes' /\ ServerTypes' /\ ClientTypes /\ program \in Programs /\ panicked \in BOOLEAN
  BY LinkTypesKept, ServerTypesKept, TypeParts DEF IInv
<1>2. ClientTypes'
  <2>1. ASSUME NEW k \in DOMAIN requests, ServerAnswers(k) PROVE ClientTypes'
    <3>1. /\ UNCHANGED <<node, subs, chats, acks, app, handler, answering>>
          /\ ran' = ran \cup {[client |-> Server, ack |-> Id(Server, k), ok |-> TRUE]}
      BY <2>1 DEF ServerAnswers
    <3>2. Id(Server, k) \in AckId
      <4>1. requests \in Seq(Request)
        BY TypeParts DEF IInv, ServerTypes
      <4>2. k \in Nat
        BY <4>1
      <4>3. QED BY <4>2 DEF Id, AckId
    <3> DEFINE e == [client |-> Server, ack |-> Id(Server, k), ok |-> TRUE]
    <3>5. e \in [client : Clients \cup {Server}, ack : AckId, ok : BOOLEAN] /\ ran' = ran \cup {e}
      BY <3>1, <3>2
    <3> HIDE DEF e
    <3>3. ran' \subseteq [client : Clients \cup {Server}, ack : AckId, ok : BOOLEAN]
      BY <1>1, <3>5 DEF ClientTypes
    <3>4. QED BY <1>1, <3>1, <3>3 DEF ClientTypes
  <2>2. CASE UNCHANGED local
    BY <1>1, <2>2 DEF ClientTypes, local
  <2>3. QED BY <2>1, <2>2, ClientTypesKept, AnswerTypesKept, ClientsUntouched
<1>3. program' \in Programs /\ panicked' \in BOOLEAN
  BY <1>1, ClientsUntouched
<1>4. (program \in Programs /\ ClientTypes /\ LinkTypes /\ ServerTypes /\ panicked \in BOOLEAN)' => TypeOK'
  BY TypeParts, PTL
<1>5. QED BY <1>1, <1>2, <1>3, <1>4

\* Nothing has happened yet.
LEMMA InitTypeOK ==
    Init => TypeOK
<1>1. SUFFICES ASSUME Init PROVE TypeOK
  OBVIOUS
<1>2. program \in Program /\ program \in Programs
  BY <1>1, SessionsAssumption DEF Init
<1>3. Ping \in Message /\ <<>> \in Seq(Message) /\ <<Ping>> \in Seq(Message) /\ <<>> \in Seq(ClientAck)
      /\ <<>> \in Seq(Request)
  BY Messages
<1>4. ClientTypes
  <2>1. chats \in [Clients -> Nat]
    BY <1>1, <1>2 DEF Init, Program
  <2>2. node \in [Clients -> Node]
    BY <1>1, <1>3 DEF Init, Node
  <2>3. app \in [Clients -> App] /\ handler \in [Clients -> Handler]
    BY <1>1, <1>3 DEF Init, App, Handler
  <2>4. QED BY <1>1, <1>3, <2>1, <2>2, <2>3 DEF Init, ClientTypes
<1>5. LinkTypes
  BY <1>1, <1>3 DEF Init, LinkTypes
<1>6. ServerTypes
  <2>1. session \in [Clients -> Session]
    BY <1>1, <1>3 DEF Init, Session
  <2>2. QED BY <1>1, <1>3, <2>1 DEF Init, ServerTypes
<1>7. QED BY <1>1, <1>2, <1>4, <1>5, <1>6, TypeParts DEF Init

-----------------------------------------------------------------------------
(* What grows *)

\* The call of a client returns, sends or moves on.
LEMMA AppKeepsPc ==
    ASSUME app \in [Clients -> App], NEW c \in Clients,
           Returns(c) \/ (\E m : Sending(c, m)) \/ (\E at : app' = [app EXCEPT ![c].at = at])
    PROVE  /\ \A d \in Clients : d # c => app'[d] = app[d]
           /\ app'[c].at = "idle" \/ app'[c].pc = app[c].pc
<1>1. app[c] \in App
  OBVIOUS
<1>2. CASE Returns(c)
  BY <1>2, AppFacts, Messages
<1>3. ASSUME NEW m, Sending(c, m)
      PROVE  app'[c].pc = app[c].pc /\ \A d \in Clients : d # c => app'[d] = app[d]
  <2> DEFINE a == [app[c] EXCEPT !.at = "send", !.msg = m]
  <2>1. app' = [app EXCEPT ![c] = a]
    BY <1>3 DEF Sending
  <2>2. a.pc = app[c].pc
    BY <1>1 DEF App
  <2> HIDE DEF a
  <2>3. QED BY <2>1, <2>2
<1>4. ASSUME NEW at, app' = [app EXCEPT ![c].at = at]
      PROVE  app'[c].pc = app[c].pc /\ \A d \in Clients : d # c => app'[d] = app[d]
  <2> DEFINE a == [app[c] EXCEPT !.at = at]
  <2>1. app' = [app EXCEPT ![c] = a]
    BY <1>4
  <2>2. a.pc = app[c].pc
    BY <1>1 DEF App
  <2> HIDE DEF a
  <2>3. QED BY <2>1, <2>2
<1>5. QED BY <1>2, <1>3, <1>4

\* What the application of a client has to send after a step of it.
LEMMA AppSteps ==
    ASSUME IInv, NEW c \in Clients, CallBegins(c) \/ CallStep(c)
    PROVE  /\ app[c].pc <= Len(program.calls[c])
           /\ \A d \in Clients : d # c => app'[d] = app[d]
           /\ app'[c].at = "idle" \/ app'[c].pc = app[c].pc
           /\ app'[c].at = "send" =>
                 LET m == app'[c].msg IN
                 /\ m \in Message /\ m.action \in UpActions /\ m.action # "ack"
                 /\ m.action \in {"subscribe", "unsubscribe", "publish", "publish_with_ack"} => m.about \in Topics
                 /\ m.action \in Acked => CallAcked(c) /\ m.ack = Id(c, Len(acks[c]) + 1)
<1>1. ClientTypes /\ program \in Programs /\ app \in [Clients -> App] /\ app[c] \in App
  <2>1. ClientTypes /\ program \in Programs
    BY TypeParts DEF IInv
  <2>2. QED BY <2>1 DEF ClientTypes
<1>2. app[c].pc <= Len(program.calls[c])
  BY DEF CallBegins, CallSimple, CallAcked, CallWait, CallCancel, CallGetStatus, CallClose, Calls,
         CallStep, AppSends, WaitReturns, WaitTimeout, CancelEnds, StatusReturns, CloseEnds, IInv,
         CallsAreOfTheProgram
<1>3. Returns(c) \/ (\E m : Sending(c, m)) \/ (\E at : app' = [app EXCEPT ![c].at = at])
  <2>1. CASE CallBegins(c)
    BY <2>1 DEF CallBegins, CallSimple, CallAcked, CallWait, CallCancel, CallGetStatus, CallClose, Cancels
  <2>2. CASE CallStep(c)
    BY <2>2 DEF CallStep, AppSends, WaitReturns, WaitTimeout, CancelEnds, StatusReturns, CloseEnds, Cancels
  <2>3. QED BY <2>1, <2>2
<1>4. /\ Now(c) \in Call
      /\ Now(c).about \in Topics \cup Clients \cup {Server, None} /\ Now(c).ack \in Nat
      /\ Now(c).do \in {"subscribe", "unsubscribe", "publish", "publish_with_ack"} => Now(c).about \in Topics
      /\ Id(c, Now(c).ack) \in AckId
  <2>1. Now(c) \in Call
    BY <1>1, <1>2, NextCall
  <2>2. /\ Now(c).about \in Topics \cup Clients \cup {Server, None} /\ Now(c).ack \in Nat
        /\ Now(c).do \in {"subscribe", "unsubscribe", "publish", "publish_with_ack"} => Now(c).about \in Topics
    BY <2>1 DEF Call
  <2>3. QED BY <2>1, <2>2, Messages
<1> DEFINE G(m) == /\ m \in Message /\ m.action \in UpActions /\ m.action # "ack"
                   /\ m.action \in {"subscribe", "unsubscribe", "publish", "publish_with_ack"} => m.about \in Topics
                   /\ m.action \in Acked => CallAcked(c) /\ m.ack = Id(c, Len(acks[c]) + 1)
<1>5. ASSUME NEW m, Sending(c, m), G(m) PROVE app'[c].at = "send" => G(app'[c].msg)
  BY <1>1, <1>5, AppFacts
<1>6. Returns(c) => app'[c].at # "send"
  BY <1>1, AppFacts, Messages
<1>7. ASSUME NEW at \in {"idle", "wait", "status", "cancel", "close"}, app' = [app EXCEPT ![c].at = at]
      PROVE  app'[c].at # "send"
  BY <1>1, <1>7, AppMoves
<1>8. ASSUME NEW action \in {"cancel_ack", "get_ack_status"}
      PROVE  G(Msg(action, None, Id(c, Now(c).ack), {}))
  <2>1. action \in Actions /\ action \in UpActions /\ action # "ack" /\ action \notin Acked
        /\ action \notin {"subscribe", "unsubscribe", "publish", "publish_with_ack"}
    BY DEF Actions, UpActions, Acked
  <2>2. QED BY <1>4, <2>1, Messages
<1>9. ASSUME CallSimple(c) PROVE app'[c].at = "send" => G(app'[c].msg)
  <2> DEFINE m == Plain(Now(c).do, Now(c).about)
  <2>1. Now(c).do \in Sent \ Acked
    BY <1>9 DEF CallSimple, Calls
  <2>2. G(m)
    <3>1. /\ Now(c).do \in Actions /\ Now(c).do \in UpActions /\ Now(c).do # "ack" /\ Now(c).do \notin Acked
      BY <2>1 DEF Actions, Sent, Acked, UpActions
    <3>2. m \in Message /\ m.action = Now(c).do /\ m.about = Now(c).about
      BY <1>4, <3>1, Messages
    <3> HIDE DEF m
    <3>3. QED BY <1>4, <3>1, <3>2
  <2>3. Sending(c, m) \/ Returns(c)
    BY <1>9 DEF CallSimple
  <2> HIDE DEF m, G
  <2>4. QED BY <1>5, <1>6, <2>2, <2>3
<1>10. ASSUME CallAcked(c) PROVE app'[c].at = "send" => G(app'[c].msg)
  <2> DEFINE m == Msg(Now(c).do, Now(c).about, Id(c, Len(acks[c]) + 1), {})
  <2>1. Now(c).do \in Acked
    BY <1>10 DEF CallAcked, Calls
  <2>2. G(m)
    <3>1. /\ Now(c).do \in Actions /\ Now(c).do \in UpActions /\ Now(c).do # "ack"
      BY <2>1 DEF Actions, Sent, Acked, UpActions
    <3>2. Id(c, Len(acks[c]) + 1) \in AckId
      BY <1>1, Messages DEF ClientTypes
    <3>3. m \in Message /\ m.action = Now(c).do /\ m.about = Now(c).about /\ m.ack = Id(c, Len(acks[c]) + 1)
      <4>2. m \in Message
        BY <1>4, <2>1, <3>2, Messages DEF Actions, Sent
      <4>3. m.action = Now(c).do /\ m.about = Now(c).about /\ m.ack = Id(c, Len(acks[c]) + 1)
        BY DEF Msg
      <4>4. QED BY <4>2, <4>3
    <3> HIDE DEF m
    <3>4. QED BY <1>4, <1>10, <3>1, <3>3
  <2>3. Sending(c, m) \/ Returns(c)
    BY <1>10 DEF CallAcked
  <2> HIDE DEF m, G
  <2>4. QED BY <1>5, <1>6, <2>2, <2>3
<1>11. Cancels(c) => (app'[c].at = "send" => G(app'[c].msg))
  <2> DEFINE m == Msg("cancel_ack", None, Id(c, Now(c).ack), {})
  <2>1. G(m)
    BY <1>8
  <2>2. Cancels(c) => Sending(c, m)
    BY DEF Cancels
  <2> HIDE DEF m, G
  <2>3. QED BY <1>5, <2>1, <2>2
<1>12. CallGetStatus(c) => (app'[c].at = "send" => G(app'[c].msg))
  <2> DEFINE m == Msg("get_ack_status", None, Id(c, Now(c).ack), {})
  <2>1. G(m)
    BY <1>8
  <2>2. CallGetStatus(c) => Sending(c, m) \/ Returns(c)
    BY DEF CallGetStatus
  <2> HIDE DEF m, G
  <2>3. QED BY <1>5, <1>6, <2>1, <2>2
<1>13. app'[c].at = "send" => G(app'[c].msg)
  <2> HIDE DEF G
  <2>1. CASE CallBegins(c)
    <3>1. CallCancel(c) => Cancels(c) \/ Returns(c)
      BY DEF CallCancel
    <3>2. CallWait(c) => Returns(c) \/ app' = [app EXCEPT ![c].at = "wait"]
      BY DEF CallWait
    <3>3. CallClose(c) => app' = [app EXCEPT ![c].at = "close"]
      BY DEF CallClose
    <3>4. QED BY <2>1, <1>6, <1>7, <1>9, <1>10, <1>11, <1>12, <3>1, <3>2, <3>3 DEF CallBegins
  <2>2. CASE CallStep(c)
    <3>1. WaitTimeout(c) => Cancels(c)
      BY DEF WaitTimeout
    <3>2. AppSends(c) => Returns(c) \/ app' = [app EXCEPT ![c].at = "status"] \/ app' = [app EXCEPT ![c].at = "cancel"]
      BY DEF AppSends
    <3>3. WaitReturns(c) \/ CancelEnds(c) \/ StatusReturns(c) \/ CloseEnds(c) => Returns(c)
      BY DEF WaitReturns, CancelEnds, StatusReturns, CloseEnds
    <3>4. QED BY <2>2, <1>6, <1>7, <1>11, <3>1, <3>2, <3>3 DEF CallStep
  <2>3. QED BY <2>1, <2>2
<1>14. QED BY <1>1, <1>2, <1>3, <1>13, AppKeepsPc

\* A call that has begun stays one of the program.
LEMMA ProgramKept ==
    ASSUME IInv, Next
    PROVE  CallsAreOfTheProgram'
<1>1. program' = program
  BY ClientsUntouched
<1>2. ASSUME NEW c \in Clients, CallBegins(c) \/ CallStep(c) PROVE CallsAreOfTheProgram'
  BY <1>1, <1>2, AppSteps DEF IInv, CallsAreOfTheProgram
<1>3. ASSUME app' = app PROVE CallsAreOfTheProgram'
  BY <1>1, <1>3 DEF IInv, CallsAreOfTheProgram
<1>4. ASSUME NEW c \in Clients, SenderStep(c) \/ HandlerStep(c) PROVE app' = app
  BY <1>4 DEF SenderStep, SenderWrites, SenderFails, HandlerStep, HearsPublish, HearsPublishAck,
              HearsAnswer, HearsOther, Hears, HandlerSends, HandlerEnds
<1>5. ASSUME NEW x \in answering, AnswerStep(x) PROVE app' = app
  BY <1>5 DEF AnswerStep, CallbackEnds, AckIsSent
<1>6. ASSUME NEW k \in DOMAIN requests, ServerAnswers(k) PROVE app' = app
  BY <1>6 DEF ServerAnswers
<1>7. (UNCHANGED local) => app' = app
  BY DEF local
<1>8. QED BY <1>2, <1>3, <1>4, <1>5, <1>6, <1>7, ClientsUntouched

\* The ClientAcks become more, and what a client is told comes from an answer.
LEMMA AcksKeep ==
    ASSUME IInv, Next
    PROVE  /\ acks' \in [Clients -> Seq(ClientAck)]
           /\ \A d \in Clients : DOMAIN acks[d] \subseteq DOMAIN acks'[d] /\ Own(d) \subseteq Own(d)'
           /\ acks' = acks \/ \E c \in Clients : AcksGrow(c)
<1>1. ClientTypes /\ TypeOK
  BY TypeParts DEF IInv
<1>2. acks' = acks \/ \E c \in Clients : AcksGrow(c)
  <2>1. ASSUME NEW c \in Clients, SenderStep(c) \/ HandlerStep(c) \/ CallBegins(c) \/ CallStep(c)
        PROVE  acks' = acks \/ AcksGrow(c)
    <3>1. CASE HearsAnswer(c) \/ CallBegins(c) \/ CallStep(c)
      BY <1>1, <3>1, AcksSteps
    <3>2. CASE SenderStep(c)
      BY <3>2 DEF SenderStep, SenderWrites, SenderFails
    <3>3. CASE HandlerStep(c) /\ ~HearsAnswer(c)
      BY <3>3 DEF HandlerStep, HearsPublish, HearsPublishAck, HearsOther, HandlerSends, HandlerEnds
    <3>4. QED BY <2>1, <3>1, <3>2, <3>3
  <2>2. ASSUME NEW x \in answering, AnswerStep(x) PROVE acks' = acks
    BY <2>2 DEF AnswerStep, CallbackEnds, AckIsSent
  <2>3. ASSUME NEW k \in DOMAIN requests, ServerAnswers(k) PROVE acks' = acks
    BY <2>3 DEF ServerAnswers
  <2>4. (UNCHANGED local) => acks' = acks
    BY DEF local
  <2>5. QED BY <2>1, <2>2, <2>3, <2>4, ClientsUntouched
<1>3. acks' \in [Clients -> Seq(ClientAck)] /\ \A d \in Clients : Len(acks[d]) <= Len(acks'[d])
  <2>1. CASE acks' = acks
    <3>1. acks \in [Clients -> Seq(ClientAck)]
      BY <1>1 DEF ClientTypes
    <3>2. \A d \in Clients : Len(acks[d]) \in Nat
      BY <3>1
    <3>3. QED BY <2>1, <3>1, <3>2
  <2>2. QED BY <1>2, <2>1 DEF AcksGrow
<1>4. ASSUME NEW d \in Clients PROVE DOMAIN acks[d] \subseteq DOMAIN acks'[d] /\ Own(d) \subseteq Own(d)'
  <2>1. acks[d] \in Seq(ClientAck) /\ acks'[d] \in Seq(ClientAck) /\ Len(acks[d]) <= Len(acks'[d])
    BY <1>1, <1>3 DEF ClientTypes
  <2>2. DOMAIN acks[d] \subseteq DOMAIN acks'[d]
    BY <2>1
  <2>3. QED BY <2>2 DEF Own
<1>5. QED BY <1>2, <1>3, <1>4

\* The requests become more, and their answers come from acks and from the server.
LEMMA RequestsKeep ==
    ASSUME IInv, Next
    PROVE  /\ RequestsGrow
           /\ DOMAIN requests \subseteq DOMAIN requests' /\ Requested \subseteq Requested'
           /\ \A k \in DOMAIN requests' \ DOMAIN requests :
                 /\ requests'[k].received = {}
                 /\ \E c \in Clients : ReceivesAcked(c) /\ requests'[k].for = Head(up[c]).ack
                                       /\ k = Len(requests) + 1
           /\ \A k \in DOMAIN requests : \A r \in requests'[k].received :
                 \/ r \in requests[k].received
                 \/ \E c \in Clients : /\ ReceivesAck(c) /\ Head(up[c]).ack = Id(Server, k)
                                       /\ r \in Head(up[c]).answers
                 \/ ServerAnswers(k) /\ r = [client |-> Server, ok |-> TRUE]
<1>1. requests \in Seq(Request) /\ ServerTypes
  BY TypeParts DEF IInv, ServerTypes
<1> DEFINE Old == \A k \in DOMAIN requests' \ DOMAIN requests :
                     /\ requests'[k].received = {}
                     /\ \E c \in Clients : ReceivesAcked(c) /\ requests'[k].for = Head(up[c]).ack
                                           /\ k = Len(requests) + 1
           Heard == \A k \in DOMAIN requests : \A r \in requests'[k].received :
                       \/ r \in requests[k].received
                       \/ \E c \in Clients : /\ ReceivesAck(c) /\ Head(up[c]).ack = Id(Server, k)
                                             /\ r \in Head(up[c]).answers
                       \/ ServerAnswers(k) /\ r = [client |-> Server, ok |-> TRUE]
<1>2. ASSUME requests' = requests PROVE RequestsGrow /\ Old /\ Heard
  <2>1. Len(requests) \in Nat
    BY <1>1
  <2>2. QED BY <1>1, <1>2, <2>1 DEF RequestsGrow
<1>3. ASSUME NEW c \in Clients, SessionStep(c) PROVE RequestsGrow /\ Old /\ Heard
  <2>1. CASE ReceivesAcked(c)
    <3>1. /\ RequestsGrow /\ DOMAIN requests' = DOMAIN requests \cup {Len(requests) + 1}
          /\ \A j \in DOMAIN requests : requests'[j] = requests[j]
          /\ requests'[Len(requests) + 1].for = Head(up[c]).ack
          /\ requests'[Len(requests) + 1].received = {}
      BY <2>1, AckedReceived
    <3>2. QED BY <2>1, <3>1
  <2>2. CASE ReceivesAck(c)
    <3>1. up[c] # <<>> /\ Head(up[c]).action = "ack"
      BY <2>2 DEF ReceivesAck, Receives
    <3>2. Head(up[c]).answers \in SUBSET Answer /\ \A r \in Head(up[c]).answers : r.client = c
      BY <3>1, HeadReceived, Messages DEF UpMessage
    <3>3. /\ RequestsGrow /\ DOMAIN requests' = DOMAIN requests
          /\ \A k \in DOMAIN requests : \A r \in requests'[k].received :
                \/ r \in requests[k].received
                \/ Head(up[c]).ack = Id(Server, k) /\ r \in Head(up[c]).answers
      BY <1>1, <2>2, <3>2, AckReceived
    <3>4. QED BY <2>2, <3>3
  <2>3. CASE ReceivesQuestion(c)
    <3>1. /\ RequestsGrow /\ DOMAIN requests' = DOMAIN requests
          /\ \A k \in DOMAIN requests : requests'[k].received = requests[k].received
      BY <1>1, <2>3, QuestionReceived
    <3>2. QED BY <3>1
  <2>4. CASE ~ReceivesAcked(c) /\ ~ReceivesAck(c) /\ ~ReceivesQuestion(c)
    <3>1. requests' = requests
      BY <1>3, <2>4 DEF SessionStep, ReceivesPing, PingLists, ReceivesSubscribe, ReceivesPublish, Push,
                        Reply, ReceivesRelay, RelayEnds, SessionEnds, bus
    <3>2. QED BY <1>2, <3>1
  <2>5. QED BY <2>1, <2>2, <2>3, <2>4
<1>4. ASSUME NEW k \in DOMAIN requests, RequestStep(k) PROVE RequestsGrow /\ Old /\ Heard
  <2>1. /\ RequestsGrow /\ DOMAIN requests' = DOMAIN requests
        /\ \A j \in DOMAIN requests :
              \/ requests'[j].received \subseteq requests[j].received
              \/ j = k /\ ServerAnswers(k)
                 /\ requests'[j].received = {[client |-> Server, ok |-> TRUE]}
    BY <1>1, <1>4, RequestStepped
  <2>2. QED BY <2>1
<1>5. ASSUME NEW x \in tasks, TaskRuns(x) \/ TaskIsLeft(x) PROVE requests' = requests
  BY <1>5 DEF TaskRuns, TaskIsLeft
<1>6. ASSUME StopStep \/ StopBegins PROVE requests' = requests
  BY <1>6 DEF StopStep, StopCloses, StopDrains, StopClosesBus, StopEnds, StopBegins, bus
<1>7. RequestsGrow /\ Old /\ Heard
  <2> HIDE DEF Old, Heard
  <2>1. QED BY <1>2, <1>3, <1>4, <1>5, <1>6, ServerUntouched
<1>8. DOMAIN requests \subseteq DOMAIN requests'
  <2>1. requests' \in Seq(Request) /\ Len(requests) <= Len(requests')
    BY <1>7 DEF RequestsGrow
  <2>2. QED BY <1>1, <2>1
<1>9. Requested \subseteq Requested'
  BY <1>8 DEF Requested
<1>10. QED BY <1>7, <1>8, <1>9

\* What ended has ended.
LEMMA RanKeeps ==
    ASSUME IInv, Next
    PROVE  ran \subseteq ran'
<1>1. ASSUME NEW c \in Clients, SenderStep(c) \/ HandlerStep(c) PROVE ran' = ran
  BY <1>1 DEF SenderStep, SenderWrites, SenderFails, HandlerStep, HearsPublish, HearsPublishAck,
              HearsAnswer, HearsOther, Hears, HandlerSends, HandlerEnds
<1>2. ASSUME NEW c \in Clients, CallBegins(c) \/ CallStep(c) PROVE ran' = ran
  <2>1. CASE CallBegins(c)
    BY <2>1 DEF CallBegins, CallSimple, CallAcked, CallWait, CallCancel, CallGetStatus, CallClose, Calls
  <2>2. CASE CallStep(c)
    BY <2>2 DEF CallStep, AppSends, WaitReturns, WaitTimeout, CancelEnds, StatusReturns, CloseEnds
  <2>3. QED BY <1>2, <2>1, <2>2
<1>3. ASSUME NEW x \in answering, AnswerStep(x) PROVE ran \subseteq ran'
  BY <1>3 DEF AnswerStep, CallbackEnds, AckIsSent
<1>4. ASSUME NEW k \in DOMAIN requests, ServerAnswers(k) PROVE ran \subseteq ran'
  BY <1>4 DEF ServerAnswers
<1>5. (UNCHANGED local) => ran' = ran
  BY DEF local
<1>6. QED BY <1>1, <1>2, <1>3, <1>4, <1>5, ClientsUntouched

-----------------------------------------------------------------------------
(* Questions *)

\* No message of the set comes into a sequence.
Quiet(q, p, S) == (Has(p, S) => Has(q, S)) /\ (AtMostOne(q, S) => AtMostOne(p, S))

\* A message is appended to the sequence of one client.
LEMMA Pushed ==
    ASSUME NEW f \in [Clients -> Seq(Message)], NEW g, NEW c \in Clients, NEW m \in Message,
           g = [f EXCEPT ![c] = Append(f[c], m)], NEW d \in Clients, NEW S
    PROVE  /\ d # c => g[d] = f[d]
           /\ d # c \/ m \notin S => Quiet(f[d], g[d], S)
           /\ ~Has(f[d], S) => AtMostOne(g[d], S)
           /\ Has(f[d], S) => Has(g[d], S)
           /\ Has(g[d], S) => Has(f[d], S) \/ (d = c /\ m \in S)
           /\ \A i \in DOMAIN g[d] : (d = c /\ g[d][i] = m) \/ \E j \in DOMAIN f[d] : g[d][i] = f[d][j]
<1>1. f[c] \in Seq(Message) /\ g[c] = Append(f[c], m) /\ (d # c => g[d] = f[d])
  OBVIOUS
<1>2. /\ \A i \in DOMAIN g[c] : g[c][i] = m \/ (i \in DOMAIN f[c] /\ g[c][i] = f[c][i])
      /\ Has(g[c], S) <=> Has(f[c], S) \/ m \in S
      /\ AtMostOne(f[c], S) /\ (m \in S => ~Has(f[c], S)) => AtMostOne(g[c], S)
  BY <1>1, Appended
<1>3. ~Has(f[d], S) => AtMostOne(f[d], S)
  BY DEF Has, AtMostOne
<1>4. QED BY <1>1, <1>2, <1>3 DEF Quiet

\* No question for d about request k comes to another place.
Rests(d, k) ==
    /\ \A x \in tasks' : x.to = d /\ x.msg \in AskFor(k) => x \in tasks
    /\ Quiet(ring[d], ring'[d], AskFor(k)) /\ Quiet(down[d], down'[d], AskFor(k))
    /\ Running(d, k)' => Running(d, k)
    /\ Succeeded(d, k)' => Succeeded(d, k)

Stays(d, k) == /\ QuestionIsInOnePlace(d, k) => QuestionIsInOnePlace(d, k)'
               /\ k \in DOMAIN requests /\ Lost(d, k) => Lost(d, k)'

\* Such a step loses no question and finds none.
LEMMA RestIsSafe ==
    ASSUME NEW d, NEW k, Rests(d, k)
    PROVE  Stays(d, k)
<1>1. Tasked(d, k)' => Tasked(d, k)
  BY DEF Rests, Tasked
<1>2. QED BY <1>1 DEF Rests, Stays, Quiet, QuestionIsInOnePlace, Lost

\* Steps that touch no question.
LEMMA Unmoved ==
    ASSUME UNCHANGED <<tasks, ring, down, answering, ran>>, NEW d, NEW k
    PROVE  Stays(d, k)
<1>1. Rests(d, k)
  BY DEF Rests, Quiet, Running, Succeeded
<1>2. QED BY <1>1, RestIsSafe

\* Numbers tell requests apart, names and numbers the calls of clients.
LEMMA Ids ==
    /\ \A a, b, i, j : Id(a, i) = Id(b, j) <=> a = b /\ i = j
    /\ \A k : \A m \in AskFor(k) : m.action = "publish_ack" /\ m.ack = Id(Server, k)
    /\ \A k : \A m \in Message : m.action = "publish_ack" /\ m.ack = Id(Server, k) => m \in AskFor(k)
    /\ \A c, n : \A m \in CallOf(c, n) : m.action \in Acked /\ m.ack = Id(c, n)
    /\ \A c, n : \A m \in Message : m.action \in Acked /\ m.ack = Id(c, n) => m \in CallOf(c, n)
<1>1. \A a, b, i, j : Id(a, i) = Id(b, j) <=> a = b /\ i = j
  BY DEF Id
<1>2. QED BY <1>1 DEF AskFor, CallOf

\* The places where questions are, and the types of what is there.
LEMMA Places ==
    ASSUME IInv
    PROVE  /\ node \in [Clients -> Node] /\ up \in [Clients -> Seq(Message)]
           /\ down \in [Clients -> Seq(Message)] /\ ring \in [Clients -> Seq(Message)]
           /\ requests \in Seq(Request) /\ tasks \subseteq [to : Clients, msg : Message]
           /\ answering \subseteq Answering /\ wsConns \subseteq Clients
           /\ session \in [Clients -> Session] /\ acks \in [Clients -> Seq(ClientAck)]
           /\ app \in [Clients -> App] /\ handler \in [Clients -> Handler]
           /\ \A k \in DOMAIN requests : k \in Nat
BY TypeParts DEF IInv, ClientTypes, LinkTypes, ServerTypes

\* What is first in a link or a ring is taken off.
LEMMA UpPopped ==
    ASSUME IInv, NEW c \in Clients, up[c] # <<>>, up' = [up EXCEPT ![c] = Tail(up[c])],
           NEW d \in Clients, NEW S
    PROVE  /\ d # c => up'[d] = up[d]
           /\ Quiet(up[d], up'[d], S)
           /\ Head(up[c]) \in Message /\ (Head(up[c]) \in S => Has(up[c], S))
           /\ AtMostOne(up[c], S) /\ Head(up[c]) \in S => ~Has(up'[c], S)
           /\ \E j \in DOMAIN up[c] : Head(up[c]) = up[c][j]
           /\ \A i \in DOMAIN up'[d] : \E j \in DOMAIN up[d] : up'[d][i] = up[d][j]
<1>1. up[c] \in Seq(Message) /\ up'[c] = Tail(up[c]) /\ (d # c => up'[d] = up[d])
  BY Places
<1>2. QED BY <1>1, TakenOff DEF Quiet

\* A message is taken off a connection to a client.
LEMMA DownPopped ==
    ASSUME IInv, NEW c \in Clients, down[c] # <<>>, down' = [down EXCEPT ![c] = Tail(down[c])],
           NEW d \in Clients, NEW S
    PROVE  /\ d # c => down'[d] = down[d]
           /\ Quiet(down[d], down'[d], S)
           /\ Head(down[c]) \in Message /\ (Head(down[c]) \in S => Has(down[c], S))
           /\ AtMostOne(down[c], S) /\ Head(down[c]) \in S => ~Has(down'[c], S)
           /\ \E j \in DOMAIN down[c] : Head(down[c]) = down[c][j]
           /\ \A i \in DOMAIN down'[d] : \E j \in DOMAIN down[d] : down'[d][i] = down[d][j]
<1>1. down[c] \in Seq(Message) /\ down'[c] = Tail(down[c]) /\ (d # c => down'[d] = down[d])
  BY Places
<1>2. QED BY <1>1, TakenOff DEF Quiet

\* A message is taken off the ring of a BatchWriter.
LEMMA RingPopped ==
    ASSUME IInv, NEW c \in Clients, ring[c] # <<>>, ring' = [ring EXCEPT ![c] = Tail(ring[c])],
           NEW d \in Clients, NEW S
    PROVE  /\ d # c => ring'[d] = ring[d]
           /\ Quiet(ring[d], ring'[d], S)
           /\ Head(ring[c]) \in Message /\ (Head(ring[c]) \in S => Has(ring[c], S))
           /\ AtMostOne(ring[c], S) /\ Head(ring[c]) \in S => ~Has(ring'[c], S)
           /\ \E j \in DOMAIN ring[c] : Head(ring[c]) = ring[c][j]
           /\ \A i \in DOMAIN ring'[d] : \E j \in DOMAIN ring[d] : ring'[d][i] = ring[d][j]
<1>1. ring[c] \in Seq(Message) /\ ring'[c] = Tail(ring[c]) /\ (d # c => ring'[d] = ring[d])
  BY Places
<1>2. QED BY <1>1, TakenOff DEF Quiet

\* The handler of a client takes a message and asks nobody.
LEMMA HearingMovesNothing ==
    ASSUME IInv, NEW c \in Clients, NEW S, Hears(c, S), UNCHANGED answering,
           NEW d \in Clients, NEW k
    PROVE  Stays(d, k)
<1>1. down[c] # <<>> /\ down' = [down EXCEPT ![c] = Tail(down[c])] /\ UNCHANGED <<tasks, ring, ran>>
  BY DEF Hears, bus
<1>2. Quiet(down[d], down'[d], AskFor(k))
  BY <1>1, DownPopped
<1>3. Rests(d, k)
  BY <1>1, <1>2 DEF Rests, Quiet, Running, Succeeded
<1>4. QED BY <1>3, RestIsSafe

\* It takes a question and begins to answer it.
LEMMA QuestionIsHeard ==
    ASSUME IInv, NEW c \in Clients, HearsPublishAck(c), NEW d \in Clients, NEW k
    PROVE  Stays(d, k)
<1> DEFINE m == Head(down[c])
           x == [client |-> c, ack |-> m.ack, at |-> "callback", ok |-> FALSE]
<1>1. /\ down[c] # <<>> /\ m.action = "publish_ack"
      /\ down' = [down EXCEPT ![c] = Tail(down[c])] /\ UNCHANGED <<tasks, ring, ran>>
  BY DEF HearsPublishAck, Hears, bus
<1>2. CASE UNCHANGED answering
  <2>1. Hears(c, {"publish_ack"})
    BY DEF HearsPublishAck
  <2>2. QED BY <1>2, <2>1, HearingMovesNothing
<1>3. CASE answering' = answering \cup {x}
  <2>1. /\ Quiet(down[d], down'[d], AskFor(k)) /\ m \in Message
        /\ m \in AskFor(k) => Has(down[c], AskFor(k))
        /\ AtMostOne(down[c], AskFor(k)) /\ m \in AskFor(k) => ~Has(down'[c], AskFor(k))
    BY <1>1, DownPopped
  <2>2. CASE d = c /\ m \in AskFor(k)
    <3>1. Has(down[d], AskFor(k))
      BY <2>1, <2>2
    <3>2. ~Lost(d, k)
      BY <3>1 DEF Lost
    <3>3. ASSUME QuestionIsInOnePlace(d, k) PROVE QuestionIsInOnePlace(d, k)'
      <4>1. ~Has(down'[d], AskFor(k)) /\ AtMostOne(down'[d], AskFor(k))
        BY <2>1, <2>2, <3>3 DEF QuestionIsInOnePlace, Quiet
      <4>2. ~Tasked(d, k)' /\ ~Has(ring'[d], AskFor(k)) /\ ~Succeeded(d, k)'
        BY <1>1, <3>1, <3>3 DEF QuestionIsInOnePlace, Tasked, Succeeded
      <4>3. QED BY <1>1, <3>3, <4>1, <4>2 DEF QuestionIsInOnePlace
    <3>4. QED BY <3>2, <3>3 DEF Stays
  <2>3. CASE d # c \/ m \notin AskFor(k)
    <3>1. Running(d, k)' => Running(d, k)
      <4>1. x # [client |-> d, ack |-> Id(Server, k), at |-> "callback", ok |-> FALSE]
        BY <1>1, <2>1, <2>3, Ids
      <4> HIDE DEF x
      <4>2. QED BY <1>3, <4>1 DEF Running
    <3>2. Rests(d, k)
      BY <1>1, <2>1, <3>1 DEF Rests, Quiet, Succeeded
    <3>3. QED BY <3>2, RestIsSafe
  <2>4. QED BY <2>2, <2>3
<1>4. QED BY <1>2, <1>3 DEF HearsPublishAck

\* The writer of a connection sends what is first in the ring, or gives up.
LEMMA WriterMovesQuestion ==
    ASSUME IInv, NEW c \in Clients, WriterWrites(c), NEW d \in Clients, NEW k
    PROVE  Stays(d, k)
<1> DEFINE m == Head(ring[c])  asks == AskFor(k)
<1>1. ring[c] # <<>> /\ UNCHANGED <<tasks, answering, ran>>
  BY DEF WriterWrites, local
<1>2. CASE ring' = [ring EXCEPT ![c] = <<>>] /\ UNCHANGED down
  <2>1. ring'[d] = ring[d] \/ ring'[d] = <<>>
    BY <1>2, Places
  <2>2. Quiet(ring[d], ring'[d], asks)
    BY <2>1 DEF Quiet, Has, AtMostOne
  <2>3. Rests(d, k)
    BY <1>1, <1>2, <2>2 DEF Rests, Quiet, Running, Succeeded
  <2>4. QED BY <2>3, RestIsSafe
<1>3. CASE ring' = [ring EXCEPT ![c] = Tail(ring[c])] /\ down' = [down EXCEPT ![c] = Append(down[c], m)]
  <2>1. /\ Quiet(ring[d], ring'[d], asks) /\ m \in Message
        /\ m \in asks => Has(ring[c], asks)
        /\ AtMostOne(ring[c], asks) /\ m \in asks => ~Has(ring'[c], asks)
    BY <1>1, <1>3, RingPopped
  <2>2. /\ d # c \/ m \notin asks => Quiet(down[d], down'[d], asks)
        /\ ~Has(down[d], asks) => AtMostOne(down'[d], asks)
    BY <1>3, <2>1, Places, Pushed
  <2>3. CASE d = c /\ m \in asks
    <3>1. Has(ring[d], asks)
      BY <2>1, <2>3
    <3>2. ~Lost(d, k)
      BY <3>1 DEF Lost
    <3>3. ASSUME QuestionIsInOnePlace(d, k) PROVE QuestionIsInOnePlace(d, k)'
      <4>1. ~Has(ring'[d], asks) /\ AtMostOne(ring'[d], asks)
        BY <2>1, <2>3, <3>3 DEF QuestionIsInOnePlace, Quiet
      <4>2. ~Tasked(d, k)' /\ ~Running(d, k)' /\ ~Succeeded(d, k)' /\ AtMostOne(down'[d], asks)
        BY <1>1, <2>2, <3>1, <3>3 DEF QuestionIsInOnePlace, Tasked, Succeeded, Running
      <4>3. QED BY <1>1, <3>3, <4>1, <4>2 DEF QuestionIsInOnePlace
    <3>4. QED BY <3>2, <3>3 DEF Stays
  <2>4. CASE d # c \/ m \notin asks
    <3>1. Rests(d, k)
      BY <1>1, <2>1, <2>2, <2>4 DEF Rests, Running, Succeeded
    <3>2. QED BY <3>1, RestIsSafe
  <2>5. QED BY <2>3, <2>4
<1>4. QED BY <1>2, <1>3 DEF WriterWrites

\* What is sent through a ring, or in place of one, and is no question.
LEMMA SendingMovesNothing ==
    ASSUME IInv, NEW c \in Clients, NEW m \in Message, m.action # "publish_ack",
           (SendToWebSocket(c, m) /\ UNCHANGED down) \/ SendResponse(c, m),
           UNCHANGED <<answering, ran>>, tasks' \subseteq tasks,
           NEW d \in Clients, NEW k
    PROVE  Stays(d, k)
<1>1. \/ UNCHANGED <<ring, down>>
      \/ ring' = [ring EXCEPT ![c] = Append(ring[c], m)] /\ UNCHANGED down
      \/ down' = [down EXCEPT ![c] = Append(down[c], m)] /\ UNCHANGED ring
  BY Places, PushFacts, ResponseFacts
<1>2. m \notin AskFor(k)
  BY Ids
<1>3. Quiet(ring[d], ring'[d], AskFor(k)) /\ Quiet(down[d], down'[d], AskFor(k))
  <2>1. \A q : Quiet(q, q, AskFor(k))
    BY DEF Quiet
  <2>2. CASE ring' = [ring EXCEPT ![c] = Append(ring[c], m)] /\ UNCHANGED down
    BY <1>2, <2>1, <2>2, Places, Pushed
  <2>3. CASE down' = [down EXCEPT ![c] = Append(down[c], m)] /\ UNCHANGED ring
    BY <1>2, <2>1, <2>3, Places, Pushed
  <2>4. QED BY <1>1, <2>1, <2>2, <2>3
<1>4. Rests(d, k)
  BY <1>3 DEF Rests, Running, Succeeded
<1>5. QED BY <1>4, RestIsSafe

\* A request that there is not yet has no questions.
LEMMA FreshIsLost ==
    ASSUME IInv, NEW d \in Clients, NEW k, k \notin DOMAIN requests
    PROVE  Lost(d, k)
<1>1. Id(Server, k) \notin Requested
  BY Ids DEF Requested
<1>2. ASSUME NEW c \in Clients, NEW m \in AskFor(k) PROVE ~DownMessage(c, m)
  <2>1. m.action = "publish_ack" /\ m.ack = Id(Server, k)
    BY Ids
  <2>2. QED BY <1>1, <2>1 DEF DownMessage
<1>3. ~Tasked(d, k)
  BY <1>2 DEF Tasked, IInv, DownTraffic
<1>4. ~Has(ring[d], AskFor(k)) /\ ~Has(down[d], AskFor(k))
  BY <1>2 DEF Has, IInv, DownTraffic
<1>5. ~Running(d, k) /\ ~Succeeded(d, k)
  <2>1. \A x \in answering : x.ack \in Requested
    BY DEF IInv, Answers
  <2>2. \A e \in ran : e.ack \in Requested
    BY DEF IInv, Answers
  <2>3. QED BY <1>1, <2>1, <2>2 DEF Running, Succeeded
<1>6. QED BY <1>3, <1>4, <1>5 DEF Lost

\* What is nowhere is in one place.
LEMMA LostIsInOnePlace ==
    ASSUME NEW d, NEW k, Lost(d, k)
    PROVE  QuestionIsInOnePlace(d, k)
BY DEF Lost, QuestionIsInOnePlace, Tasked, Has, AtMostOne

\* A session makes a request: its questions are with the workers.
LEMMA AskingMovesQuestion ==
    ASSUME IInv, NEW c \in Clients, ReceivesAcked(c), NEW d \in Clients, NEW k \in Nat
    PROVE  Stays(d, k)
<1> DEFINE n == Len(requests) + 1  ask == Msg("publish_ack", Head(up[c]).about, Id(Server, n), {})
<1>1. UNCHANGED <<ring, down, answering, ran>>
  BY DEF ReceivesAcked, Receives, local
<1>2. /\ n \notin DOMAIN requests
      /\ ask \in Message
      /\ \A x \in tasks' : x \in tasks \/ (x.to \in Clients /\ x.msg = ask /\ x = [to |-> x.to, msg |-> x.msg])
  BY AckedReceived, Zenon
<1>3. ask.action = "publish_ack" /\ ask.ack = Id(Server, n)
  BY DEF Msg
<1> HIDE DEF n, ask
<1>4. CASE k = n
  <2>1. Lost(d, k)
    BY <1>2, <1>4, FreshIsLost
  <2>2. \A x \in tasks' : x.to = d /\ x.msg \in AskFor(k) => x = [to |-> d, msg |-> ask]
    BY <1>2, <2>1 DEF Lost, Tasked
  <2>3. QuestionIsInOnePlace(d, k)
    BY <2>1, LostIsInOnePlace
  <2>4. QuestionIsInOnePlace(d, k)'
    BY <1>1, <2>1, <2>2, <2>3 DEF QuestionIsInOnePlace, Lost, Running, Succeeded
  <2>5. QED BY <1>2, <1>4, <2>4 DEF Stays
<1>5. CASE k # n
  <2>1. ask \notin AskFor(k)
    BY <1>3, <1>5, Ids
  <2>2. Rests(d, k)
    BY <1>1, <1>2, <2>1 DEF Rests, Quiet, Running, Succeeded
  <2>3. QED BY <2>2, RestIsSafe
<1>6. QED BY <1>4, <1>5

\* A worker takes a question to the ring of who is asked.
LEMMA WorkerMovesQuestion ==
    ASSUME IInv, NEW x \in tasks, TaskRuns(x) \/ TaskIsLeft(x), NEW d \in Clients, NEW k
    PROVE  Stays(d, k)
<1> DEFINE asks == AskFor(k)
<1>1. tasks' = tasks \ {x} /\ UNCHANGED <<answering, ran>>
  BY DEF TaskRuns, TaskIsLeft, local
<1>2. x.to \in Clients /\ x.msg \in Message
  BY Places
<1>3. CASE TaskIsLeft(x)
  <2>1. Rests(d, k)
    BY <1>1, <1>3 DEF TaskIsLeft, links, Rests, Quiet, Running, Succeeded
  <2>2. QED BY <2>1, RestIsSafe
<1>4. CASE TaskRuns(x) /\ x.msg.action # "publish_ack"
  <2>1. (SendToWebSocket(x.to, x.msg) /\ UNCHANGED down) \/ SendResponse(x.to, x.msg)
    BY <1>4 DEF TaskRuns
  <2>2. tasks' \subseteq tasks
    BY <1>1
  <2>3. QED BY <1>1, <1>2, <1>4, <2>1, <2>2, SendingMovesNothing
<1>5. CASE TaskRuns(x) /\ x.msg.action = "publish_ack"
  <2>1. SendToWebSocket(x.to, x.msg) /\ UNCHANGED down
    BY <1>5 DEF TaskRuns
  <2>2. UNCHANGED ring \/ ring' = [ring EXCEPT ![x.to] = Append(ring[x.to], x.msg)]
    BY <1>2, <2>1, Places, PushFacts
  <2>3. /\ d # x.to \/ x.msg \notin asks => Quiet(ring[d], ring'[d], asks)
        /\ ~Has(ring[d], asks) => AtMostOne(ring'[d], asks)
    <3>1. CASE UNCHANGED ring
      BY <3>1 DEF Quiet, Has, AtMostOne
    <3>2. CASE ring' = [ring EXCEPT ![x.to] = Append(ring[x.to], x.msg)]
      BY <1>2, <3>2, Places, Pushed
    <3>3. QED BY <2>2, <3>1, <3>2
  <2>4. CASE d = x.to /\ x.msg \in asks
    <3>1. Tasked(d, k) /\ ~Lost(d, k)
      BY <2>4 DEF Tasked, Lost
    <3>2. ASSUME QuestionIsInOnePlace(d, k) PROVE QuestionIsInOnePlace(d, k)'
      <4>1. ~Tasked(d, k)'
        BY <1>1, <2>4, <3>2 DEF QuestionIsInOnePlace, Tasked
      <4>2. AtMostOne(ring'[d], asks)
        BY <2>3, <3>1, <3>2 DEF QuestionIsInOnePlace
      <4>3. ~Has(down'[d], asks) /\ ~Running(d, k)' /\ ~Succeeded(d, k)' /\ AtMostOne(down'[d], asks)
        BY <1>1, <2>1, <3>1, <3>2 DEF QuestionIsInOnePlace, Running, Succeeded
      <4>4. QED BY <1>1, <3>2, <4>1, <4>2, <4>3 DEF QuestionIsInOnePlace
    <3>3. QED BY <3>1, <3>2 DEF Stays
  <2>5. CASE d # x.to \/ x.msg \notin asks
    <3>1. Rests(d, k)
      BY <1>1, <2>1, <2>3, <2>5 DEF Rests, Quiet, Running, Succeeded
    <3>2. QED BY <3>1, RestIsSafe
  <2>6. QED BY <2>4, <2>5
<1>6. QED BY <1>3, <1>4, <1>5

\* A callback ends, or its ack is sent.
LEMMA AnsweringMovesQuestion ==
    ASSUME IInv, NEW x \in answering, AnswerStep(x), NEW d \in Clients, NEW k
    PROVE  Stays(d, k)
<1> DEFINE run == [client |-> d, ack |-> Id(Server, k), at |-> "callback", ok |-> FALSE]
           won == [client |-> d, ack |-> Id(Server, k), ok |-> TRUE]
<1>1. UNCHANGED <<tasks, ring, down>>
  BY DEF AnswerStep, CallbackEnds, AckIsSent, links, bus
<1>2. x \in Answering /\ (x.at = "callback" => ~x.ok)
  BY Places DEF IInv, Answers
<1>3. CASE AckIsSent(x)
  <2>1. Rests(d, k)
    BY <1>1, <1>3 DEF AckIsSent, Rests, Quiet, Running, Succeeded
  <2>2. QED BY <2>1, RestIsSafe
<1>4. ASSUME NEW ok \in BOOLEAN, CallbackEnds(x, ok) PROVE Stays(d, k)
  <2> DEFINE y == [x EXCEPT !.at = "send", !.ok = ok]
             e == [client |-> x.client, ack |-> x.ack, ok |-> ok]
  <2>1. x.at = "callback" /\ answering' = (answering \ {x}) \cup {y} /\ ran' = ran \cup {e}
    BY <1>4 DEF CallbackEnds, Outcome
  <2>2. y # run
    <3>1. y.at = "send"
      BY <1>2 DEF Answering
    <3>2. run.at = "callback"
      OBVIOUS
    <3> HIDE DEF y, run
    <3>3. QED BY <3>1, <3>2
  <2>3. Running(d, k)' => Running(d, k) /\ x # run
    <3> HIDE DEF y, e
    <3>1. QED BY <2>1, <2>2 DEF Running
  <2>4. CASE e = won
    <3>1. x = run
      <4>1. x.client = d /\ x.ack = Id(Server, k) /\ x.at = "callback" /\ x.ok = FALSE
        BY <1>2, <2>1, <2>4 DEF Answering
      <4>2. QED BY <1>2, <4>1 DEF Answering
    <3>2. Running(d, k) /\ ~Lost(d, k) /\ ~Running(d, k)'
      BY <2>3, <3>1 DEF Running, Lost
    <3>3. QuestionIsInOnePlace(d, k) => QuestionIsInOnePlace(d, k)'
      BY <1>1, <3>2 DEF QuestionIsInOnePlace, Tasked
    <3>4. QED BY <3>2, <3>3 DEF Stays
  <2>5. CASE e # won
    <3>1. Succeeded(d, k)' => Succeeded(d, k)
      <4> HIDE DEF e
      <4>1. QED BY <2>1, <2>5 DEF Succeeded
    <3>2. Rests(d, k)
      BY <1>1, <2>3, <3>1 DEF Rests, Quiet
    <3>3. QED BY <3>2, RestIsSafe
  <2>6. QED BY <2>4, <2>5
<1>5. QED BY <1>3, <1>4 DEF AnswerStep

\* The server answers, or the wait for a request ends.
LEMMA RequestMovesNothing ==
    ASSUME IInv, NEW j \in DOMAIN requests, RequestStep(j), NEW d \in Clients, NEW k
    PROVE  Stays(d, k)
<1>1. UNCHANGED <<ring, down, answering>>
  BY DEF RequestStep, ServerAnswers, WaitEnds, links, local
<1>2. CASE ServerAnswers(j)
  <2> DEFINE e == [client |-> Server, ack |-> Id(Server, j), ok |-> TRUE]
  <2>1. ran' = ran \cup {e} /\ UNCHANGED tasks
    BY <1>2 DEF ServerAnswers
  <2>2. e # [client |-> d, ack |-> Id(Server, k), ok |-> TRUE]
    BY SessionsAssumption
  <2> HIDE DEF e
  <2>3. Rests(d, k)
    BY <1>1, <2>1, <2>2 DEF Rests, Quiet, Running, Succeeded
  <2>4. QED BY <2>3, RestIsSafe
<1>3. CASE WaitEnds(j)
  <2> DEFINE r == requests[j]
  <2>1. UNCHANGED ran /\ \E got \in SUBSET r.received :
           tasks' = tasks \cup {[to |-> r.for.by, msg |-> Msg("ack_response", None, r.for, got)]}
    BY <1>3 DEF WaitEnds, local
  <2>2. \A got : Msg("ack_response", None, r.for, got) \notin AskFor(k)
    BY DEF AskFor, Msg
  <2> HIDE DEF r
  <2>3. Rests(d, k)
    BY <1>1, <2>1, <2>2 DEF Rests, Quiet, Running, Succeeded
  <2>4. QED BY <2>3, RestIsSafe
<1>4. QED BY <1>2, <1>3 DEF RequestStep

\* Every step leaves a question in one place, and one that is lost is lost for ever.
LEMMA QuestionsStay ==
    ASSUME IInv, Next, NEW d \in Clients, NEW k \in Nat
    PROVE  Stays(d, k)
<1>1. ASSUME NEW c \in Clients, SenderStep(c) PROVE UNCHANGED <<tasks, ring, down, answering, ran>>
  BY <1>1 DEF SenderStep, SenderWrites, SenderFails, bus, links
<1>2. ASSUME NEW c \in Clients, CallBegins(c) \/ CallStep(c) PROVE UNCHANGED <<tasks, ring, down, answering, ran>>
  <2>1. CASE CallBegins(c)
    <3>1. \E S : Calls(c, S)
      BY <2>1 DEF CallBegins, CallSimple, CallAcked, CallWait, CallCancel, CallGetStatus, CallClose
    <3>2. QED BY <3>1 DEF Calls, bus, links
  <2>2. CASE CallStep(c)
    BY <2>2 DEF CallStep, AppSends, WaitReturns, WaitTimeout, CancelEnds, StatusReturns, CloseEnds, bus, links
  <2>3. QED BY <1>2, <2>1, <2>2
<1>3. ASSUME NEW c \in Clients, HandlerStep(c) PROVE Stays(d, k)
  <2>1. CASE HandlerSends(c) \/ HandlerEnds(c)
    <3>1. UNCHANGED <<tasks, ring, down, answering, ran>>
      BY <2>1 DEF HandlerSends, HandlerEnds, bus, links
    <3>2. QED BY <3>1, Unmoved
  <2>2. CASE HearsPublishAck(c)
    BY <2>2, QuestionIsHeard
  <2>3. CASE HearsPublish(c) \/ HearsAnswer(c) \/ HearsOther(c)
    <3>1. UNCHANGED answering /\ \E S : Hears(c, S)
      BY <2>3 DEF HearsPublish, HearsAnswer, HearsOther
    <3>2. QED BY <3>1, HearingMovesNothing
  <2>4. QED BY <1>3, <2>1, <2>2, <2>3 DEF HandlerStep
<1>4. ASSUME NEW c \in Clients, SessionStep(c) PROVE Stays(d, k)
  <2>1. CASE ReceivesAcked(c)
    BY <2>1, AskingMovesQuestion
  <2>2. CASE Push(c)
    <3>1. PICK e \in session[c].to : SendToWebSocket(e, session[c].msg)
      BY <2>2 DEF Push
    <3>2. e \in Clients /\ session[c].msg \in Message
      BY Places DEF Session
    <3>3. session[c].msg.action # "publish_ack"
      BY <2>2 DEF Push, IInv, DownTraffic
    <3>4. UNCHANGED <<down, answering, ran, tasks>>
      BY <2>2 DEF Push, links, local
    <3>5. QED BY <3>1, <3>2, <3>3, <3>4, SendingMovesNothing
  <2>3. CASE Reply(c)
    <3>1. UNCHANGED <<answering, ran, tasks>>
      BY <2>3 DEF Reply, local
    <3>2. CASE UNCHANGED <<ring, down>>
      BY <3>1, <3>2, Unmoved
    <3>3. CASE session[c].reply # None /\ SendResponse(c, session[c].reply)
      <4>1. session[c].reply \in Message
        BY <3>3, Places DEF Session
      <4>2. session[c].reply.action # "publish_ack"
        BY <3>3 DEF IInv, DownTraffic
      <4>3. QED BY <3>1, <3>3, <4>1, <4>2, SendingMovesNothing
    <3>4. QED BY <2>3, <3>2, <3>3 DEF Reply
  <2>4. CASE ~ReceivesAcked(c) /\ ~Push(c) /\ ~Reply(c)
    <3>1. UNCHANGED <<tasks, ring, down, answering, ran>>
      <4>1. CASE PingLists(c) \/ RelayEnds(c) \/ SessionEnds(c)
        <5>1. CASE PingLists(c)
          BY <5>1 DEF PingLists, links, local
        <5>2. CASE RelayEnds(c)
          BY <5>2 DEF RelayEnds, links, local, bus
        <5>3. CASE SessionEnds(c)
          BY <5>3 DEF SessionEnds, local
        <5>4. QED BY <4>1, <5>1, <5>2, <5>3
      <4>2. CASE UNCHANGED tasks /\ \E S : Receives(c, S)
        BY <4>2 DEF Receives, local
      <4>3. QED
        BY <1>4, <2>4, <4>1, <4>2
           DEF SessionStep, ReceivesPing, ReceivesSubscribe, ReceivesPublish, ReceivesRelay, ReceivesAck,
               ReceivesQuestion
    <3>2. QED BY <3>1, Unmoved
  <2>5. QED BY <2>1, <2>2, <2>3, <2>4
<1>5. ASSUME StopBegins \/ StopStep PROVE UNCHANGED <<tasks, ring, down, answering, ran>>
  <2>1. CASE StopBegins \/ StopClosesBus \/ StopEnds
    BY <2>1 DEF StopBegins, StopClosesBus, StopEnds, links, local, bus
  <2>2. CASE \E c \in Clients : StopCloses(c) \/ StopDrains(c)
    BY <2>2 DEF StopCloses, StopDrains, links, local
  <2>3. QED BY <1>5, <2>1, <2>2 DEF StopStep
<1>6. QED
  BY <1>1, <1>2, <1>3, <1>4, <1>5, WriterMovesQuestion, AnsweringMovesQuestion, WorkerMovesQuestion,
     RequestMovesNothing, Unmoved DEF Next

\* Questions, also of the requests that are made, are in one place.
LEMMA QuestionsKept ==
    ASSUME IInv, Next
    PROVE  QuestionsInOnePlace'
<1>1. SUFFICES ASSUME NEW d \in Clients, NEW k \in DOMAIN requests' PROVE QuestionIsInOnePlace(d, k)'
  BY DEF QuestionsInOnePlace
<1>2. k \in Nat
  <2>1. requests' \in Seq(Request)
    BY RequestsKeep DEF RequestsGrow
  <2>2. QED BY <2>1
<1>3. QuestionIsInOnePlace(d, k)
  <2>1. CASE k \in DOMAIN requests
    BY <2>1 DEF IInv, QuestionsInOnePlace
  <2>2. CASE k \notin DOMAIN requests
    BY <2>2, FreshIsLost, LostIsInOnePlace
  <2>3. QED BY <2>1, <2>2
<1>4. QED BY <1>2, <1>3, QuestionsStay DEF Stays

\* What was said stays true, and what was sent stays well-formed.
LEMMA Stable ==
    ASSUME IInv, Next
    PROVE  /\ \A k \in DOMAIN requests : \A r : Told(r, k) => Told(r, k)'
           /\ \A id \in Requested : \A r : AnswerTo(id, r) => AnswerTo(id, r)'
           /\ \A id, r : AnswerFor(id, r) => AnswerFor(id, r)'
           /\ \A c \in Clients : \A m : UpMessage(c, m) => UpMessage(c, m)'
           /\ \A c \in Clients : \A m : DownMessage(c, m) => DownMessage(c, m)'
<1>1. /\ Requested \subseteq Requested' /\ DOMAIN requests \subseteq DOMAIN requests'
      /\ \A k \in DOMAIN requests : requests'[k].for = requests[k].for
      /\ \A c \in Clients : Own(c) \subseteq Own(c)'
  BY RequestsKeep, AcksKeep DEF RequestsGrow
<1>2. ASSUME NEW k \in DOMAIN requests, NEW r, Told(r, k) PROVE Told(r, k)'
  <2>1. CASE r.ok
    <3>1. Succeeded(r.client, k)'
      BY <1>2, <2>1, RanKeeps DEF Told, Succeeded
    <3>2. QED BY <2>1, <3>1 DEF Told
  <2>2. CASE ~r.ok
    <3>1. r.client \in Clients /\ Lost(r.client, k) /\ k \in Nat
      BY <1>2, <2>2, Places DEF Told
    <3>2. Lost(r.client, k)'
      BY <3>1, QuestionsStay DEF Stays
    <3>3. QED BY <2>2, <3>1, <3>2 DEF Told
  <2>3. QED BY <2>1, <2>2
<1>3. ASSUME NEW id \in Requested, NEW r, AnswerTo(id, r) PROVE AnswerTo(id, r)'
  <2>1. SUFFICES ASSUME NEW k \in DOMAIN requests', id = Id(Server, k) PROVE Told(r, k)'
    BY DEF AnswerTo
  <2>2. k \in DOMAIN requests
    BY <2>1, Ids DEF Requested
  <2>3. QED BY <1>2, <1>3, <2>1, <2>2 DEF AnswerTo
<1>4. ASSUME NEW id, NEW r, AnswerFor(id, r) PROVE AnswerFor(id, r)'
  <2>1. PICK k \in DOMAIN requests : requests[k].for = id /\ Told(r, k)
    BY <1>4 DEF AnswerFor
  <2>2. k \in DOMAIN requests' /\ requests'[k].for = id /\ Told(r, k)'
    BY <1>1, <1>2, <2>1
  <2>3. QED BY <2>2 DEF AnswerFor
<1>5. ASSUME NEW c \in Clients, NEW m, UpMessage(c, m) PROVE UpMessage(c, m)'
  BY <1>1, <1>3, <1>5 DEF UpMessage
<1>6. ASSUME NEW c \in Clients, NEW m, DownMessage(c, m) PROVE DownMessage(c, m)'
  BY <1>1, <1>4, <1>6 DEF DownMessage
<1>7. QED BY <1>2, <1>3, <1>4, <1>5, <1>6

-----------------------------------------------------------------------------
(* From the applications to the sessions *)

AckMsg(x) == Msg("ack", None, x.ack, {[client |-> x.client, ok |-> x.ok]})

\* What a step does to the messageQueue of a client.
LEMMA QueueSteps ==
    ASSUME IInv, Next, NEW d \in Clients
    PROVE  \/ node'[d].queue = node[d].queue
           \/ /\ SenderWrites(d) \/ SenderFails(d)
              /\ node[d].queue # <<>> /\ node'[d].queue = Tail(node[d].queue)
           \/ AppSends(d) /\ node'[d].queue = Append(node[d].queue, app[d].msg)
           \/ HandlerSends(d) /\ node'[d].queue = Append(node[d].queue, handler[d].msg)
           \/ \E x \in answering : /\ AckIsSent(x) /\ x.client = d
                                   /\ node'[d].queue = Append(node[d].queue, AckMsg(x))
<1> DEFINE Goal == \/ node'[d].queue = node[d].queue
                   \/ /\ SenderWrites(d) \/ SenderFails(d)
                      /\ node[d].queue # <<>> /\ node'[d].queue = Tail(node[d].queue)
                   \/ AppSends(d) /\ node'[d].queue = Append(node[d].queue, app[d].msg)
                   \/ HandlerSends(d) /\ node'[d].queue = Append(node[d].queue, handler[d].msg)
                   \/ \E x \in answering : /\ AckIsSent(x) /\ x.client = d
                                           /\ node'[d].queue = Append(node[d].queue, AckMsg(x))
<1>1. /\ node \in [Clients -> Node] /\ \A c \in Clients : node[c] \in Node /\ node[c].queue \in Seq(Message)
      /\ \A c \in Clients : app[c].msg \in Message /\ handler[c].msg \in Message
      /\ \A x \in answering : x.client \in Clients /\ AckMsg(x) \in Message
  <2>1. \A c \in Clients : node[c] \in Node /\ app[c] \in App /\ handler[c] \in Handler
    BY Places
  <2>2. ASSUME NEW x \in answering PROVE x.client \in Clients /\ AckMsg(x) \in Message
    <3>1. x \in Answering
      BY Places
    <3>2. x.client \in Clients /\ x.ack \in AckId /\ {[client |-> x.client, ok |-> x.ok]} \in SUBSET Answer
      BY <3>1 DEF Answering, Answer
    <3>3. QED BY <3>2, Messages DEF AckMsg, Actions
  <2>3. QED BY <2>1, <2>2, Places DEF Node, App, Handler
<1>2. ASSUME NEW c \in Clients, SenderStep(c) PROVE Goal
  <2>1. CASE SenderWrites(c)
    <3>1. node[c].queue # <<>> /\ node' = [node EXCEPT ![c].queue = Tail(node[c].queue)]
      BY <2>1 DEF SenderWrites
    <3>2. Tail(node[c].queue) \in Seq(Message)
      BY <1>1, <3>1
    <3>3. node'[c].queue = Tail(node[c].queue) /\ \A e \in Clients : e # c => node'[e] = node[e]
      BY <1>1, <3>1, <3>2, NodeFacts
    <3>4. QED BY <2>1, <3>1, <3>3
  <2>2. CASE SenderFails(c)
    <3>1. /\ node[c].queue # <<>>
          /\ node' = [node EXCEPT ![c].queue = Tail(node[c].queue), ![c].sender = FALSE, ![c].connected = FALSE]
      BY <2>2 DEF SenderFails
    <3>2. Tail(node[c].queue) \in Seq(Message)
      BY <1>1, <3>1
    <3>3. node'[c].queue = Tail(node[c].queue) /\ \A e \in Clients : e # c => node'[e] = node[e]
      BY <1>1, <3>1, <3>2, NodeFacts
    <3>4. QED BY <2>2, <3>1, <3>3
  <2>3. QED BY <1>2, <2>1, <2>2 DEF SenderStep
<1>3. ASSUME NEW c \in Clients, NEW m \in Message, SendMessage(c, m)
      PROVE  node'[d].queue = node[d].queue \/ (d = c /\ node'[d].queue = Append(node[d].queue, m))
  BY <1>1, <1>3, SendFacts
<1>4. ASSUME NEW c \in Clients, HandlerStep(c) PROVE Goal
  <2>1. CASE HandlerSends(c)
    <3>1. SendMessage(c, handler[c].msg)
      BY <2>1 DEF HandlerSends
    <3>2. QED BY <1>1, <1>3, <2>1, <3>1
  <2>2. CASE HandlerEnds(c)
    <3>1. node' = [node EXCEPT ![c].connected = FALSE, ![c].sender = FALSE] /\ <<>> \in Seq(Message)
      BY <2>2 DEF HandlerEnds
    <3>2. \A e \in Clients : node'[e].queue = node[e].queue
      BY <1>1, <3>1, NodeFacts
    <3>3. QED BY <3>2
  <2>3. CASE node' = node
    BY <2>3
  <2>4. QED BY <1>4, <2>1, <2>2, <2>3
               DEF HandlerStep, HearsPublish, HearsPublishAck, HearsAnswer, HearsOther, Hears
<1>5. ASSUME NEW c \in Clients, CallBegins(c) PROVE Goal
  <2>1. CASE CallClose(c)
    <3>1. node' = [node EXCEPT ![c].connected = FALSE, ![c].done = TRUE] /\ <<>> \in Seq(Message)
      BY <2>1 DEF CallClose
    <3>2. \A e \in Clients : node'[e].queue = node[e].queue
      BY <1>1, <3>1, NodeFacts
    <3>3. QED BY <3>2
  <2>2. CASE ~CallClose(c)
    <3>1. node' = node
      BY <1>5, <2>2 DEF CallBegins, CallSimple, CallAcked, CallWait, CallCancel, CallGetStatus
    <3>2. QED BY <3>1
  <2>3. QED BY <2>1, <2>2
<1>6. ASSUME NEW c \in Clients, CallStep(c) PROVE Goal
  <2>1. CASE AppSends(c)
    <3>1. SendMessage(c, app[c].msg)
      BY <2>1 DEF AppSends
    <3>2. QED BY <1>1, <1>3, <2>1, <3>1
  <2>2. CASE ~AppSends(c)
    <3>1. node' = node
      BY <1>6, <2>2 DEF CallStep, WaitReturns, WaitTimeout, CancelEnds, StatusReturns, CloseEnds
    <3>2. QED BY <3>1
  <2>3. QED BY <2>1, <2>2
<1>7. ASSUME NEW x \in answering, AnswerStep(x) PROVE Goal
  <2>1. CASE AckIsSent(x)
    <3>1. SendMessage(x.client, AckMsg(x))
      BY <2>1 DEF AckIsSent, AckMsg
    <3>2. QED BY <1>1, <1>3, <2>1, <3>1
  <2>2. CASE ~AckIsSent(x)
    <3>1. node' = node
      BY <1>7, <2>2 DEF AnswerStep, CallbackEnds
    <3>2. QED BY <3>1
  <2>3. QED BY <2>1, <2>2
<1>8. ASSUME NEW k \in DOMAIN requests, ServerAnswers(k) PROVE Goal
  BY <1>8 DEF ServerAnswers
<1>9. (UNCHANGED local) => Goal
  BY DEF local
<1> HIDE DEF Goal
<1>10. Goal
  BY <1>2, <1>4, <1>5, <1>6, <1>7, <1>8, <1>9, ClientsUntouched
<1>11. QED BY <1>10 DEF Goal

\* What a step does to the link from a client to the server.
LEMMA UpSteps ==
    ASSUME IInv, Next, NEW d \in Clients
    PROVE  \/ up'[d] = up[d]
           \/ /\ SenderWrites(d) /\ node[d].queue # <<>>
              /\ up'[d] = Append(up[d], Head(node[d].queue))
           \/ /\ \E S : Receives(d, S)
              /\ SessionStep(d) /\ up[d] # <<>> /\ up' = [up EXCEPT ![d] = Tail(up[d])]
<1> DEFINE Goal == \/ up'[d] = up[d]
                   \/ /\ SenderWrites(d) /\ node[d].queue # <<>>
                      /\ up'[d] = Append(up[d], Head(node[d].queue))
                   \/ /\ \E S : Receives(d, S)
                      /\ SessionStep(d) /\ up[d] # <<>> /\ up' = [up EXCEPT ![d] = Tail(up[d])]
<1>1. up \in [Clients -> Seq(Message)]
  BY Places
<1>2. ASSUME NEW c \in Clients, SenderStep(c) PROVE Goal
  <2>1. CASE SenderWrites(c)
    <3>1. node[c].queue # <<>> /\ up' = [up EXCEPT ![c] = Append(up[c], Head(node[c].queue))]
      BY <2>1 DEF SenderWrites
    <3>2. up'[c] = Append(up[c], Head(node[c].queue)) /\ (d # c => up'[d] = up[d])
      BY <1>1, <3>1
    <3>3. QED BY <2>1, <3>1, <3>2
  <2>2. CASE SenderFails(c)
    BY <2>2 DEF SenderFails, links
  <2>3. QED BY <1>2, <2>1, <2>2 DEF SenderStep
<1>3. ASSUME NEW c \in Clients, HandlerStep(c) PROVE up' = up
  BY <1>3 DEF HandlerStep, HearsPublish, HearsPublishAck, HearsAnswer, HearsOther, Hears, HandlerSends,
              HandlerEnds, links
<1>4. ASSUME NEW c \in Clients, CallBegins(c) \/ CallStep(c) PROVE up' = up
  <2>1. CASE CallBegins(c)
    <3>1. \E S : Calls(c, S)
      BY <2>1 DEF CallBegins, CallSimple, CallAcked, CallWait, CallCancel, CallGetStatus, CallClose
    <3>2. QED BY <3>1 DEF Calls, links
  <2>2. CASE CallStep(c)
    BY <2>2 DEF CallStep, AppSends, WaitReturns, WaitTimeout, CancelEnds, StatusReturns, CloseEnds, links
  <2>3. QED BY <1>4, <2>1, <2>2
<1>5. ASSUME NEW c \in Clients, SessionStep(c) PROVE Goal
  <2>1. CASE \E S : Receives(c, S)
    <3>1. up[c] # <<>> /\ up' = [up EXCEPT ![c] = Tail(up[c])]
      BY <2>1 DEF Receives
    <3>2. d # c => up'[d] = up[d]
      BY <1>1, <3>1
    <3>3. QED BY <1>5, <2>1, <3>1, <3>2
  <2>2. CASE up' = up
    BY <2>2
  <2>3. QED
    BY <1>5, <2>1, <2>2
       DEF SessionStep, ReceivesPing, PingLists, ReceivesSubscribe, ReceivesPublish, Push, Reply,
           ReceivesRelay, RelayEnds, ReceivesAcked, ReceivesAck, ReceivesQuestion, SessionEnds, links
<1>6. ASSUME NEW c \in Clients, WriterWrites(c) PROVE up' = up
  BY <1>6 DEF WriterWrites
<1>7. ASSUME NEW x \in answering, AnswerStep(x) PROVE up' = up
  BY <1>7 DEF AnswerStep, CallbackEnds, AckIsSent, links
<1>8. ASSUME NEW x \in tasks, TaskRuns(x) \/ TaskIsLeft(x) PROVE up' = up
  BY <1>8 DEF TaskRuns, TaskIsLeft, links
<1>9. ASSUME NEW k \in DOMAIN requests, RequestStep(k) PROVE up' = up
  BY <1>9 DEF RequestStep, ServerAnswers, WaitEnds, links
<1>10. ASSUME StopBegins \/ StopStep PROVE up' = up
  BY <1>10 DEF StopBegins, StopStep, StopCloses, StopDrains, StopClosesBus, StopEnds, links
<1>11. up' = up => Goal
  OBVIOUS
<1> HIDE DEF Goal
<1>12. Goal
  BY <1>2, <1>3, <1>4, <1>5, <1>6, <1>7, <1>8, <1>9, <1>10, <1>11 DEF Next
<1>13. QED BY <1>12 DEF Goal

\* Who is not in a call has the same to send.
LEMMA AppUntouched ==
    ASSUME Next, NEW d \in Clients, ~CallBegins(d), ~CallStep(d), IInv
    PROVE  app'[d] = app[d]
<1>1. ASSUME NEW c \in Clients, SenderStep(c) \/ HandlerStep(c) PROVE app' = app
  BY <1>1 DEF SenderStep, SenderWrites, SenderFails, HandlerStep, HearsPublish, HearsPublishAck,
              HearsAnswer, HearsOther, Hears, HandlerSends, HandlerEnds
<1>2. ASSUME NEW c \in Clients, CallBegins(c) \/ CallStep(c) PROVE app'[d] = app[d]
  BY <1>2, AppSteps
<1>3. ASSUME NEW x \in answering, AnswerStep(x) PROVE app' = app
  BY <1>3 DEF AnswerStep, CallbackEnds, AckIsSent
<1>4. ASSUME NEW k \in DOMAIN requests, ServerAnswers(k) PROVE app' = app
  BY <1>4 DEF ServerAnswers
<1>5. (UNCHANGED local) => app' = app
  BY DEF local
<1>6. QED BY <1>1, <1>2, <1>3, <1>4, <1>5, ClientsUntouched

\* A call that there is not yet is nowhere.
LEMMA FreshCall ==
    ASSUME IInv, NEW c \in Clients, NEW n, n \notin DOMAIN acks[c]
    PROVE  ~Has(node[c].queue, CallOf(c, n)) /\ ~Has(up[c], CallOf(c, n)) /\ ~ToSend(c, n) /\ ~Made(c, n)
<1>1. Id(c, n) \notin Own(c)
  BY Ids DEF Own
<1>2. ASSUME NEW m \in CallOf(c, n) PROVE ~UpMessage(c, m)
  BY <1>1, Ids DEF UpMessage
<1>3. ~Made(c, n)
  <2>1. \A k \in DOMAIN requests : requests[k].for \in Own(requests[k].for.by)
    BY DEF IInv, Answers
  <2>2. Id(c, n).by = c
    BY DEF Id
  <2>3. QED BY <1>1, <2>1, <2>2 DEF Made
<1>4. QED BY <1>2, <1>3 DEF Has, ToSend, IInv, UpTraffic

\* What is not yet called for is in one place.
LEMMA NowhereIsInOnePlace ==
    ASSUME NEW c, NEW n,
           ~Has(node[c].queue, CallOf(c, n)), ~Has(up[c], CallOf(c, n)), ~ToSend(c, n), ~Made(c, n)
    PROVE  CallIsInOnePlace(c, n)
BY DEF CallIsInOnePlace, Has, AtMostOne, Made

\* A call goes from the application to the queue, the link and the bus.
LEMMA CallsStay ==
    ASSUME IInv, Next, NEW c \in Clients, NEW n, CallIsInOnePlace(c, n)
    PROVE  CallIsInOnePlace(c, n)'
<1> DEFINE calls == CallOf(c, n)
<1>1. node[c].queue \in Seq(Message) /\ up[c] \in Seq(Message) /\ app[c].msg \in Message
      /\ handler[c].msg \in Message
  <2>1. node[c] \in Node /\ app[c] \in App /\ handler[c] \in Handler
    BY Places
  <2>2. QED BY <2>1, Places DEF Node, App, Handler
<1>2. CASE AppSends(c) /\ app[c].msg \in calls
  <2>1. ToSend(c, n) /\ app[c].msg.action \in Acked
    BY <1>2, Ids DEF AppSends, ToSend
  <2>2. SendMessage(c, app[c].msg) /\ Returns(c) /\ UNCHANGED <<up, requests>>
    BY <1>2, <2>1 DEF AppSends, Acked, links, bus
  <2>3. node'[c].queue = node[c].queue \/ node'[c].queue = Append(node[c].queue, app[c].msg)
    BY <1>1, <2>2, Places, SendFacts
  <2>4. ~ToSend(c, n)'
    BY <2>2, Places, AppFacts, Messages DEF ToSend
  <2>5. AtMostOne(node'[c].queue, calls)
    <3>1. ~Has(node[c].queue, calls)
      BY <2>1 DEF CallIsInOnePlace
    <3>2. AtMostOne(node[c].queue, calls)
      BY DEF CallIsInOnePlace
    <3>3. AtMostOne(Append(node[c].queue, app[c].msg), calls)
      BY <1>1, <3>1, <3>2, Appended
    <3>4. QED BY <2>3, <3>2, <3>3
  <2>6. QED BY <2>1, <2>2, <2>4, <2>5 DEF CallIsInOnePlace, Made
<1>3. CASE SenderWrites(c) /\ Head(node[c].queue) \in calls
  <2> DEFINE q == node[c].queue
  <2>1. /\ q # <<>> /\ node' = [node EXCEPT ![c].queue = Tail(q)]
        /\ up' = [up EXCEPT ![c] = Append(up[c], Head(q))] /\ UNCHANGED <<app, requests>>
    BY <1>3 DEF SenderWrites, bus
  <2>2. /\ Head(q) \in Message /\ Tail(q) \in Seq(Message) /\ Has(q, calls)
        /\ AtMostOne(q, calls) => AtMostOne(Tail(q), calls) /\ ~Has(Tail(q), calls)
    BY <1>1, <1>3, <2>1, TakenOff
  <2>3. node'[c].queue = Tail(q)
    BY <2>1, <2>2, Places, NodeFacts
  <2>4. AtMostOne(up'[c], calls)
    <3>1. ~Has(up[c], calls)
      BY <2>2 DEF CallIsInOnePlace
    <3>2. QED BY <2>1, <2>2, <3>1, Places, Pushed
  <2> HIDE DEF q
  <2>5. AtMostOne(node'[c].queue, calls) /\ ~Has(node'[c].queue, calls)
    BY <2>2, <2>3 DEF CallIsInOnePlace, q
  <2>6. ~ToSend(c, n)' /\ ~Made(c, n)'
    BY <2>1, <2>2 DEF CallIsInOnePlace, ToSend, Made, q
  <2>7. QED BY <2>1, <2>4, <2>5, <2>6 DEF CallIsInOnePlace, Made
<1>4. CASE ReceivesAcked(c) /\ Head(up[c]) \in calls
  <2>1. /\ up[c] # <<>> /\ up' = [up EXCEPT ![c] = Tail(up[c])] /\ UNCHANGED <<node, app>>
    BY <1>4 DEF ReceivesAcked, Receives, local
  <2>2. DOMAIN requests' = DOMAIN requests \cup {Len(requests) + 1}
        /\ \A j \in DOMAIN requests : requests'[j] = requests[j]
    BY <1>4, AckedReceived
  <2>3. /\ Quiet(up[c], up'[c], calls) /\ Has(up[c], calls)
        /\ AtMostOne(up[c], calls) => ~Has(up'[c], calls)
    BY <1>4, <2>1, UpPopped
  <2>4. ~Has(node'[c].queue, calls) /\ ~Has(up'[c], calls) /\ ~ToSend(c, n)' /\ ~Made(c, n)
    BY <2>1, <2>3 DEF CallIsInOnePlace, ToSend
  <2>5. \A j, k \in DOMAIN requests' : requests'[j].for = Id(c, n) /\ requests'[k].for = Id(c, n) => j = k
    BY <2>2, <2>4 DEF Made
  <2>6. QED BY <2>1, <2>3, <2>4, <2>5 DEF CallIsInOnePlace, Quiet
<1>5. CASE CallAcked(c) /\ n = Len(acks[c]) + 1
  <2>1. n \notin DOMAIN acks[c]
    <3>1. acks[c] \in Seq(ClientAck)
      BY Places
    <3>2. QED BY <1>5, <3>1
  <2>2. ~Has(node[c].queue, calls) /\ ~Has(up[c], calls) /\ ~Made(c, n)
    BY <2>1, FreshCall
  <2>3. UNCHANGED <<node, up, requests>>
    BY <1>5 DEF CallAcked, Calls, links, bus
  <2>4. QED BY <2>2, <2>3 DEF CallIsInOnePlace, Made
<1>6. CASE /\ ~(AppSends(c) /\ app[c].msg \in calls)
           /\ ~(SenderWrites(c) /\ Head(node[c].queue) \in calls)
           /\ ~(ReceivesAcked(c) /\ Head(up[c]) \in calls)
           /\ ~(CallAcked(c) /\ n = Len(acks[c]) + 1)
  <2>1. Quiet(node[c].queue, node'[c].queue, calls)
    <3>1. ASSUME NEW m \in Message, m \notin calls, node'[c].queue = Append(node[c].queue, m)
          PROVE  Quiet(node[c].queue, node'[c].queue, calls)
      BY <1>1, <3>1, Appended DEF Quiet
    <3>2. CASE node'[c].queue = node[c].queue
      BY <3>2 DEF Quiet
    <3>3. CASE node[c].queue # <<>> /\ node'[c].queue = Tail(node[c].queue)
      BY <1>1, <3>3, TakenOff DEF Quiet
    <3>4. CASE AppSends(c) /\ node'[c].queue = Append(node[c].queue, app[c].msg)
      BY <1>1, <1>6, <3>1, <3>4
    <3>5. CASE HandlerSends(c) /\ node'[c].queue = Append(node[c].queue, handler[c].msg)
      <4>1. handler[c].msg.action \in {"publish", "ack"}
        BY <3>5 DEF HandlerSends, IInv, UpTraffic
      <4>2. handler[c].msg \notin calls
        BY <4>1, Ids DEF Acked
      <4>3. QED BY <1>1, <3>1, <3>5, <4>2
    <3>6. ASSUME NEW x \in answering, node'[c].queue = Append(node[c].queue, AckMsg(x))
          PROVE  Quiet(node[c].queue, node'[c].queue, calls)
      <4>1. AckMsg(x) \in Message
        <5>1. x \in Answering
          BY Places
        <5>2. x.ack \in AckId /\ {[client |-> x.client, ok |-> x.ok]} \in SUBSET Answer
          BY <5>1 DEF Answering, Answer
        <5>3. QED BY <5>2, Messages DEF AckMsg, Actions
      <4>2. AckMsg(x) \notin calls
        BY Ids DEF AckMsg, Msg, Acked
      <4>3. QED BY <3>1, <3>6, <4>1, <4>2
    <3>7. QED BY <3>2, <3>3, <3>4, <3>5, <3>6, QueueSteps
  <2>2. Quiet(up[c], up'[c], calls)
    <3>1. CASE up'[c] = up[c]
      BY <3>1 DEF Quiet
    <3>2. CASE /\ SenderWrites(c) /\ node[c].queue # <<>>
               /\ up'[c] = Append(up[c], Head(node[c].queue))
      <4>1. Head(node[c].queue) \in Message /\ Head(node[c].queue) \notin calls
        BY <1>1, <1>6, <3>2, TakenOff
      <4> DEFINE m == Head(node[c].queue)
      <4> HIDE DEF m
      <4>2. QED BY <1>1, <3>2, <4>1, Appended DEF Quiet, m
    <3>3. CASE up[c] # <<>> /\ up' = [up EXCEPT ![c] = Tail(up[c])]
      BY <3>3, UpPopped
    <3>4. QED BY <3>1, <3>2, <3>3, UpSteps
  <2>3. ToSend(c, n)' => ToSend(c, n)
    <3>1. CASE app'[c] = app[c]
      BY <3>1 DEF ToSend
    <3>2. CASE CallBegins(c) \/ CallStep(c)
      <4>1. SUFFICES ASSUME ToSend(c, n)' PROVE FALSE
        OBVIOUS
      <4>2. app'[c].at = "send" /\ app'[c].msg.action \in Acked /\ app'[c].msg.ack = Id(c, n)
        BY <4>1, Ids DEF ToSend
      <4>3. CallAcked(c) /\ Id(c, n) = Id(c, Len(acks[c]) + 1)
        BY <3>2, <4>2, AppSteps
      <4>4. QED BY <1>6, <4>3, Ids
    <3>3. QED BY <3>1, <3>2, AppUntouched
  <2>4. \A k \in DOMAIN requests' :
           requests'[k].for = Id(c, n) => k \in DOMAIN requests /\ requests[k].for = Id(c, n)
    <3>1. SUFFICES ASSUME NEW k \in DOMAIN requests', requests'[k].for = Id(c, n), k \notin DOMAIN requests
                   PROVE  FALSE
      BY RequestsKeep DEF RequestsGrow
    <3>2. PICK e \in Clients : ReceivesAcked(e) /\ Id(c, n) = Head(up[e]).ack
      BY <3>1, RequestsKeep
    <3>3. Head(up[e]) \in Message /\ Head(up[e]).action \in Acked /\ Id(c, n) \in Own(e)
      BY <3>2, AckedReceived
    <3>4. e = c
      BY <3>3, Ids DEF Own
    <3>5. Head(up[c]) \in calls
      BY <3>2, <3>3, <3>4, Ids
    <3>6. QED BY <1>6, <3>2, <3>4, <3>5
  <2>5. Made(c, n)' => Made(c, n)
    BY <2>4 DEF Made
  <2>6. \A j, k \in DOMAIN requests' : requests'[j].for = Id(c, n) /\ requests'[k].for = Id(c, n) => j = k
    BY <2>4 DEF CallIsInOnePlace
  <2>7. QED BY <2>1, <2>2, <2>3, <2>5, <2>6 DEF CallIsInOnePlace, Quiet
<1>7. QED BY <1>2, <1>3, <1>4, <1>5, <1>6

\* Calls, also those that are made, are in one place.
LEMMA CallsKept ==
    ASSUME IInv, Next
    PROVE  CallsInOnePlace'
<1>1. SUFFICES ASSUME NEW c \in Clients, NEW n \in DOMAIN acks'[c] PROVE CallIsInOnePlace(c, n)'
  BY DEF CallsInOnePlace
<1>2. CallIsInOnePlace(c, n)
  <2>1. CASE n \in DOMAIN acks[c]
    BY <2>1 DEF IInv, CallsInOnePlace
  <2>2. CASE n \notin DOMAIN acks[c]
    BY <2>2, FreshCall, NowhereIsInOnePlace
  <2>3. QED BY <2>1, <2>2
<1>3. QED BY <1>2, CallsStay

\* What the handler of a client refuses to ask anybody is lost.
LEMMA RefusedIsLost ==
    ASSUME IInv, NEW c \in Clients, HearsPublishAck(c), UNCHANGED answering,
           NEW k \in DOMAIN requests, Head(down[c]).ack = Id(Server, k)
    PROVE  Lost(c, k)'
<1> DEFINE m == Head(down[c])  asks == AskFor(k)
<1>1. /\ down[c] # <<>> /\ m.action = "publish_ack"
      /\ down' = [down EXCEPT ![c] = Tail(down[c])] /\ UNCHANGED <<tasks, ring, ran>>
  BY DEF HearsPublishAck, Hears, bus
<1>2. m \in Message /\ m \in asks
  BY <1>1, HeadHeard, Ids
<1>3. Has(down[c], asks) /\ (AtMostOne(down[c], asks) => ~Has(down'[c], asks))
  BY <1>1, <1>2, DownPopped
<1>4. QuestionIsInOnePlace(c, k)
  BY DEF IInv, QuestionsInOnePlace
<1>5. QED BY <1>1, <1>3, <1>4 DEF QuestionIsInOnePlace, Lost, Tasked, Running, Succeeded

\* A callback that ends with a panic has lost the question.
LEMMA PanicIsLost ==
    ASSUME IInv, NEW x \in answering, CallbackEnds(x, FALSE), NEW k \in DOMAIN requests,
           x.ack = Id(Server, k)
    PROVE  Lost(x.client, k)'
<1> DEFINE d == x.client
           run == [client |-> d, ack |-> Id(Server, k), at |-> "callback", ok |-> FALSE]
           y == [x EXCEPT !.at = "send", !.ok = FALSE]
           e == [client |-> d, ack |-> x.ack, ok |-> FALSE]
<1>1. /\ x.at = "callback" /\ answering' = (answering \ {x}) \cup {y} /\ ran' = ran \cup {e}
      /\ UNCHANGED <<tasks, ring, down>>
  BY DEF CallbackEnds, Outcome, links, bus
<1>2. x \in Answering /\ ~x.ok /\ d \in Clients
  BY <1>1, Places DEF IInv, Answers, Answering
<1>3. x = run /\ Running(d, k)
  <2>1. x.ok = FALSE
    BY <1>2 DEF Answering
  <2>2. x = run
    BY <1>1, <1>2, <2>1 DEF Answering
  <2>3. QED BY <2>2 DEF Running
<1>4. QuestionIsInOnePlace(d, k)
  BY <1>2 DEF IInv, QuestionsInOnePlace
<1>5. ~Running(d, k)'
  <2>1. y.at = "send" /\ run.at = "callback"
    BY <1>2 DEF Answering
  <2>2. y # run
    <3> HIDE DEF y, run
    <3>1. QED BY <2>1
  <2>3. Running(d, k)' <=> run \in answering'
    BY DEF Running
  <2> HIDE DEF y, run
  <2>4. QED BY <1>1, <1>3, <2>2, <2>3
<1>6. ~Succeeded(d, k)'
  <2> DEFINE won == [client |-> d, ack |-> Id(Server, k), ok |-> TRUE]
  <2>1. e # won
    OBVIOUS
  <2>2. won \notin ran /\ (Succeeded(d, k)' <=> won \in ran')
    BY <1>3, <1>4 DEF QuestionIsInOnePlace, Succeeded
  <2> HIDE DEF e, won
  <2>3. QED BY <1>1, <2>1, <2>2
<1>7. QED BY <1>1, <1>3, <1>4, <1>5, <1>6 DEF QuestionIsInOnePlace, Lost, Tasked

\* An ack that is to be sent may be sent.
LEMMA AckMayBeSent ==
    ASSUME IInv, NEW x \in answering, x.at = "send"
    PROVE  x.client \in Clients /\ UpMessage(x.client, AckMsg(x)) /\ AckMsg(x).action = "ack"
<1> DEFINE r == [client |-> x.client, ok |-> x.ok]  m == Msg("ack", None, x.ack, {r})
<1>1. x \in Answering
  BY Places
<1>2. x.client \in Clients /\ x.ack \in AckId /\ {r} \in SUBSET Answer
  BY <1>1 DEF Answering, Answer
<1>3. x.ack \in Requested /\ AnswerTo(x.ack, r)
  BY DEF IInv, Answers
<1>4. m \in Message
  BY <1>2, Messages DEF Actions
<1>5. m.action = "ack" /\ m.ack = x.ack /\ m.answers = {r}
  BY DEF Msg
<1>6. r.client = x.client
  OBVIOUS
<1> HIDE DEF r, m
<1>7. UpMessage(x.client, m)
  BY <1>3, <1>4, <1>5, <1>6 DEF UpMessage, UpActions, Acked
<1>8. QED BY <1>2, <1>5, <1>7 DEF AckMsg, m, r

\* What the clients send is well-formed.
LEMMA UpTrafficKept ==
    ASSUME IInv, Next
    PROVE  UpTraffic'
<1>1. SUFFICES ASSUME NEW d \in Clients
               PROVE  /\ \A i \in DOMAIN node'[d].queue : UpMessage(d, node[d].queue[i])'
                      /\ \A i \in DOMAIN up'[d] : UpMessage(d, up[d][i])'
                      /\ app'[d].at = "send" => UpMessage(d, app[d].msg)' /\ app'[d].msg.action # "ack"
                      /\ handler'[d].at = "send" => /\ UpMessage(d, handler[d].msg)'
                                                    /\ handler'[d].msg.action \in {"publish", "ack"}
  BY DEF UpTraffic
<1>2. /\ \A i \in DOMAIN node[d].queue : UpMessage(d, node[d].queue[i])
      /\ \A i \in DOMAIN up[d] : UpMessage(d, up[d][i])
      /\ app[d].at = "send" => UpMessage(d, app[d].msg) /\ app[d].msg.action # "ack"
      /\ handler[d].at = "send" => UpMessage(d, handler[d].msg)
                                   /\ handler[d].msg.action \in {"publish", "ack"}
  BY DEF IInv, UpTraffic
<1>3. \A m : UpMessage(d, m) => UpMessage(d, m)'
  BY Stable
<1>4. node[d].queue \in Seq(Message) /\ up[d] \in Seq(Message)
  <2>1. node[d] \in Node
    BY Places
  <2>2. QED BY <2>1, Places DEF Node
<1>5. \A i \in DOMAIN node'[d].queue : UpMessage(d, node[d].queue[i])'
  <2>1. ASSUME NEW m, UpMessage(d, m), node'[d].queue = Append(node[d].queue, m)
        PROVE  \A i \in DOMAIN node'[d].queue : UpMessage(d, node[d].queue[i])'
    <3>1. m \in Message
      BY <2>1 DEF UpMessage
    <3>2. \A i \in DOMAIN node'[d].queue :
             node'[d].queue[i] = m \/ (i \in DOMAIN node[d].queue /\ node'[d].queue[i] = node[d].queue[i])
      BY <1>4, <2>1, <3>1, Appended
    <3>3. QED BY <1>2, <1>3, <2>1, <3>2
  <2>2. CASE node'[d].queue = node[d].queue
    BY <1>2, <1>3, <2>2
  <2>3. CASE node[d].queue # <<>> /\ node'[d].queue = Tail(node[d].queue)
    <3>1. \A i \in DOMAIN node'[d].queue : \E j \in DOMAIN node[d].queue : node'[d].queue[i] = node[d].queue[j]
      BY <1>4, <2>3, TakenOff
    <3>2. QED BY <1>2, <1>3, <3>1
  <2>4. CASE AppSends(d) /\ node'[d].queue = Append(node[d].queue, app[d].msg)
    BY <1>2, <2>1, <2>4 DEF AppSends
  <2>5. CASE HandlerSends(d) /\ node'[d].queue = Append(node[d].queue, handler[d].msg)
    BY <1>2, <2>1, <2>5 DEF HandlerSends
  <2>6. ASSUME NEW x \in answering, AckIsSent(x), x.client = d,
               node'[d].queue = Append(node[d].queue, AckMsg(x))
        PROVE  \A i \in DOMAIN node'[d].queue : UpMessage(d, node[d].queue[i])'
    <3>1. UpMessage(d, AckMsg(x))
      BY <2>6, AckMayBeSent DEF AckIsSent
    <3>2. QED BY <2>1, <2>6, <3>1
  <2>7. QED BY <2>2, <2>3, <2>4, <2>5, <2>6, QueueSteps
<1>6. \A i \in DOMAIN up'[d] : UpMessage(d, up[d][i])'
  <2>1. CASE up'[d] = up[d]
    BY <1>2, <1>3, <2>1
  <2>2. CASE /\ SenderWrites(d) /\ node[d].queue # <<>>
             /\ up'[d] = Append(up[d], Head(node[d].queue))
    <3> DEFINE m == Head(node[d].queue)
    <3>1. m \in Message /\ UpMessage(d, m)
      <4>1. m \in Message /\ \E j \in DOMAIN node[d].queue : m = node[d].queue[j]
        BY <1>4, <2>2, TakenOff
      <4>2. QED BY <1>2, <4>1
    <3> HIDE DEF m
    <3>2. \A i \in DOMAIN up'[d] : up'[d][i] = m \/ (i \in DOMAIN up[d] /\ up'[d][i] = up[d][i])
      BY <1>4, <2>2, <3>1, Appended DEF m
    <3>3. QED BY <1>2, <1>3, <3>1, <3>2
  <2>3. CASE up[d] # <<>> /\ up' = [up EXCEPT ![d] = Tail(up[d])]
    <3>1. \A i \in DOMAIN up'[d] : \E j \in DOMAIN up[d] : up'[d][i] = up[d][j]
      BY <2>3, UpPopped
    <3>2. QED BY <1>2, <1>3, <3>1
  <2>4. QED BY <2>1, <2>2, <2>3, UpSteps
<1>7. app'[d].at = "send" => UpMessage(d, app[d].msg)' /\ app'[d].msg.action # "ack"
  <2>1. CASE app'[d] = app[d]
    BY <1>2, <1>3, <2>1
  <2>2. CASE CallBegins(d) \/ CallStep(d)
    <3>1. SUFFICES ASSUME app'[d].at = "send"
                   PROVE  UpMessage(d, app[d].msg)' /\ app'[d].msg.action # "ack"
      OBVIOUS
    <3>6. PICK m : m = app'[d].msg
      OBVIOUS
    <3>2. /\ m \in Message /\ m.action \in UpActions /\ m.action # "ack"
          /\ m.action \in {"subscribe", "unsubscribe", "publish", "publish_with_ack"} => m.about \in Topics
          /\ m.action \in Acked => CallAcked(d) /\ m.ack = Id(d, Len(acks[d]) + 1)
      BY <2>2, <3>1, <3>6, AppSteps
    <3>3. CallAcked(d) => Id(d, Len(acks[d]) + 1) \in Own(d)'
      <4>1. SUFFICES ASSUME CallAcked(d) PROVE Len(acks[d]) + 1 \in DOMAIN acks'[d]
        BY DEF Own
      <4>2. \E a : acks'[d] = Append(acks[d], a)
        BY <4>1, Places DEF CallAcked
      <4>3. acks[d] \in Seq(ClientAck) /\ acks'[d] \in Seq(ClientAck)
        BY Places, AcksKeep
      <4>4. QED BY <4>2, <4>3
    <3>4. UpMessage(d, m)'
      <4>1. m.action \in Acked => m.ack \in Own(d)'
        BY <3>2, <3>3
      <4>2. QED BY <3>2, <4>1 DEF UpMessage, Acked
    <3>5. QED BY <3>2, <3>4, <3>6
  <2>3. QED BY <2>1, <2>2, AppUntouched
<1>8. handler'[d].at = "send" => /\ UpMessage(d, handler[d].msg)'
                                 /\ handler'[d].msg.action \in {"publish", "ack"}
  <2> DEFINE Goal == handler'[d].at = "send" => /\ UpMessage(d, handler[d].msg)'
                                                /\ handler'[d].msg.action \in {"publish", "ack"}
  <2>1. handler'[d] = handler[d] => Goal
    BY <1>2, <1>3
  <2>2. ASSUME NEW c \in Clients, HandlerStep(c) PROVE Goal
    <3>1. CASE HearsPublish(c)
      <4> DEFINE m == Plain("publish", Head(down[c]).about)
      <4>1. handler' = handler \/ handler' = [handler EXCEPT ![c] = [at |-> "send", msg |-> m]]
        BY <3>1 DEF HearsPublish, Says
      <4>2. Head(down[c]).about \in Topics
        BY <3>1, HeadHeard DEF HearsPublish, Hears, DownMessage
      <4>3. m.action = "publish" /\ m.about = Head(down[c]).about /\ m \in Message
        <5>1. m \in Message
          BY <4>2, Messages DEF Actions, Sent
        <5>2. QED BY <5>1 DEF Plain, Msg
      <4> HIDE DEF m
      <4>4. UpMessage(c, m)
        BY <4>2, <4>3 DEF UpMessage, UpActions, Sent, Acked
      <4>5. handler'[d] = handler[d] \/ (d = c /\ handler'[d] = [at |-> "send", msg |-> m])
        BY <4>1, Places
      <4>6. QED BY <1>3, <2>1, <4>3, <4>4, <4>5
    <3>2. CASE HearsPublishAck(c)
      <4>10. PICK a, r, m : /\ a = Head(down[c]) /\ r = [client |-> c, ok |-> FALSE]
                            /\ m = Msg("ack", None, a.ack, {r})
        OBVIOUS
      <4>1. \/ handler' = handler
            \/ UNCHANGED answering /\ handler' = [handler EXCEPT ![c] = [at |-> "send", msg |-> m]]
        BY <3>2, <4>10 DEF HearsPublishAck, Says
      <4>2. a.ack \in Requested /\ a.ack \in AckId /\ {r} \in SUBSET Answer
        <5>1. a.ack \in Requested
          BY <3>2, <4>10, HeadHeard DEF HearsPublishAck, Hears, DownMessage
        <5>2. a.ack \in AckId
          BY <5>1, Places, Messages DEF Requested
        <5>3. QED BY <4>10, <5>1, <5>2 DEF Answer
      <4>3. m \in Message /\ m.action = "ack" /\ m.ack = a.ack /\ m.answers = {r}
        <5>1. m \in Message
          BY <4>2, <4>10, Messages DEF Actions
        <5>2. QED BY <4>10, <5>1 DEF Msg
      <4>4. ASSUME UNCHANGED answering PROVE AnswerTo(a.ack, r)'
        <5>1. requests' = requests
          BY <3>2 DEF HearsPublishAck, Hears, bus
        <5>2. ASSUME NEW k \in DOMAIN requests', a.ack = Id(Server, k) PROVE Told(r, k)'
          <6>1. Lost(c, k)'
            BY <3>2, <4>4, <4>10, <5>1, <5>2, RefusedIsLost
          <6>2. r.client = c /\ ~r.ok
            BY <4>10
          <6>3. QED BY <6>1, <6>2 DEF Told
        <5>3. QED BY <5>2 DEF AnswerTo
      <4>5. a.ack \in Requested' /\ r.client = c
        BY <4>2, <4>10, RequestsKeep
      <4>6. UNCHANGED answering => UpMessage(c, m)'
        BY <4>3, <4>4, <4>5 DEF UpMessage, UpActions, Acked
      <4>7. handler'[d] = handler[d] \/ (d = c /\ UNCHANGED answering /\ handler'[d] = [at |-> "send", msg |-> m])
        BY <4>1, Places
      <4>8. QED BY <2>1, <4>3, <4>6, <4>7
    <3>3. CASE HandlerSends(c)
      <4>1. handler' = [handler EXCEPT ![c] = [at |-> "read", msg |-> Ping]]
        BY <3>3 DEF HandlerSends
      <4>2. handler'[d] = handler[d] \/ handler'[d] = [at |-> "read", msg |-> Ping]
        BY <4>1, Places
      <4>3. QED BY <2>1, <4>2
    <3>4. CASE HandlerEnds(c)
      <4> DEFINE h == [handler[c] EXCEPT !.at = "over"]
      <4>1. handler' = [handler EXCEPT ![c] = h]
        BY <3>4 DEF HandlerEnds
      <4>2. h.at = "over"
        BY Places DEF Handler
      <4> HIDE DEF h
      <4>3. handler'[d] = handler[d] \/ handler'[d] = h
        BY <4>1, Places
      <4>4. QED BY <2>1, <4>2, <4>3
    <3>5. CASE HearsAnswer(c) \/ HearsOther(c)
      BY <2>1, <3>5 DEF HearsAnswer, HearsOther
    <3>6. QED BY <2>2, <3>1, <3>2, <3>3, <3>4, <3>5 DEF HandlerStep
  <2>3. ASSUME NEW c \in Clients, SenderStep(c) \/ CallBegins(c) \/ CallStep(c) PROVE handler' = handler
    BY <2>3 DEF SenderStep, SenderWrites, SenderFails, CallBegins, CallSimple, CallAcked, CallWait, CallCancel,
                CallGetStatus, CallClose, Calls, CallStep, AppSends, WaitReturns, WaitTimeout, CancelEnds,
                StatusReturns, CloseEnds
  <2>4. ASSUME NEW x \in answering, AnswerStep(x) PROVE handler' = handler
    BY <2>4 DEF AnswerStep, CallbackEnds, AckIsSent
  <2>5. ASSUME NEW k \in DOMAIN requests, ServerAnswers(k) PROVE handler' = handler
    BY <2>5 DEF ServerAnswers
  <2>6. (UNCHANGED local) => handler' = handler
    BY DEF local
  <2>7. handler' = handler => Goal
    BY <2>1
  <2> HIDE DEF Goal
  <2>8. Goal
    BY <2>2, <2>3, <2>4, <2>5, <2>6, <2>7, ClientsUntouched
  <2>9. QED BY <2>8 DEF Goal
<1>9. QED BY <1>5, <1>6, <1>7, <1>8

-----------------------------------------------------------------------------
(* Answers *)

\* What the clients have to acknowledge is what their callbacks did.
LEMMA AnsweringKept ==
    ASSUME IInv, Next
    PROVE  /\ \A x \in answering' : /\ x.ack \in Requested'
                                    /\ x.at = "callback" => ~x.ok
                                    /\ x.at = "send" => AnswerTo(x.ack, [client |-> x.client, ok |-> x.ok])'
           /\ \A e \in ran' : e.ack \in Requested'
<1> DEFINE Good(x) == /\ x.ack \in Requested'
                      /\ x.at = "callback" => ~x.ok
                      /\ x.at = "send" => AnswerTo(x.ack, [client |-> x.client, ok |-> x.ok])'
           Goal == (\A x \in answering' : Good(x)) /\ (\A e \in ran' : e.ack \in Requested')
<1>1. Requested \subseteq Requested'
  BY RequestsKeep
<1>2. \A x \in answering : Good(x) /\ x.ack \in Requested
  BY <1>1, Stable DEF IInv, Answers
<1>3. \A e \in ran : e.ack \in Requested'
  BY <1>1 DEF IInv, Answers
<1>4. ran' = ran /\ answering' \subseteq answering => Goal
  <2> HIDE DEF Good
  <2>1. QED BY <1>2, <1>3
<1>5. ASSUME NEW c \in Clients, HandlerStep(c) PROVE Goal
  <2>1. CASE HearsPublishAck(c)
    <3>1. PICK a, x : a = Head(down[c]) /\ x = [client |-> c, ack |-> a.ack, at |-> "callback", ok |-> FALSE]
      OBVIOUS
    <3>2. ran' = ran /\ answering' \subseteq answering \cup {x}
      BY <2>1, <3>1 DEF HearsPublishAck, Hears
    <3>3. a.ack \in Requested
      BY <2>1, <3>1, HeadHeard DEF HearsPublishAck, Hears, DownMessage
    <3>4. Good(x)
      BY <1>1, <3>1, <3>3
    <3> HIDE DEF Good
    <3>5. QED BY <1>2, <1>3, <3>2, <3>4
  <2>2. CASE ~HearsPublishAck(c)
    <3>1. ran' = ran /\ answering' \subseteq answering
      BY <1>5, <2>2 DEF HandlerStep, HearsPublish, HearsAnswer, HearsOther, Hears, HandlerSends, HandlerEnds
    <3>2. QED BY <1>4, <3>1
  <2>3. QED BY <2>1, <2>2
<1>6. ASSUME NEW x \in answering, AnswerStep(x) PROVE Goal
  <2>1. CASE AckIsSent(x)
    <3>1. ran' = ran /\ answering' \subseteq answering
      BY <2>1 DEF AckIsSent
    <3>2. QED BY <1>4, <3>1
  <2>2. ASSUME NEW ok \in BOOLEAN, CallbackEnds(x, ok) PROVE Goal
    <3>1. x \in Answering
      BY Places
    <3>2. PICK y, e, r : /\ y = [x EXCEPT !.at = "send", !.ok = ok]
                         /\ e = [client |-> x.client, ack |-> x.ack, ok |-> ok]
                         /\ r = [client |-> x.client, ok |-> ok]
      OBVIOUS
    <3>3. y.client = x.client /\ y.ack = x.ack /\ y.at = "send" /\ y.ok = ok
      BY <3>1, <3>2 DEF Answering
    <3>4. answering' = (answering \ {x}) \cup {y} /\ ran' = ran \cup {e} /\ UNCHANGED requests
      BY <2>2, <3>2 DEF CallbackEnds, Outcome, bus
    <3>5. AnswerTo(x.ack, r)'
      <4>1. SUFFICES ASSUME NEW k \in DOMAIN requests, x.ack = Id(Server, k) PROVE Told(r, k)'
        BY <3>4 DEF AnswerTo
      <4>2. CASE ok = TRUE
        <5>1. e = [client |-> x.client, ack |-> Id(Server, k), ok |-> TRUE] /\ r.client = x.client /\ r.ok
          BY <3>2, <4>1, <4>2
        <5>2. Succeeded(r.client, k)'
          BY <3>4, <5>1 DEF Succeeded
        <5>3. QED BY <5>1, <5>2 DEF Told
      <4>3. CASE ok = FALSE
        <5>1. Lost(x.client, k)'
          BY <2>2, <4>1, <4>3, PanicIsLost
        <5>2. r.client = x.client /\ ~r.ok /\ x.client \in Clients
          BY <3>1, <3>2, <4>3 DEF Answering
        <5>3. QED BY <5>1, <5>2 DEF Told
      <4>4. QED BY <4>2, <4>3
    <3>6. Good(y)
      <4>1. x.ack \in Requested'
        BY <1>1, <1>2
      <4>2. r = [client |-> y.client, ok |-> y.ok]
        BY <3>2, <3>3
      <4>3. QED BY <3>3, <3>5, <4>1, <4>2
    <3>7. e.ack \in Requested'
      BY <1>1, <1>2, <3>2
    <3> HIDE DEF Good
    <3>8. QED BY <1>2, <1>3, <3>4, <3>6, <3>7
  <2>3. QED BY <1>6, <2>1, <2>2 DEF AnswerStep
<1>7. ASSUME NEW k \in DOMAIN requests, ServerAnswers(k) PROVE Goal
  <2>1. PICK e : e = [client |-> Server, ack |-> Id(Server, k), ok |-> TRUE]
    OBVIOUS
  <2>2. ran' = ran \cup {e} /\ UNCHANGED answering
    BY <1>7, <2>1 DEF ServerAnswers
  <2>3. e.ack \in Requested
    BY <2>1 DEF Requested
  <2> HIDE DEF Good
  <2>4. QED BY <1>1, <1>2, <1>3, <2>2, <2>3
<1>8. ASSUME NEW c \in Clients, SenderStep(c) \/ CallBegins(c) \/ CallStep(c) PROVE UNCHANGED <<answering, ran>>
  BY <1>8 DEF SenderStep, SenderWrites, SenderFails, CallBegins, CallSimple, CallAcked, CallWait, CallCancel,
              CallGetStatus, CallClose, Calls, CallStep, AppSends, WaitReturns, WaitTimeout, CancelEnds,
              StatusReturns, CloseEnds
<1>9. (UNCHANGED local) => UNCHANGED <<answering, ran>>
  BY DEF local
<1>10. Goal
  <2> HIDE DEF Goal
  <2>1. (UNCHANGED <<answering, ran>>) => Goal
    BY <1>4
  <2>2. QED BY <1>5, <1>6, <1>7, <1>8, <1>9, <2>1, ClientsUntouched
<1>11. QED BY <1>10

\* What the server has received is what happened.
LEMMA ReceivedKept ==
    ASSUME IInv, Next
    PROVE  \A k \in DOMAIN requests' : /\ requests'[k].for \in (Own(requests[k].for.by))'
                                       /\ requests'[k].for.by \in Clients
                                       /\ \A r \in requests'[k].received : Told(r, k)'
<1>1. SUFFICES ASSUME NEW k \in DOMAIN requests'
               PROVE  /\ requests'[k].for \in (Own(requests[k].for.by))'
                      /\ requests'[k].for.by \in Clients
                      /\ \A r \in requests'[k].received : Told(r, k)'
  OBVIOUS
<1>2. PICK id : id = requests'[k].for
  OBVIOUS
<1>3. \A c \in Clients : Own(c) \subseteq Own(c)'
  BY AcksKeep
<1>4. id.by \in Clients /\ id \in Own(id.by)
  <2>1. CASE k \in DOMAIN requests
    <3>1. id = requests[k].for
      BY <1>2, <2>1, RequestsKeep DEF RequestsGrow
    <3>2. QED BY <2>1, <3>1 DEF IInv, Answers
  <2>2. CASE k \notin DOMAIN requests
    <3>1. PICK c \in Clients : ReceivesAcked(c) /\ id = Head(up[c]).ack
      BY <1>1, <1>2, <2>2, RequestsKeep
    <3>2. id \in Own(c)
      BY <3>1, AckedReceived
    <3>3. id.by = c
      BY <3>2 DEF Own, Id
    <3>4. QED BY <3>2, <3>3
  <2>3. QED BY <2>1, <2>2
<1>5. ASSUME NEW r \in requests'[k].received PROVE Told(r, k)'
  <2>1. k \in DOMAIN requests
    BY <1>5, RequestsKeep
  <2>2. CASE r \in requests[k].received
    <3>1. Told(r, k)
      BY <2>1, <2>2 DEF IInv, Answers
    <3>2. QED BY <2>1, <3>1, Stable
  <2>3. ASSUME NEW c \in Clients, ReceivesAck(c), Head(up[c]).ack = Id(Server, k), r \in Head(up[c]).answers
        PROVE  Told(r, k)'
    <3>1. up[c] # <<>> /\ Head(up[c]).action = "ack"
      BY <2>3 DEF ReceivesAck, Receives
    <3>2. AnswerTo(Head(up[c]).ack, r)
      BY <2>3, <3>1, HeadReceived DEF UpMessage
    <3>3. Told(r, k)
      BY <2>1, <2>3, <3>2 DEF AnswerTo
    <3>4. QED BY <2>1, <3>3, Stable
  <2>4. CASE ServerAnswers(k) /\ r = [client |-> Server, ok |-> TRUE]
    <3>1. Succeeded(Server, k)'
      BY <2>4 DEF ServerAnswers, Succeeded
    <3>2. r.ok /\ r.client = Server
      BY <2>4
    <3>3. QED BY <3>1, <3>2 DEF Told
  <2>5. QED BY <1>5, <2>1, <2>2, <2>3, <2>4, RequestsKeep
<1>6. id \in Own(id.by)'
  BY <1>3, <1>4
<1>7. QED BY <1>2, <1>4, <1>5, <1>6 DEF Own

\* What the clients are told is what happened.
LEMMA AcksKept ==
    ASSUME IInv, Next
    PROVE  \A c \in Clients : \A n \in DOMAIN acks'[c] :
           \A r \in acks'[c][n].responses \cup acks'[c][n].result : AnswerFor(Id(c, n), r)'
<1>1. SUFFICES ASSUME NEW c \in Clients, NEW n \in DOMAIN acks'[c],
                      NEW r \in acks'[c][n].responses \cup acks'[c][n].result
               PROVE  AnswerFor(Id(c, n), r)
  BY Stable
<1>2. CASE n \in DOMAIN acks[c] /\ r \in Known(c, n)
  BY <1>2 DEF IInv, Answers, Known
<1>3. CASE /\ down[c] # <<>> /\ Head(down[c]).action = "ack_response"
           /\ n = Head(down[c]).ack.n /\ r \in Head(down[c]).answers
  <2>1. Head(down[c]).ack \in Own(c) /\ AnswerFor(Head(down[c]).ack, r)
    BY <1>3, HeadHeard DEF DownMessage
  <2>2. Head(down[c]).ack = Id(c, n)
    BY <1>3, <2>1 DEF Own, Id
  <2>3. QED BY <2>1, <2>2
<1>4. CASE acks' = acks
  <2>1. r \in Known(c, n) /\ n \in DOMAIN acks[c]
    BY <1>1, <1>4 DEF Known
  <2>2. QED BY <1>2, <2>1
<1>5. CASE \E e \in Clients : AcksGrow(e)
  BY <1>1, <1>2, <1>3, <1>5 DEF AcksGrow
<1>6. QED BY <1>4, <1>5, AcksKeep

\* The answers stay genuine wherever they are.
LEMMA AnswersKept ==
    ASSUME IInv, Next
    PROVE  Answers'
BY AnsweringKept, ReceivedKept, AcksKept DEF Answers

-----------------------------------------------------------------------------
(* From the server to the clients *)

\* A message that may be sent is appended.
LEMMA SendingIsSafe ==
    ASSUME IInv, Next, NEW c \in Clients, NEW m, DownMessage(c, m),
           (SendToWebSocket(c, m) /\ UNCHANGED down) \/ SendResponse(c, m),
           NEW d \in Clients
    PROVE  /\ \A i \in DOMAIN ring'[d] : DownMessage(d, ring[d][i])'
           /\ \A i \in DOMAIN down'[d] : DownMessage(d, down[d][i])'
<1>1. /\ \A i \in DOMAIN ring[d] : DownMessage(d, ring[d][i])
      /\ \A i \in DOMAIN down[d] : DownMessage(d, down[d][i])
  BY DEF IInv, DownTraffic
<1>2. m \in Message
  BY DEF DownMessage
<1>3. \A p : DownMessage(d, p) => DownMessage(d, p)'
  BY Stable
<1>4. \/ UNCHANGED <<ring, down>>
      \/ ring' = [ring EXCEPT ![c] = Append(ring[c], m)] /\ UNCHANGED down
      \/ down' = [down EXCEPT ![c] = Append(down[c], m)] /\ UNCHANGED ring
  BY <1>2, Places, PushFacts, ResponseFacts
<1>5. CASE UNCHANGED <<ring, down>>
  BY <1>1, <1>3, <1>5
<1>6. CASE ring' = [ring EXCEPT ![c] = Append(ring[c], m)] /\ UNCHANGED down
  <2>1. \A i \in DOMAIN ring'[d] : (d = c /\ ring'[d][i] = m) \/ \E j \in DOMAIN ring[d] : ring'[d][i] = ring[d][j]
    <3>1. ring'[d] = IF d = c THEN Append(ring[c], m) ELSE ring[d]
      BY <1>6, Places
    <3>2. ring[c] \in Seq(Message)
      BY Places
    <3>3. QED BY <1>2, <3>1, <3>2, Appended
  <2>2. QED BY <1>1, <1>3, <1>6, <2>1
<1>7. CASE down' = [down EXCEPT ![c] = Append(down[c], m)] /\ UNCHANGED ring
  <2>1. \A i \in DOMAIN down'[d] : (d = c /\ down'[d][i] = m) \/ \E j \in DOMAIN down[d] : down'[d][i] = down[d][j]
    <3>1. down'[d] = IF d = c THEN Append(down[c], m) ELSE down[d]
      BY <1>7, Places
    <3>2. down[c] \in Seq(Message)
      BY Places
    <3>3. QED BY <1>2, <3>1, <3>2, Appended
  <2>2. QED BY <1>1, <1>3, <1>7, <2>1
<1>8. QED BY <1>4, <1>5, <1>6, <1>7

\* What is on its way to the clients may have been sent to them.
LEMMA LinksKept ==
    ASSUME IInv, Next, NEW d \in Clients
    PROVE  /\ \A i \in DOMAIN ring'[d] : DownMessage(d, ring[d][i])'
           /\ \A i \in DOMAIN down'[d] : DownMessage(d, down[d][i])'
<1> DEFINE Goal == /\ \A i \in DOMAIN ring'[d] : DownMessage(d, ring[d][i])'
                   /\ \A i \in DOMAIN down'[d] : DownMessage(d, down[d][i])'
<1>1. /\ \A i \in DOMAIN ring[d] : DownMessage(d, ring[d][i])
      /\ \A i \in DOMAIN down[d] : DownMessage(d, down[d][i])
  BY DEF IInv, DownTraffic
<1>2. \A p : DownMessage(d, p) => DownMessage(d, p)'
  BY Stable
<1>3. (UNCHANGED <<ring, down>>) => Goal
  BY <1>1, <1>2
<1>4. ASSUME NEW c \in Clients, HandlerStep(c) PROVE Goal
  <2>1. CASE \E S : Hears(c, S)
    <3>1. down[c] # <<>> /\ down' = [down EXCEPT ![c] = Tail(down[c])] /\ UNCHANGED ring
      BY <2>1 DEF Hears, bus
    <3>2. \A i \in DOMAIN down'[d] : \E j \in DOMAIN down[d] : down'[d][i] = down[d][j]
      BY <3>1, DownPopped
    <3>3. QED BY <1>1, <1>2, <3>1, <3>2
  <2>2. CASE HandlerSends(c) \/ HandlerEnds(c)
    <3>1. UNCHANGED <<ring, down>>
      BY <2>2 DEF HandlerSends, HandlerEnds, links, bus
    <3>2. QED BY <1>3, <3>1
  <2>3. QED BY <1>4, <2>1, <2>2 DEF HandlerStep, HearsPublish, HearsPublishAck, HearsAnswer, HearsOther
<1>5. ASSUME NEW c \in Clients, WriterWrites(c) PROVE Goal
  <2>1. ring[c] # <<>>
    BY <1>5 DEF WriterWrites
  <2>2. CASE ring' = [ring EXCEPT ![c] = <<>>] /\ UNCHANGED down
    <3>1. ring'[d] = ring[d] \/ ring'[d] = <<>>
      BY <2>2, Places
    <3>2. QED BY <1>1, <1>2, <2>2, <3>1
  <2>3. CASE ring' = [ring EXCEPT ![c] = Tail(ring[c])] /\ down' = [down EXCEPT ![c] = Append(down[c], Head(ring[c]))]
    <3>1. /\ \A i \in DOMAIN ring'[d] : \E j \in DOMAIN ring[d] : ring'[d][i] = ring[d][j]
          /\ Head(ring[c]) \in Message /\ \E j \in DOMAIN ring[c] : Head(ring[c]) = ring[c][j]
      BY <2>1, <2>3, RingPopped
    <3>2. PICK m : m = Head(ring[c])
      OBVIOUS
    <3>3. m \in Message /\ DownMessage(c, m)
      BY <3>1, <3>2 DEF IInv, DownTraffic
    <3>4. \A i \in DOMAIN down'[d] : (d = c /\ down'[d][i] = m) \/ \E j \in DOMAIN down[d] : down'[d][i] = down[d][j]
      <4>1. down'[d] = IF d = c THEN Append(down[c], m) ELSE down[d]
        BY <2>3, <3>2, Places
      <4>2. down[c] \in Seq(Message)
        BY Places
      <4>3. QED BY <3>3, <4>1, <4>2, Appended
    <3>5. QED BY <1>1, <1>2, <3>1, <3>3, <3>4
  <2>4. QED BY <1>5, <2>2, <2>3 DEF WriterWrites
<1>6. ASSUME NEW c \in Clients, SessionStep(c) PROVE Goal
  <2>1. CASE Push(c)
    <3>1. PICK e \in session[c].to : SendToWebSocket(e, session[c].msg)
      BY <2>1 DEF Push
    <3>2. e \in Clients /\ UNCHANGED down
      BY <2>1, Places DEF Push, links, Session
    <3>3. session[c].msg.action \in {"publish", "direct_message"} /\ DownMessage(c, session[c].msg)
      BY <2>1, <3>1 DEF Push, IInv, DownTraffic
    <3>4. DownMessage(e, session[c].msg)
      BY <3>3 DEF DownMessage
    <3>5. QED BY <3>1, <3>2, <3>4, SendingIsSafe
  <2>2. CASE Reply(c)
    <3>1. CASE UNCHANGED <<ring, down>>
      BY <1>3, <3>1
    <3>2. CASE session[c].reply # None /\ SendResponse(c, session[c].reply)
      <4>1. session[c].reply \in Message
        BY <3>2, Places DEF Session
      <4>2. session[c].reply.action \in {"reply", "pong", "ack_status"}
        BY <3>2 DEF IInv, DownTraffic
      <4>3. DownMessage(c, session[c].reply)
        BY <4>1, <4>2 DEF DownMessage, DownActions
      <4>4. QED BY <3>2, <4>3, SendingIsSafe
    <3>3. QED BY <2>2, <3>1, <3>2 DEF Reply
  <2>3. CASE ~Push(c) /\ ~Reply(c)
    <3>1. UNCHANGED <<ring, down>>
      <4>1. CASE \E S : Receives(c, S)
        BY <4>1 DEF Receives
      <4>2. CASE PingLists(c) \/ RelayEnds(c) \/ SessionEnds(c)
        BY <4>2 DEF PingLists, RelayEnds, SessionEnds, links, bus
      <4>3. QED
        BY <1>6, <2>3, <4>1, <4>2
           DEF SessionStep, ReceivesPing, ReceivesSubscribe, ReceivesPublish, ReceivesRelay, ReceivesAcked,
               ReceivesAck, ReceivesQuestion
    <3>2. QED BY <1>3, <3>1
  <2>4. QED BY <2>1, <2>2, <2>3
<1>7. ASSUME NEW x \in tasks, TaskRuns(x) \/ TaskIsLeft(x) PROVE Goal
  <2>1. CASE TaskRuns(x)
    <3>1. x.to \in Clients /\ DownMessage(x.to, x.msg)
      BY Places DEF IInv, DownTraffic
    <3>2. (SendToWebSocket(x.to, x.msg) /\ UNCHANGED down) \/ SendResponse(x.to, x.msg)
      BY <2>1 DEF TaskRuns
    <3>3. QED BY <3>1, <3>2, SendingIsSafe
  <2>2. CASE TaskIsLeft(x)
    BY <1>3, <2>2 DEF TaskIsLeft, links
  <2>3. QED BY <1>7, <2>1, <2>2
<1>8. ASSUME NEW c \in Clients, SenderStep(c) \/ CallBegins(c) \/ CallStep(c) PROVE UNCHANGED <<ring, down>>
  <2>1. CASE SenderStep(c)
    BY <2>1 DEF SenderStep, SenderWrites, SenderFails, links, bus
  <2>2. CASE CallBegins(c)
    <3>1. \E S : Calls(c, S)
      BY <2>2 DEF CallBegins, CallSimple, CallAcked, CallWait, CallCancel, CallGetStatus, CallClose
    <3>2. QED BY <3>1 DEF Calls, bus, links
  <2>3. CASE CallStep(c)
    BY <2>3 DEF CallStep, AppSends, WaitReturns, WaitTimeout, CancelEnds, StatusReturns, CloseEnds, bus, links
  <2>4. QED BY <1>8, <2>1, <2>2, <2>3
<1>9. ASSUME NEW x \in answering, AnswerStep(x) PROVE UNCHANGED <<ring, down>>
  BY <1>9 DEF AnswerStep, CallbackEnds, AckIsSent, links, bus
<1>10. ASSUME NEW k \in DOMAIN requests, RequestStep(k) PROVE UNCHANGED <<ring, down>>
  BY <1>10 DEF RequestStep, ServerAnswers, WaitEnds, links
<1>11. ASSUME StopBegins \/ StopStep PROVE UNCHANGED <<ring, down>>
  BY <1>11 DEF StopBegins, StopStep, StopCloses, StopDrains, StopClosesBus, StopEnds, links, bus
<1>12. Goal
  <2> HIDE DEF Goal
  <2>1. QED BY <1>3, <1>4, <1>5, <1>6, <1>7, <1>8, <1>9, <1>10, <1>11 DEF Next
<1>13. QED BY <1>12

\* What the workers are given may be sent.
LEMMA TasksKept ==
    ASSUME IInv, Next
    PROVE  \A x \in tasks' : DownMessage(x.to, x.msg)' /\ x.msg.action \in {"publish_ack", "ack_response"}
<1> DEFINE Good(x) == DownMessage(x.to, x.msg)' /\ x.msg.action \in {"publish_ack", "ack_response"}
           Goal == \A x \in tasks' : Good(x)
<1>1. \A x \in tasks : Good(x)
  <2>1. SUFFICES ASSUME NEW x \in tasks PROVE Good(x)
    OBVIOUS
  <2>2. x.to \in Clients /\ DownMessage(x.to, x.msg) /\ x.msg.action \in {"publish_ack", "ack_response"}
    BY Places DEF IInv, DownTraffic
  <2>3. QED BY <2>2, Stable
<1>2. tasks' \subseteq tasks => Goal
  <2> HIDE DEF Good
  <2>1. QED BY <1>1
<1>3. ASSUME NEW c \in Clients, ReceivesAcked(c) PROVE Goal
  <2> DEFINE n == Len(requests) + 1  question == Msg("publish_ack", Head(up[c]).about, Id(Server, n), {})
  <2>0. /\ DOMAIN requests' = DOMAIN requests \cup {n}
        /\ question \in Message
        /\ \A x \in tasks' : x \in tasks \/ (x.to \in Clients /\ x.msg = question /\ x = [to |-> x.to, msg |-> x.msg])
    BY <1>3, AckedReceived, Zenon
  <2>1. PICK k, ask : k = n /\ ask = question
    OBVIOUS
  <2>2. /\ k \in DOMAIN requests' /\ ask \in Message
        /\ \A x \in tasks' : x \in tasks \/ x.msg = ask
    <3> HIDE DEF n, question
    <3>1. QED BY <2>0, <2>1
  <2>3. ask.action = "publish_ack" /\ ask.ack = Id(Server, k)
    BY <2>1 DEF Msg
  <2>4. Id(Server, k) \in Requested'
    BY <2>2 DEF Requested
  <2>5. \A e : DownMessage(e, ask)'
    BY <2>2, <2>3, <2>4 DEF DownMessage, DownActions
  <2>6. ASSUME NEW x \in tasks', x \notin tasks PROVE Good(x)
    <3>1. x.msg = ask
      BY <2>2, <2>6
    <3>2. QED BY <2>3, <2>5, <3>1
  <2> HIDE DEF Good
  <2>7. QED BY <1>1, <2>6
<1>4. ASSUME NEW k \in DOMAIN requests, WaitEnds(k) PROVE Goal
  <2>1. PICK r : r = requests[k]
    OBVIOUS
  <2>2. PICK got \in SUBSET r.received :
           tasks' = tasks \cup {[to |-> r.for.by, msg |-> Msg("ack_response", None, r.for, got)]}
    BY <1>4, <2>1 DEF WaitEnds
  <2>3. PICK m : m = Msg("ack_response", None, r.for, got)
    OBVIOUS
  <2>4. r \in Request /\ r.for \in AckId /\ got \in SUBSET Answer
    <3>1. r \in Request
      BY <2>1, Places
    <3>2. QED BY <2>2, <3>1 DEF Request
  <2>5. m \in Message /\ m.action = "ack_response" /\ m.ack = r.for /\ m.answers = got
    <3>1. m \in Message
      BY <2>3, <2>4, Messages DEF Actions
    <3>2. QED BY <2>3, <3>1 DEF Msg
  <2>6. r.for.by \in Clients /\ r.for \in Own(r.for.by) /\ \A a \in got : AnswerFor(r.for, a)
    BY <2>1, <2>2 DEF IInv, Answers, AnswerFor
  <2>7. DownMessage(r.for.by, m)
    BY <2>5, <2>6 DEF DownMessage, DownActions
  <2>8. PICK x : x = [to |-> r.for.by, msg |-> m]
    OBVIOUS
  <2>9. Good(x)
    <3>1. x.to = r.for.by /\ x.msg = m
      BY <2>8
    <3>2. DownMessage(x.to, x.msg)'
      BY <2>6, <2>7, <3>1, Stable
    <3>3. QED BY <2>5, <3>1, <3>2
  <2>10. tasks' = tasks \cup {x}
    BY <2>2, <2>3, <2>8
  <2> HIDE DEF Good
  <2>11. QED BY <1>1, <2>9, <2>10
<1>5. ASSUME NEW c \in Clients, SessionStep(c), ~ReceivesAcked(c) PROVE tasks' \subseteq tasks
  BY <1>5 DEF SessionStep, ReceivesPing, PingLists, ReceivesSubscribe, ReceivesPublish, Push, Reply,
              ReceivesRelay, RelayEnds, ReceivesAck, ReceivesQuestion, SessionEnds, bus
<1>6. ASSUME NEW x \in tasks, TaskRuns(x) \/ TaskIsLeft(x) PROVE tasks' \subseteq tasks
  BY <1>6 DEF TaskRuns, TaskIsLeft
<1>7. ASSUME NEW k \in DOMAIN requests, ServerAnswers(k) PROVE tasks' \subseteq tasks
  BY <1>7 DEF ServerAnswers
<1>8. ASSUME StopBegins \/ StopStep PROVE tasks' \subseteq tasks
  BY <1>8 DEF StopBegins, StopStep, StopCloses, StopDrains, StopClosesBus, StopEnds, bus
<1>9. Goal
  <2> HIDE DEF Goal
  <2>1. QED BY <1>2, <1>3, <1>4, <1>5, <1>6, <1>7, <1>8, ServerUntouched DEF RequestStep
<1>10. QED BY <1>9

\* What a session sends is a publication, a direct message or a reply.
LEMMA SessionsKept ==
    ASSUME IInv, Next, NEW d \in Clients
    PROVE  /\ session'[d].at = "push" /\ session'[d].to # {} =>
                 session'[d].msg.action \in {"publish", "direct_message"} /\ DownMessage(d, session[d].msg)'
           /\ session'[d].reply # None => session'[d].reply.action \in {"reply", "pong", "ack_status"}
<1> DEFINE Good(s) == /\ s.at = "push" /\ s.to # {} =>
                            s.msg.action \in {"publish", "direct_message"} /\ DownMessage(d, s.msg)
                      /\ s.reply # None => s.reply.action \in {"reply", "pong", "ack_status"}
<1>1. Good(session[d])
  BY DEF IInv, DownTraffic
<1>2. ASSUME NEW s, s = session'[d], Good(s)
      PROVE  /\ session'[d].at = "push" /\ session'[d].to # {} =>
                   session'[d].msg.action \in {"publish", "direct_message"} /\ DownMessage(d, session[d].msg)'
             /\ session'[d].reply # None => session'[d].reply.action \in {"reply", "pong", "ack_status"}
  <2>1. DownMessage(d, s.msg) => DownMessage(d, s.msg)'
    BY Stable
  <2>2. QED BY <1>2, <2>1
<1>3. PICK s : s = session'[d]
  OBVIOUS
<1>4. session' = session => Good(s)
  BY <1>1, <1>3
<1>5. ASSUME NEW c \in Clients, SessionStep(c) PROVE Good(s)
  <2>1. ASSUME NEW to \in SUBSET Clients, NEW m \in Message, NEW reply \in Message \cup {None},
               Pushes(c, to, m, reply),
               to # {} => m.action \in {"publish", "direct_message"} /\ DownMessage(c, m),
               reply # None => reply.action \in {"reply", "pong", "ack_status"}
        PROVE  Good(s)
    <3>1. /\ session'[c] = [at |-> "push", to |-> to, msg |-> m, reply |-> reply]
          /\ \A e \in Clients : e # c => session'[e] = session[e]
      <4>1. PICK n : n = [at |-> "push", to |-> to, msg |-> m, reply |-> reply]
        OBVIOUS
      <4>2. session' = [session EXCEPT ![c] = n] /\ session \in [Clients -> Session]
        BY <2>1, <4>1, Places DEF Pushes
      <4>3. session'[c] = n /\ \A e \in Clients : e # c => session'[e] = session[e]
        BY <4>2
      <4>4. QED BY <4>1, <4>3
    <3>2. CASE d = c
      <4>1. s.at = "push" /\ s.to = to /\ s.msg = m /\ s.reply = reply
        BY <1>3, <3>1, <3>2
      <4>2. QED BY <2>1, <3>2, <4>1
    <3>3. CASE d # c
      <4>1. s = session[d]
        BY <1>3, <3>1, <3>3
      <4>2. QED BY <1>1, <4>1
    <3>4. QED BY <3>2, <3>3
  <2>2. ASSUME NEW at \in {"list", "relay", "over"}, Goto(c, at) PROVE Good(s)
    <3>1. /\ session'[c].at = at /\ session'[c].reply = session[c].reply
          /\ \A e \in Clients : e # c => session'[e] = session[e]
      <4>1. PICK n : n = [session[c] EXCEPT !.at = at]
        OBVIOUS
      <4>2. session' = [session EXCEPT ![c] = n] /\ session \in [Clients -> Session]
        BY <2>2, <4>1, Places DEF Goto
      <4>3. session'[c] = n /\ \A e \in Clients : e # c => session'[e] = session[e]
        BY <4>2
      <4>4. session[c] \in Session
        BY <4>2
      <4>5. n.at = at /\ n.reply = session[c].reply
        BY <4>1, <4>4 DEF Session
      <4>6. QED BY <4>3, <4>5
    <3>2. CASE d = c
      <4>1. s.at # "push" /\ s.reply = session[d].reply
        BY <1>3, <2>2, <3>1, <3>2
      <4>2. QED BY <1>1, <4>1
    <3>3. CASE d # c
      <4>1. s = session[d]
        BY <1>3, <3>1, <3>3
      <4>2. QED BY <1>1, <4>1
    <3>4. QED BY <3>2, <3>3
  <2>3. /\ Plain("reply", None) \in Message /\ Plain("pong", None) \in Message /\ Ping \in Message
        /\ Plain("reply", None).action = "reply" /\ Plain("pong", None).action = "pong"
    <3>1. Plain("reply", None) \in Message /\ Plain("pong", None) \in Message /\ Ping \in Message
      BY Messages DEF Actions
    <3>2. QED BY <3>1 DEF Plain, Msg
  <2> HIDE DEF Good
  <2>4. ASSUME NEW reply \in Message, Replies(c, reply), reply.action \in {"reply", "pong", "ack_status"}
        PROVE  Good(s)
    BY <2>1, <2>3, <2>4 DEF Replies
  <2>5. Confirms(c) => Good(s)
    BY <2>3, <2>4 DEF Confirms
  <2>6. CASE ReceivesPing(c) \/ ReceivesRelay(c) \/ SessionEnds(c)
    BY <2>2, <2>6 DEF ReceivesPing, ReceivesRelay, SessionEnds
  <2>7. CASE PingLists(c)
    BY <2>3, <2>4, <2>7 DEF PingLists
  <2>8. CASE ReceivesSubscribe(c) \/ RelayEnds(c)
    BY <2>5, <2>8 DEF ReceivesSubscribe, RelayEnds
  <2>9. CASE ReceivesPublish(c)
    <3>1. PICK m : m = Head(up[c])
      OBVIOUS
    <3>2. m \in Message /\ UpMessage(c, m) /\ m.action \in {"publish", "direct_message"}
      BY <2>9, <3>1, HeadReceived DEF ReceivesPublish, Receives
    <3>3. DownMessage(c, m)
      BY <3>2 DEF UpMessage, DownMessage, DownActions
    <3>4. CASE m.action = "publish"
      <4>1. Pushes(c, members[m.about], m, Plain("reply", None)) /\ m.about \in Topics
        BY <2>9, <3>1, <3>2, <3>4 DEF ReceivesPublish, UpMessage
      <4>2. members[m.about] \in SUBSET Clients
        BY <4>1, TypeParts DEF IInv, ServerTypes
      <4>3. QED BY <2>1, <2>3, <3>2, <3>3, <4>1, <4>2
    <3>5. CASE m.action # "publish"
      <4>1. Pushes(c, {m.about} \cap wsConns, m, None)
        BY <2>9, <3>1, <3>5 DEF ReceivesPublish
      <4>2. {m.about} \cap wsConns \in SUBSET Clients
        BY Places
      <4>3. QED BY <2>1, <3>2, <3>3, <4>1, <4>2
    <3>6. QED BY <3>4, <3>5
  <2>10. CASE Push(c)
    <3>1. PICK e \in session[c].to : session' = [session EXCEPT ![c].to = session[c].to \ {e}]
      BY <2>10 DEF Push
    <3>2. session[c].to \ {e} \in SUBSET Clients
      BY Places DEF Session
    <3>3. /\ session'[c].to = session[c].to \ {e} /\ session'[c].at = session[c].at
          /\ session'[c].msg = session[c].msg /\ session'[c].reply = session[c].reply
          /\ \A g \in Clients : g # c => session'[g] = session[g]
      BY <3>1, <3>2, Places, Messages, SessionFacts
    <3>4. QED BY <1>1, <1>3, <3>3 DEF Good
  <2>11. CASE Reply(c)
    <3>1. session'[d] = Reading \/ session'[d] = session[d]
      BY <2>11, Places DEF Reply
    <3>2. Reading.at = "read" /\ Reading.reply = None
      BY DEF Reading
    <3>3. QED BY <1>1, <1>3, <3>1, <3>2 DEF Good
  <2>12. CASE ReceivesAcked(c) \/ ReceivesAck(c)
    BY <1>4, <2>12 DEF ReceivesAcked, ReceivesAck
  <2>13. CASE ReceivesQuestion(c)
    <3>1. PICK m : m = Head(up[c])
      OBVIOUS
    <3>2. m.ack \in AckId \cup {None}
      BY <2>13, <3>1, HeadReceived, Messages DEF ReceivesQuestion, Receives
    <3>3. PICK a, b : a = Msg("reply", None, m.ack, {}) /\ b = Msg("ack_status", None, m.ack, Status(m.ack))
      OBVIOUS
    <3>4. a \in Message /\ b \in Message
      <4>1. Status(m.ack) \in SUBSET Answer
        BY Places, StatusIsOfAnswers
      <4>2. QED BY <3>2, <3>3, <4>1, Messages DEF Actions
    <3>5. a.action = "reply" /\ b.action = "ack_status"
      BY <3>3 DEF Msg
    <3>6. Replies(c, a) \/ Replies(c, b)
      BY <2>13, <3>1, <3>3 DEF ReceivesQuestion
    <3>7. QED BY <2>4, <3>4, <3>5, <3>6
  <2>14. QED
    BY <1>5, <2>6, <2>7, <2>8, <2>9, <2>10, <2>11, <2>12, <2>13 DEF SessionStep
<1>6. ASSUME NEW x \in tasks, TaskRuns(x) \/ TaskIsLeft(x) PROVE session' = session
  BY <1>6 DEF TaskRuns, TaskIsLeft
<1>7. ASSUME NEW k \in DOMAIN requests, RequestStep(k) PROVE session' = session
  BY <1>7 DEF RequestStep, ServerAnswers, WaitEnds
<1>8. ASSUME StopBegins \/ StopStep PROVE session' = session
  BY <1>8 DEF StopBegins, StopStep, StopCloses, StopDrains, StopClosesBus, StopEnds
<1>9. Good(s)
  <2> HIDE DEF Good
  <2>1. QED BY <1>4, <1>5, <1>6, <1>7, <1>8, ServerUntouched
<1>10. QED BY <1>2, <1>3, <1>9

\* Whatever the server has for its clients may be sent to them.
LEMMA DownTrafficKept ==
    ASSUME IInv, Next
    PROVE  DownTraffic'
BY LinksKept, TasksKept, SessionsKept DEF DownTraffic

-----------------------------------------------------------------------------
(* The invariant, and what follows *)

\* Nothing is on its way yet, but for the pings of the clients that register.
LEMMA InitIInv ==
    Init => IInv
<1>1. SUFFICES ASSUME Init PROVE IInv
  OBVIOUS
<1>2. TypeOK
  BY <1>1, InitTypeOK
<1>3. CallsAreOfTheProgram
  BY <1>1 DEF Init, CallsAreOfTheProgram
<1>4. \A d, k : ~Has(<<>>, AskFor(k)) /\ ~Has(<<>>, CallOf(d, k))
  BY DEF Has
<1>5. UpTraffic
  <2>1. SUFFICES ASSUME NEW c \in Clients
                 PROVE  /\ \A i \in DOMAIN node[c].queue : UpMessage(c, node[c].queue[i])
                        /\ \A i \in DOMAIN up[c] : UpMessage(c, up[c][i])
                        /\ app[c].at = "idle" /\ handler[c].at = "read"
    BY DEF UpTraffic
  <2>2. UpMessage(c, Ping)
    <3>1. Ping \in Message /\ Ping.action = "ping"
      BY Messages
    <3>2. QED BY <3>1 DEF UpMessage, UpActions, Sent, Acked
  <2>3. node[c].queue = <<Ping>> \/ node[c].queue = <<>>
    <3>1. node[c] = [connected |-> TRUE, done |-> FALSE, sender |-> TRUE,
                     queue |-> IF c \in program.fresh THEN <<Ping>> ELSE <<>>]
      BY <1>1 DEF Init
    <3>2. QED BY <3>1
  <2>4. \A i \in DOMAIN node[c].queue : node[c].queue[i] = Ping
    BY <2>3
  <2>5. up[c] = <<>> /\ app[c].at = "idle" /\ handler[c].at = "read"
    BY <1>1 DEF Init
  <2>6. QED BY <2>2, <2>4, <2>5
<1>6. DownTraffic
  <2>1. SUFFICES ASSUME NEW c \in Clients
                 PROVE  ring[c] = <<>> /\ down[c] = <<>> /\ session[c].at = "read" /\ session[c].reply = None
    BY <1>1 DEF DownTraffic, Init
  <2>2. QED BY <1>1 DEF Init
<1>7. \A c \in Clients : DOMAIN acks[c] = {}
  BY <1>1 DEF Init
<1>8. DOMAIN requests = {}
  BY <1>1 DEF Init
<1>9. Answers
  <2>1. answering = {} /\ ran = {}
    BY <1>1 DEF Init
  <2>2. QED BY <1>7, <1>8, <2>1 DEF Answers
<1>10. CallsInOnePlace /\ QuestionsInOnePlace
  BY <1>7, <1>8 DEF CallsInOnePlace, QuestionsInOnePlace
<1>11. QED BY <1>2, <1>3, <1>5, <1>6, <1>9, <1>10 DEF IInv

\* Every step keeps it.
LEMMA NextIInv ==
    IInv /\ Next => IInv'
BY TypesKept, ProgramKept, UpTrafficKept, DownTrafficKept, AnswersKept, CallsKept, QuestionsKept
   DEF IInv

\* So does one that changes nothing.
LEMMA StutterIInv ==
    IInv /\ UNCHANGED vars => IInv'
<1>1. SUFFICES ASSUME IInv, UNCHANGED vars PROVE IInv'
  OBVIOUS
<1>2. UNCHANGED <<program, node, subs, chats, acks, app, handler, answering, ran, up, down, closed,
                  session, ring, wsConns, connections, members, requests, tasks, stop, panicked>>
  BY <1>1 DEF vars, local, links, bus
<1>3. TypeOK' /\ CallsAreOfTheProgram'
  BY <1>1, <1>2 DEF IInv, TypeOK, CallsAreOfTheProgram
<1>4. Requested' = Requested /\ \A c : Own(c)' = Own(c)
  BY <1>2 DEF Requested, Own
<1>5. \A d, k : /\ Tasked(d, k)' = Tasked(d, k) /\ Running(d, k)' = Running(d, k)
                /\ Succeeded(d, k)' = Succeeded(d, k) /\ Lost(d, k)' = Lost(d, k)
  BY <1>2 DEF Tasked, Running, Succeeded, Lost
<1>6. \A r, k : Told(r, k)' = Told(r, k)
  BY <1>5 DEF Told
<1>7. \A id, r : AnswerTo(id, r)' = AnswerTo(id, r) /\ AnswerFor(id, r)' = AnswerFor(id, r)
  BY <1>2, <1>6 DEF AnswerTo, AnswerFor
<1>8. \A c, m : UpMessage(c, m)' = UpMessage(c, m) /\ DownMessage(c, m)' = DownMessage(c, m)
  BY <1>4, <1>7 DEF UpMessage, DownMessage
<1>9. UpTraffic' /\ DownTraffic'
  BY <1>1, <1>2, <1>8 DEF IInv, UpTraffic, DownTraffic
<1>10. Answers'
  BY <1>1, <1>2, <1>4, <1>6, <1>7 DEF IInv, Answers
<1>11. CallsInOnePlace' /\ QuestionsInOnePlace'
  BY <1>1, <1>2
     DEF IInv, CallsInOnePlace, QuestionsInOnePlace, CallIsInOnePlace, QuestionIsInOnePlace, ToSend, Made,
         Tasked, Running, Succeeded
<1>12. QED BY <1>3, <1>9, <1>10, <1>11 DEF IInv

\* What is told of a request is what happened: whoever is said to have failed is lost to
\* it, and no other request is for the same call.
LEMMA GenuineFollows ==
    IInv => AnswersAreGenuine
<1>1. SUFFICES ASSUME IInv, NEW c \in Clients, NEW n \in DOMAIN acks[c],
                      NEW r \in acks[c][n].responses \cup acks[c][n].result
               PROVE  r.ok <=> \E k \in DOMAIN requests :
                                   requests[k].for = Id(c, n) /\ Succeeded(r.client, k)
  BY DEF AnswersAreGenuine, Succeeded
<1>2. PICK k \in DOMAIN requests : requests[k].for = Id(c, n) /\ Told(r, k)
  BY <1>1 DEF IInv, Answers, AnswerFor
<1>3. \A j \in DOMAIN requests : requests[j].for = Id(c, n) => j = k
  BY <1>1, <1>2 DEF IInv, CallsInOnePlace, CallIsInOnePlace
<1>4. r.ok => Succeeded(r.client, k)
  BY <1>2 DEF Told
<1>5. ~r.ok => ~Succeeded(r.client, k)
  BY <1>2 DEF Told, Lost
<1>6. QED BY <1>2, <1>3, <1>4, <1>5

\* Every reachable state satisfies the invariant.
LEMMA InvHolds ==
    Spec => []IInv
<1>1. IInv /\ [Next]_vars => IInv'
  BY NextIInv, StutterIInv
<1>2. QED BY InitIInv, <1>1, PTL DEF Spec

\* Type correctness: the goroutines of the clients and of the server find every buffer
\* and every record as they expect it, whatever the programs are (client.go, server.go).
THEOREM TypeCorrect ==
    Spec => []TypeOK
<1>1. IInv => TypeOK
  BY DEF IInv
<1>2. QED BY InvHolds, <1>1, PTL

\* What Wait and WaitAny return of a request is what happened: a question is in one place
\* at a time on its way from the bus to a callback, it is asked of nobody twice, and a
\* failure is only said of somebody whom the question will not reach any more
\* (client.go:360-391, server.go:551-594, 731-796).
THEOREM AnswersGenuine ==
    Spec => []AnswersAreGenuine
BY InvHolds, GenuineFollows, PTL
=============================================================================
