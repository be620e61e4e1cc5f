--------------------------- MODULE MCServerSessions ---------------------------
(* Instances of ServerSessions for TLC. *)
EXTENDS ServerSessions, TLC

CONSTANTS a, b, t

Do(do, about) == [do |-> do, about |-> about, ack |-> 0]
For(do, n) == [do |-> do, about |-> None, ack |-> n]
By(x, y) == a :> x @@ b :> y
Chats(x, y) == a :> x @@ b :> y

\* Callbacks that publish what their own client hears, as it publishes itself.
Chat == [calls |-> By(<<Do("subscribe", t), Do("publish", t), Do("publish", t), Do("publish", t),
                        Do("publish", t)>>,
                      <<Do("direct_message", a)>>),
         chats |-> Chats(2, 0), fresh |-> {}, stops |-> FALSE]

\* Acknowledgments from a topic that a client joins and leaves.
Ask == [calls |-> By(<<Do("publish_with_ack", t), For("Wait", 1)>>,
                     <<Do("subscribe", t), Do("unsubscribe", t)>>),
        chats |-> Chats(0, 0), fresh |-> {}, stops |-> FALSE]

\* An acknowledgment from a client that leaves.
Direct == [calls |-> By(<<Do("publish_to_id_with_ack", b), For("WaitAny", 1)>>,
                        <<Do("Close", None)>>),
           chats |-> Chats(0, 0), fresh |-> {}, stops |-> FALSE]

\* One from the server, and what else can be done with a ClientAck.
Self == [calls |-> By(<<Do("publish_to_id_with_ack", Server), For("GetStatus", 1), For("Wait", 1),
                        For("Cancel", 1)>>,
                      <<Do("publish_to_server", None)>>),
         chats |-> Chats(0, 0), fresh |-> {}, stops |-> FALSE]

\* A server that is stopped while a client joins and asks.
Halt == [calls |-> By(<<Do("publish_with_ack", t)>>, <<Do("subscribe", t)>>),
         chats |-> Chats(0, 0), fresh |-> {a}, stops |-> TRUE]

All == {Chat, Ask, Direct, Self, Halt}

\* What the claims of the last part of ServerSessions are refuted with: a request whose
\* status is asked for and that is cancelled,
Manage ==
    [calls |-> By(<<Do("publish_with_ack", t), For("GetStatus", 1), For("Cancel", 1)>>,
                  <<Do("subscribe", t)>>),
     chats |-> Chats(0, 0), fresh |-> {}, stops |-> FALSE]

\* one that is made and waited for when the server is gone,
Gone == [calls |-> By(<<Do("publish_with_ack", t), For("Wait", 1)>>, <<>>),
         chats |-> Chats(0, 0), fresh |-> {}, stops |-> TRUE]

\* and a client that sends while its callbacks publish, as the server stops.
Busy == [calls |-> By(<<Do("subscribe", t), Do("publish", t), Do("publish", t), Do("publish", t),
                        Do("publish", t), Do("publish_to_id_with_ack", b),
                        Do("publish_to_id_with_ack", b), Do("publish_to_id_with_ack", b)>>, <<>>),
         chats |-> Chats(2, 0), fresh |-> {}, stops |-> TRUE]

Refuted == {Manage, Gone, Busy}
===============================================================================
