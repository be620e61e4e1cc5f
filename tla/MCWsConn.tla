------------------------------ MODULE MCWsConn ------------------------------
(* Instances of WsConn for TLC. *)
EXTENDS WsConn, TLC

CONSTANTS srv, cli, w1, w2, w3, m1, m2, m3, m4

OwnerOf == w1 :> srv @@ w2 :> cli @@ w3 :> srv
SizeOf == m1 :> 1 @@ m2 :> 1 @@ m3 :> 3 @@ m4 :> 4

Say(do) == [do |-> do, msg |-> None]
Sends(do, m) == [do |-> do, msg |-> m]

By(a, b, c) == w1 :> a @@ w2 :> b @@ w3 :> c
Reading(mode) == [s \in Sides |-> mode]

\* Messages in one frame both ways, while an end may say close.
Talk == [calls |-> By(<<Sends("WriteMessage", m1), Sends("WriteMessageDirect", m4)>>,
                      <<Sends("WriteMessageDirect", m2), Say("close")>>,
                      <<Say("ping"), Say("close")>>),
         reads |-> srv :> "ReadMessage" @@ cli :> "NextReader",
         pieces |-> FALSE, deadlines |-> {}, cleans |-> FALSE, tls |-> FALSE]

\* A message in several frames one way, with control messages both ways.
Frames == [calls |-> By(<<Sends("NextWriter", m3), Sends("NextWriter", m1)>>,
                        <<Say("ping"), Say("close")>>, <<>>),
           reads |-> Reading("ReadAll"), pieces |-> TRUE, deadlines |-> {}, cleans |-> FALSE,
          tls |-> FALSE]

\* Writes that time out and are tried again in the pool, which is shut down.
Late == [calls |-> By(<<Sends("WriteMessage", m1)>>, <<>>, <<Sends("WriteMessage", m2)>>),
         reads |-> Reading("ReadAll"), pieces |-> TRUE, deadlines |-> {srv}, cleans |-> TRUE,
         tls |-> FALSE]

\* An end that closes its connection when it has written.
Leave == [calls |-> By(<<Say("ping"), Say("close")>>, <<Sends("NextWriter", m3), Say("Close")>>, <<>>),
          reads |-> Reading("ReadAll"), pieces |-> TRUE, deadlines |-> {cli}, cleans |-> FALSE,
          tls |-> FALSE]

\* A message given up, and the one after it.
Cut == [calls |-> By(<<Sends("NextWriter", m3), Say("ping"), Sends("WriteMessageDirect", m1)>>, <<>>,
                     <<>>),
        reads |-> Reading("ReadAll"), pieces |-> FALSE, deadlines |-> {srv}, cleans |-> FALSE,
        tls |-> TRUE]

Nobody == [calls |-> By(<<>>, <<>>, <<>>), reads |-> Reading("ReadAll"), pieces |-> FALSE,
           deadlines |-> {}, cleans |-> FALSE, tls |-> FALSE]

\* What the claims of the last part of WsConn are refuted with: ReadMessage of a message
\* in several frames; control messages while a frame is written in two; two writers of
\* frames; a NextWriter that ends while its own side reads a message that comes in
\* pieces; pings that nobody has time to answer; and a message given up at its first
\* frame, before one that is as long as the limit.
Fragments == [Nobody EXCEPT !.calls = By(<<Sends("NextWriter", m3)>>, <<>>, <<>>),
                            !.reads = Reading("ReadMessage")]
Between == [Nobody EXCEPT !.calls = By(<<Sends("NextWriter", m3)>>, <<>>, <<Say("ping")>>),
                          !.tls = TRUE]
Two == [Nobody EXCEPT !.calls = By(<<Sends("NextWriter", m3)>>, <<>>, <<Sends("NextWriter", m1)>>)]
Both == [Nobody EXCEPT !.calls = By(<<Sends("NextWriter", m1)>>, <<Sends("WriteMessageDirect", m1)>>, <<>>),
                       !.pieces = TRUE]
Pings == [Nobody EXCEPT !.calls = By(<<Say("ping"), Say("ping"), Say("ping")>>,
                                     <<Say("ping"), Say("ping"), Say("ping")>>, <<>>)]
Skips == [Nobody EXCEPT !.calls = By(<<>>, <<Sends("NextWriter", m3), Sends("WriteMessageDirect", m3)>>,
                                     <<>>),
                        !.reads = Reading("NextReader")]

All == {Talk, Frames, Late, Leave, Cut}
Refuted == {Talk, Late, Fragments, Between, Two, Both, Pings, Skips}
=============================================================================
