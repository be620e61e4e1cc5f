---------------------------- MODULE AckRequests ----------------------------
(***************************************************************************)
(* Publication with acknowledgments (src/ksps/bus.go): publishWithAck,     *)
(* handleAck, Ack.Wait, WaitAny and Cancel, the cleanup worker.            *)
(*                                                                         *)
(* The subscribers of the one topic involved, internal ones and WebSocket  *)
(* clients alike, are the members; those that get a message may answer     *)
(* it at any time, more than once, or never.  Time is the passing of a     *)
(* request's timeout; Wait starts its own timer later than the request's,  *)
(* so it fires only after that.                                            *)
(***************************************************************************)
EXTENDS Integers, Sequences, FiniteSets

CONSTANTS Acks,        (* acknowledgment requests: calls of publishWithAck     *)
          Clients,     (* subscribers of the topic                             *)
          Waiters,     (* goroutines that wait for a request                   *)
          AnyWaiters,  (* those of them that call WaitAny instead of Wait      *)
          AckCap,      (* capacity of ackCh (100 in the code)                  *)
          Moving,      (* the clients that join and leave the topic meanwhile  *)
          NoAck        (* the request of a waiter that has not called          *)

ASSUME AckAssumption ==
    /\ AckCap \in Nat \ {0}
    /\ IsFiniteSet(Clients)
    /\ AnyWaiters \subseteq Waiters
    /\ Moving \subseteq Clients
    /\ NoAck \notin Acks

VARIABLES
    members,    (* the subscribers of the topic                               *)
    stage,      (* how far publishWithAck has come with a request             *)
    expected,   (* the clients counted for it: the keys of received, at first *)
    received,   (* the clients c with received[c] = true                      *)
    remaining,  (* the counter of those still to come                         *)
    delivered,  (* the clients the message was published to                   *)
    listed,     (* the requests in ps.ackRequests                             *)
    ackCh,      (* the answers waiting in its channel                         *)
    closes,     (* how often the channel was closed                           *)
    expired,    (* the requests older than their timeout                      *)
    handler,    (* handler[<<a, c>>]: the call of handleAck under way         *)
    waiter,     (* waiter[w]: where a waiter stands, and how it returned      *)
    waitsFor,   (* the request it waits for                                   *)
    got,        (* the clients whose answers it has                           *)
    cleaner     (* the cleanup worker: "running", "told" (done closed), "gone" *)

ackVars == <<members, stage, expected, received, remaining, delivered, listed, ackCh,
          closes, expired, handler, waiter, waitsFor, got, cleaner>>
request == <<stage, expected, received, remaining, delivered, listed, ackCh, closes, expired>>
waiting == <<waiter, waitsFor, got>>

Returned == {"empty", "complete", "one", "closed", "timeout"}

\* Types, and the capacity of the channel.
AckTypeOK ==
    /\ members \subseteq Clients
    /\ stage \in [Acks -> {"new", "counted", "registered", "published"}]
    /\ expected \in [Acks -> SUBSET Clients]
    /\ received \in [Acks -> SUBSET Clients]
    /\ remaining \in [Acks -> Int]
    /\ delivered \in [Acks -> SUBSET Clients]
    /\ listed \subseteq Acks
    /\ ackCh \in [Acks -> Seq(Clients)]
    /\ \A a \in Acks : Len(ackCh[a]) <= AckCap
    /\ closes \in [Acks -> Nat]
    /\ expired \subseteq Acks
    /\ handler \in [Acks \X Clients -> {"idle", "found", "marked"}]
    /\ waiter \in [Waiters -> {"idle", "waiting", "received", "releasing"} \cup Returned]
    /\ waitsFor \in [Waiters -> Acks \cup {NoAck}]
    /\ \A w \in Waiters : waiter[w] # "idle" => waitsFor[w] \in Acks
    /\ got \in [Waiters -> SUBSET Clients]
    /\ cleaner \in {"running", "told", "gone"}

AckInit ==
    /\ members \in SUBSET Clients
    /\ stage = [a \in Acks |-> "new"]
    /\ expected = [a \in Acks |-> {}]
    /\ received = [a \in Acks |-> {}]
    /\ remaining = [a \in Acks |-> 0]
    /\ delivered = [a \in Acks |-> {}]
    /\ listed = {}
    /\ ackCh = [a \in Acks |-> <<>>]
    /\ closes = [a \in Acks |-> 0]
    /\ expired = {}
    /\ handler = [h \in Acks \X Clients |-> "idle"]
    /\ waiter = [w \in Waiters |-> "idle"]
    /\ waitsFor = [w \in Waiters |-> NoAck]
    /\ got = [w \in Waiters |-> {}]
    /\ cleaner = "running"

-----------------------------------------------------------------------------
(* publishWithAck: the members are read to be counted, and again to publish. *)

MembersChange ==
    /\ \E c \in Moving : members' = IF c \in members THEN members \ {c} ELSE members \cup {c}
    /\ UNCHANGED <<request, handler, waiting, cleaner>>

Count(a) ==
    /\ stage[a] = "new"
    /\ stage' = [stage EXCEPT ![a] = "counted"]
    /\ expected' = [expected EXCEPT ![a] = members]
    /\ remaining' = [remaining EXCEPT ![a] = Cardinality(members)]
    /\ UNCHANGED <<members, received, delivered, listed, ackCh, closes, expired, handler,
                   waiting, cleaner>>

Register(a) ==
    /\ stage[a] = "counted"
    /\ stage' = [stage EXCEPT ![a] = "registered"]
    /\ listed' = listed \cup {a}
    /\ UNCHANGED <<members, expected, received, remaining, delivered, ackCh, closes, expired,
                   handler, waiting, cleaner>>

\* publishWithAckID; some of the members may miss the message: a full
\* channel, a subscriber or a connection that is no longer active.
PublishWithAckID(a) ==
    /\ stage[a] = "registered"
    /\ stage' = [stage EXCEPT ![a] = "published"]
    /\ \E reached \in SUBSET members : delivered' = [delivered EXCEPT ![a] = reached]
    /\ UNCHANGED <<members, expected, received, remaining, listed, ackCh, closes, expired,
                   handler, waiting, cleaner>>

-----------------------------------------------------------------------------
(* handleAck: look the request up, mark the client, send to the channel. *)

HandleLookup(a, c) ==
    /\ handler[<<a, c>>] = "idle"
    /\ c \in delivered[a]
    /\ a \in listed
    /\ handler' = [handler EXCEPT ![<<a, c>>] = "found"]
    /\ UNCHANGED <<members, request, waiting, cleaner>>

\* Mutant: a client is counted as often as it answers.
CountDownAlways(a, c) == remaining' = [remaining EXCEPT ![a] = @ - 1]

\* Under ackReq.mu, once per client.  A client that was not counted has no
\* entry in received and counts as well.
CountDown(a, c) ==
    IF c \in received[a] THEN UNCHANGED remaining
    ELSE remaining' = [remaining EXCEPT ![a] = @ - 1]

\* Mutant: only clients that were counted are marked.
HandleMarkCounted(a, c) ==
    /\ handler[<<a, c>>] = "found"
    /\ handler' = [handler EXCEPT ![<<a, c>>] = "marked"]
    /\ CountDown(a, c)
    /\ received' = [received EXCEPT ![a] = @ \cup ({c} \cap expected[a])]
    /\ UNCHANGED <<members, stage, expected, delivered, listed, ackCh, closes, expired,
                   waiting, cleaner>>

HandleMark(a, c) ==
    /\ handler[<<a, c>>] = "found"
    /\ handler' = [handler EXCEPT ![<<a, c>>] = "marked"]
    /\ CountDown(a, c)
    /\ received' = [received EXCEPT ![a] = @ \cup {c}]
    /\ UNCHANGED <<members, stage, expected, delivered, listed, ackCh, closes, expired,
                   waiting, cleaner>>

\* Mutants: no test of the capacity; the answer is dropped once nobody
\* remains to be waited for.
AnswerUnbounded(a, c) == Append(ackCh[a], c)
AnswerUnlessLast(a, c) ==
    IF closes[a] = 0 /\ remaining[a] > 0 /\ Len(ackCh[a]) < AckCap
    THEN Append(ackCh[a], c) ELSE ackCh[a]

\* A full channel drops the answer; a closed one panics, which is recovered.
Answer(a, c) ==
    IF closes[a] = 0 /\ Len(ackCh[a]) < AckCap THEN Append(ackCh[a], c) ELSE ackCh[a]

HandleSend(a, c) ==
    /\ handler[<<a, c>>] = "marked"
    /\ handler' = [handler EXCEPT ![<<a, c>>] = "idle"]
    /\ ackCh' = [ackCh EXCEPT ![a] = Answer(a, c)]
    /\ UNCHANGED <<members, stage, expected, received, remaining, delivered, listed, closes,
                   expired, waiting, cleaner>>

-----------------------------------------------------------------------------
(* The end of a request: cancelAck and the cleanup worker, under ackMu. *)

\* Mutants: the channels are closed whether or not the requests were still
\* listed; the requests leave the map with their channels open.
CloseAgain(as) ==
    /\ listed' = listed \ as
    /\ closes' = [a \in Acks |-> IF a \in as THEN closes[a] + 1 ELSE closes[a]]
ForgetOnly(as) ==
    /\ listed' = listed \ as
    /\ UNCHANGED closes

Unlist(as) ==
    /\ listed' = listed \ as
    /\ closes' = [a \in Acks |-> IF a \in as \cap listed THEN closes[a] + 1 ELSE closes[a]]

\* Ack.Cancel, by a caller of publishWithAck.
Cancel(a) ==
    /\ stage[a] = "published"
    /\ Unlist({a})
    /\ UNCHANGED <<members, stage, expected, received, remaining, delivered, ackCh, expired,
                   handler, waiting, cleaner>>

Expire(a) ==
    /\ stage[a] # "new"
    /\ expired' = expired \cup {a}
    /\ UNCHANGED <<members, stage, expected, received, remaining, delivered, listed, ackCh,
                   closes, handler, waiting, cleaner>>

\* Mutant: only the requests that everybody answered are cleaned up.
OverdueComplete == {a \in expired : remaining[a] <= 0}

Overdue == expired

CleanerTick ==
    /\ cleaner # "gone"
    /\ Unlist(Overdue)
    /\ UNCHANGED <<members, stage, expected, received, remaining, delivered, ackCh, expired,
                   handler, waiting, cleaner>>

\* Bus.Close ends the worker, which may still take a tick before it sees done.
CleanerStop ==
    /\ cleaner' = IF cleaner = "running" THEN "told" ELSE "gone"
    /\ UNCHANGED <<members, request, handler, waiting>>

-----------------------------------------------------------------------------
(* Ack.Wait and Ack.WaitAny. *)

WaitCall(w, a) ==
    /\ waiter[w] = "idle"
    /\ stage[a] = "published"
    /\ waiter' = [waiter EXCEPT ![w] = IF remaining[a] <= 0 THEN "empty" ELSE "waiting"]
    /\ waitsFor' = [waitsFor EXCEPT ![w] = a]
    /\ UNCHANGED <<members, request, handler, got, cleaner>>

WaitReceive(w, a) ==
    /\ waiter[w] = "waiting" /\ waitsFor[w] = a
    /\ ackCh[a] # <<>>
    /\ ackCh' = [ackCh EXCEPT ![a] = Tail(@)]
    /\ got' = [got EXCEPT ![w] = @ \cup {Head(ackCh[a])}]
    /\ waiter' = [waiter EXCEPT ![w] = IF w \in AnyWaiters THEN "one" ELSE "received"]
    /\ UNCHANGED <<members, stage, expected, received, remaining, delivered, listed, closes,
                   expired, handler, waitsFor, cleaner>>

\* Mutant: Wait is satisfied with one answer, as WaitAny is.
SatisfiedByFirst(w, a) == got[w] # {}

Satisfied(w, a) == remaining[a] <= 0

WaitCheck(w, a) ==
    /\ waiter[w] = "received" /\ waitsFor[w] = a
    /\ waiter' = [waiter EXCEPT ![w] = IF Satisfied(w, a) THEN "releasing" ELSE "waiting"]
    /\ UNCHANGED <<members, request, handler, waitsFor, got, cleaner>>

WaitRelease(w, a) ==
    /\ waiter[w] = "releasing" /\ waitsFor[w] = a
    /\ waiter' = [waiter EXCEPT ![w] = "complete"]
    /\ Unlist({a})
    /\ UNCHANGED <<members, stage, expected, received, remaining, delivered, ackCh, expired,
                   handler, waitsFor, got, cleaner>>

\* A closed channel still yields what it holds first.
WaitClosed(w, a) ==
    /\ waiter[w] = "waiting" /\ waitsFor[w] = a
    /\ closes[a] > 0 /\ ackCh[a] = <<>>
    /\ waiter' = [waiter EXCEPT ![w] = "closed"]
    /\ UNCHANGED <<members, request, handler, waitsFor, got, cleaner>>

WaitTimeout(w, a) ==
    /\ waiter[w] = "waiting" /\ waitsFor[w] = a
    /\ a \in expired
    /\ waiter' = [waiter EXCEPT ![w] = "timeout"]
    /\ UNCHANGED <<members, request, handler, waitsFor, got, cleaner>>

-----------------------------------------------------------------------------
AckNext ==
    \/ MembersChange
    \/ CleanerTick
    \/ CleanerStop
    \/ \E a \in Acks :
          \/ Count(a)
          \/ Register(a)
          \/ PublishWithAckID(a)
          \/ Cancel(a)
          \/ Expire(a)
          \/ \E c \in Clients : HandleLookup(a, c) \/ HandleMark(a, c) \/ HandleSend(a, c)
          \/ \E w \in Waiters : \/ WaitCall(w, a)
                                \/ WaitReceive(w, a)
                                \/ WaitCheck(w, a)
                                \/ WaitRelease(w, a)
                                \/ WaitClosed(w, a)
                                \/ WaitTimeout(w, a)

AckSpec == AckInit /\ [][AckNext]_ackVars

\* Goroutines run; clients, callers and the clock owe nothing.
AckFairness ==
    /\ \A a \in Acks, c \in Clients : WF_ackVars(HandleMark(a, c)) /\ WF_ackVars(HandleSend(a, c))
    /\ \A a \in Acks, w \in Waiters :
          /\ WF_ackVars(WaitReceive(w, a) \/ WaitClosed(w, a))
          /\ WF_ackVars(WaitCheck(w, a) \/ WaitRelease(w, a))

FairAckSpec == AckSpec /\ AckFairness

\* Time passes as well, and the ticker ticks.
TimePasses == WF_ackVars(CleanerTick) /\ \A a \in Acks : WF_ackVars(Expire(a))

-----------------------------------------------------------------------------
(* Safety. *)

\* The map and the channels agree: a registered request is in the map and its
\* channel open, or it is out of it and its channel was closed once, whichever
\* of Cancel, a satisfied Wait and the cleanup worker came first.  A second
\* close would panic with ackMu held.
ClosedOnceWhenUnlisted ==
    \A a \in Acks :
        closes[a] = IF stage[a] \in {"registered", "published"} /\ a \notin listed THEN 1 ELSE 0

\* The counter is the number of clients counted minus the number of distinct
\* clients that answered, however the answers interleave and repeat.
RemainingCountsAnswers ==
    \A a \in Acks :
        remaining[a] = Cardinality(expected[a]) - Cardinality(received[a])

\* An answer somebody waited for, or that is still in the channel, was marked
\* in received first: GetStatus and IsComplete never lag behind Wait.
AnswersWereMarked ==
    /\ \A a \in Acks : \A k \in DOMAIN ackCh[a] : ackCh[a][k] \in received[a]
    /\ \A w \in Waiters : \A c \in got[w] : c \in received[waitsFor[w]]

\* Wait says "complete", and WaitAny or Wait return at once, only after at
\* least as many distinct clients answered as were counted, although the
\* counter is read without any lock.
CompleteMeansEnoughAnswers ==
    \A w \in Waiters :
        waiter[w] \in {"releasing", "complete", "empty"}
            => Cardinality(received[waitsFor[w]]) >= Cardinality(expected[waitsFor[w]])

-----------------------------------------------------------------------------
(* Liveness. *)

\* When the last answer has been counted, a Wait under way returns without
\* its timeout: the counter reaches zero before the answer is in the channel,
\* so the Wait it wakes sees the zero, and wakes the others by closing.
\* Under FairAckSpec, unless a WaitAny took an answer from the same channel.
LastAnswerEndsWait ==
    \A a \in Acks, w \in Waiters :
        (waiter[w] = "waiting" /\ waitsFor[w] = a /\ remaining[a] <= 0)
            ~> (waiter[w] \in Returned \/ \E v \in AnyWaiters : waitsFor[v] = a /\ got[v] # {})

\* Cancel, and every other way out of the map, releases the Waits under way.
\* Under FairAckSpec.
UnlistedEndsWait ==
    \A a \in Acks, w \in Waiters :
        (waiter[w] = "waiting" /\ waitsFor[w] = a /\ stage[a] = "published" /\ a \notin listed)
            ~> (waiter[w] \in Returned)

\* No request stays in the map for ever, answered or not, waited for or not,
\* as long as the bus is open and time passes.  Under FairAckSpec.
RequestsAreForgotten ==
    TimePasses => \A a \in Acks : (a \in listed) ~> (a \notin listed \/ cleaner = "gone")

-----------------------------------------------------------------------------
(* What the documentation and a comment claim and the code does not do. *)

\* "Bloque jusqu'à ce que tous aient répondu (ou timeout)": a Wait that was
\* neither cancelled nor timed out returns the answer of every client counted.
WaitReturnsEveryAnswer ==
    \A w \in Waiters :
        waiter[w] = "complete" => expected[waitsFor[w]] \subseteq got[w]

\* The same claim of a Wait that is called when all have answered already.
FastAnswersAreReturned ==
    \A w \in Waiters \ AnyWaiters :
        waiter[w] = "empty" => expected[waitsFor[w]] \subseteq got[w]

\* "Vérifier si tous les ACK sont reçus": when the counter says so, every
\* client counted has answered.
ZeroMeansEveryone ==
    \A a \in Acks : stage[a] = "published" /\ remaining[a] <= 0 => expected[a] \subseteq received[a]
=============================================================================
