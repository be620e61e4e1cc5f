------------------------------- MODULE PubSub -------------------------------
(***************************************************************************)
(* What the in-process bus of ksps promises its callers, with nothing of   *)
(* how it does it: a subscriber belongs to one topic from Subscribe until  *)
(* it unsubscribes (or its weak pointer dies), and the callback of a       *)
(* subscriber starts at most once for a message, only for a message that   *)
(* was published on its own topic, and only while it is subscribed.  The   *)
(* bus may lose messages (the event channel drops when full) and may       *)
(* reorder them (callbacks run on a pool of workers), so nothing is said   *)
(* of completeness or of order.  TopicBus implements this specification.   *)
(***************************************************************************)
EXTENDS Naturals

CONSTANTS Topics,   (* topic names                                         *)
          Subs,     (* subscribers: one per call of Subscribe              *)
          Msgs,     (* messages: one per call of Publish                   *)
          NoTopic   (* the topic of what has not been subscribed/published *)

VARIABLES status,    (* status[s]: "out", "in" or "left"                   *)
          topicOf,   (* topicOf[s]: the topic s subscribed to              *)
          published, (* published[m]: the topic m was published on         *)
          started,   (* started[s, m]: starts of the callback of s on m    *)
          finished   (* finished[s, m]: its returns                        *)

vars == <<status, topicOf, published, started, finished>>

Init ==
    /\ status = [s \in Subs |-> "out"]
    /\ topicOf = [s \in Subs |-> NoTopic]
    /\ published = [m \in Msgs |-> NoTopic]
    /\ started = [d \in Subs \X Msgs |-> 0]
    /\ finished = [d \in Subs \X Msgs |-> 0]

Join(s, t) ==
    /\ status[s] = "out"
    /\ status' = [status EXCEPT ![s] = "in"]
    /\ topicOf' = [topicOf EXCEPT ![s] = t]
    /\ UNCHANGED <<published, started, finished>>

Leave(s) ==
    /\ status[s] = "in"
    /\ status' = [status EXCEPT ![s] = "left"]
    /\ UNCHANGED <<topicOf, published, started, finished>>

Post(m, t) ==
    /\ published[m] = NoTopic
    /\ published' = [published EXCEPT ![m] = t]
    /\ UNCHANGED <<status, topicOf, started, finished>>

Begin(s, m) ==
    /\ status[s] = "in"
    /\ published[m] = topicOf[s]
    /\ started[<<s, m>>] = 0
    /\ started' = [started EXCEPT ![<<s, m>>] = 1]
    /\ UNCHANGED <<status, topicOf, published, finished>>

Finish(s, m) ==
    /\ finished[<<s, m>>] < started[<<s, m>>]
    /\ finished' = [finished EXCEPT ![<<s, m>>] = @ + 1]
    /\ UNCHANGED <<status, topicOf, published, started>>

Next ==
    \/ \E s \in Subs, t \in Topics : Join(s, t)
    \/ \E s \in Subs : Leave(s)
    \/ \E m \in Msgs, t \in Topics : Post(m, t)
    \/ \E s \in Subs, m \in Msgs : Begin(s, m) \/ Finish(s, m)

Spec == Init /\ [][Next]_vars
=============================================================================
