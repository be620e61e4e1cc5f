------------------------------ MODULE TopicBus ------------------------------
(***************************************************************************)
(* The in-process half of ksps.Bus (src/ksps/bus.go): Subscribe, the unsub *)
(* closures, Unsubscribe(topic), Publish, the goroutine each topic runs    *)
(* (processTopicEvents), the tasks it hands to the worker pool, and Close. *)
(*                                                                         *)
(* A critical section of the code is one action, and so is each step the   *)
(* code takes outside a lock.  dataTopics are told apart by their address, *)
(* so that a stale pointer differs from the topic's present dataTopic.     *)
(* The WebSocket side is seen only through "the topic has a wsTopicData";  *)
(* module WsRegistry has the rest.                                         *)
(***************************************************************************)
EXTENDS Naturals, Sequences, FiniteSets

CONSTANTS Topics,         (* topic names                                     *)
          Subs,           (* subscribers: one per call of Subscribe          *)
          Msgs,           (* messages: one per call of Publish               *)
          TopicDatas,     (* bound: the dataTopics there is room to allocate *)
          EventCap,       (* capacity of eventCh (1024 in the code)          *)
          BatchCap,       (* capacity of the batch slice (32 in the code)    *)
          CompactAbove,   (* compaction threshold (64 in the code)           *)
          Discarding,     (* subscribers whose caller discards the closure   *)
          WsTopics,       (* topics WebSocket clients come to and leave      *)
          MayUnsubscribe, (* topics the program calls Unsubscribe on         *)
          MayClose,       (* whether the program closes the bus              *)
          None            (* the nil pointer                                 *)

ASSUME TopicBusAssumption ==
    /\ EventCap \in Nat \ {0}
    /\ BatchCap \in Nat \ {0}
    /\ CompactAbove \in Nat
    /\ None \notin TopicDatas
    /\ None \notin Topics

VARIABLES
    topics,       (* ps.topics: topic -> dataTopic or None                   *)
    subscribers,  (* the keys of ps.subscribers                              *)
    wsTopics,     (* the keys of ps.wsSubscribers                            *)
    data,         (* the dataTopics, with the state of their goroutine       *)
    sub,          (* the subscribers, with the state of their Subscribe call *)
    unsubs,       (* calls of ps.unsubscribe under way: <<subscriber, step>> *)
    pub,          (* the Publish calls                                       *)
    task,         (* task[<<s, m>>]: executeCallback(s, m) queued, running, ran  *)
    bus           (* "open", "closing" (ps.done closed), "closed" (pool too) *)

vars == <<topics, subscribers, wsTopics, data, sub, unsubs, pub, task, bus>>

Deliveries == Subs \X Msgs

\* subscribers is the slice as a set: Subscribe appends a subscriber once, and
\* nothing depends on the order.
DataTopic ==
    [subscribers : SUBSET Subs, active : BOOLEAN, eventCh : Seq(Msgs), closes : Nat,
     compacting : BOOLEAN, proc : {"none", "running", "draining", "exited"},
     events : Seq(Msgs), last : SUBSET Subs]

Subscriber ==
    [stage : {"new", "registered", "subscribed"}, topic : Topics \cup {None},
     data : TopicDatas \cup {None}, active : BOOLEAN, alive : BOOLEAN]

PublishCall ==
    [stage : {"new", "read", "checked", "returned"}, topic : Topics \cup {None},
     target : TopicDatas \cup {None}]

TaskCounts == [queued : Nat, running : Nat, ran : Nat]

\* The capacities of the channel and of the batch slice.
WithinCapacity(d) == Len(d.eventCh) <= EventCap /\ Len(d.events) <= BatchCap

\* Types and capacities.
TypeOK ==
    /\ topics \in [Topics -> TopicDatas \cup {None}]
    /\ subscribers \subseteq Subs
    /\ wsTopics \subseteq Topics
    /\ data \in [TopicDatas -> DataTopic]
    /\ \A i \in TopicDatas : WithinCapacity(data[i])
    /\ sub \in [Subs -> Subscriber]
    /\ unsubs \subseteq Subs \X {"remove", "check"}
    /\ pub \in [Msgs -> PublishCall]
    /\ task \in [Deliveries -> TaskCounts]
    /\ bus \in {"open", "closing", "closed"}

Init ==
    /\ topics = [t \in Topics |-> None]
    /\ subscribers = {}
    /\ wsTopics = {}
    /\ data = [i \in TopicDatas |->
                  [subscribers |-> {}, active |-> FALSE, eventCh |-> <<>>, closes |-> 0,
                   compacting |-> FALSE, proc |-> "none", events |-> <<>>, last |-> {}]]
    /\ sub = [s \in Subs |-> [stage |-> "new", topic |-> None, data |-> None,
                              active |-> FALSE, alive |-> TRUE]]
    /\ unsubs = {}
    /\ pub = [m \in Msgs |-> [stage |-> "new", topic |-> None, target |-> None]]
    /\ task = [d \in Deliveries |-> [queued |-> 0, running |-> 0, ran |-> 0]]
    /\ bus = "open"

-----------------------------------------------------------------------------
\* weakSub.Value() != nil && sub.active.Load(), for the members of a slice.
Live(slice) == {s \in slice : sub[s].alive /\ sub[s].active}

\* The stop signals of processTopicEvents: ps.done and topicData.stopCh.
StopRequested(i) == bus # "open" \/ data[i].closes > 0

-----------------------------------------------------------------------------
(* Subscribe: the two critical sections of a call. *)

\* Mutant: the topic's dataTopic is replaced instead of reused.
AllocateAlways(s, t, i) ==
    /\ data[i].proc = "none"
    /\ topics' = [topics EXCEPT ![t] = i]
    /\ data' = [data EXCEPT ![i].active = TRUE, ![i].proc = "running"]

\* The topic's dataTopic: the one in the map, or else a new one, its goroutine
\* started.
FindOrAllocate(s, t, i) ==
    \/ /\ topics[t] = i
       /\ UNCHANGED <<topics, data>>
    \/ /\ topics[t] = None
       /\ data[i].proc = "none"
       /\ topics' = [topics EXCEPT ![t] = i]
       /\ data' = [data EXCEPT ![i].active = TRUE, ![i].proc = "running"]

\* Under ps.mu: enter the registry, find or create the topic's dataTopic.
SubscribeRegister(s, t, i) ==
    /\ sub[s].stage = "new"
    /\ FindOrAllocate(s, t, i)
    /\ subscribers' = subscribers \cup {s}
    /\ sub' = [sub EXCEPT ![s] = [stage |-> "registered", topic |-> t, data |-> i,
                                  active |-> TRUE, alive |-> TRUE]]
    /\ UNCHANGED <<wsTopics, unsubs, pub, task, bus>>

\* Under topicData.mu, after ps.mu was released: join the topic's slice.
SubscribeAppend(s) ==
    /\ sub[s].stage = "registered"
    /\ sub' = [sub EXCEPT ![s].stage = "subscribed"]
    /\ data' = [data EXCEPT ![sub[s].data].subscribers = @ \cup {s}]
    /\ UNCHANGED <<topics, subscribers, wsTopics, unsubs, pub, task, bus>>

-----------------------------------------------------------------------------
(* The unsub closure, which the callback receives too. *)

Unsub(s) ==
    /\ sub[s].stage = "subscribed"
    /\ sub[s].alive
    /\ sub' = [sub EXCEPT ![s].active = FALSE]
    /\ unsubs' = unsubs \cup {<<s, "remove">>}
    /\ UNCHANGED <<topics, subscribers, wsTopics, data, pub, task, bus>>

\* unsubscribe(id), under ps.mu.  A second call finds nothing to do; a
\* subscriber collected meanwhile yields no topic to look at.
UnsubRemove(s) ==
    /\ <<s, "remove">> \in unsubs
    /\ subscribers' = subscribers \ {s}
    /\ unsubs' = (unsubs \ {<<s, "remove">>})
                 \cup {<<r, "check">> : r \in {s} \cap subscribers \cap
                                               {q \in Subs : sub[q].alive}}
    /\ UNCHANGED <<topics, wsTopics, data, sub, pub, task, bus>>

\* Mutant: a topic is empty when its slice is, dead members counted.
DesertedWhenSliceEmpty(t) ==
    /\ topics[t] # None
    /\ data[topics[t]].subscribers = {}
    /\ t \notin wsTopics

\* The test of checkTopicEmpty: nobody alive in the slice, no WebSocket topic.
Deserted(t) ==
    /\ topics[t] # None
    /\ Live(data[topics[t]].subscribers) = {}
    /\ t \notin wsTopics

\* Mutant: the topic is stopped but stays in the map.
StopInPlace(t) ==
    /\ data' = [data EXCEPT ![topics[t]].closes = @ + 1]
    /\ UNCHANGED topics

\* Both ways a dataTopic ends: out of the map, then close(stopCh).
Destroy(t) ==
    /\ topics' = [topics EXCEPT ![t] = None]
    /\ data' = [data EXCEPT ![topics[t]].closes = @ + 1]

\* checkTopicEmpty, under ps.mu again: it was released in between.
UnsubCheck(s) ==
    /\ <<s, "check">> \in unsubs
    /\ unsubs' = unsubs \ {<<s, "check">>}
    /\ \/ Deserted(sub[s].topic) /\ Destroy(sub[s].topic)
       \/ ~Deserted(sub[s].topic) /\ UNCHANGED <<topics, data>>
    /\ UNCHANGED <<subscribers, wsTopics, sub, pub, task, bus>>

\* Unsubscribe(topic): the critical section.  The subscribers stay active.
UnsubscribeTopic(t) ==
    /\ t \in MayUnsubscribe
    /\ topics[t] # None
    /\ subscribers' = {s \in subscribers :
                          ~(s \in data[topics[t]].subscribers /\ sub[s].alive)}
    /\ wsTopics' = wsTopics \ {t}
    /\ Destroy(t)
    /\ UNCHANGED <<sub, unsubs, pub, task, bus>>

\* The garbage collector: only weak pointers lead to a subscriber whose
\* closure was discarded and for which no task is queued or running.
Collect(s) ==
    /\ s \in Discarding
    /\ sub[s].stage = "subscribed"
    /\ sub[s].alive
    /\ \A m \in Msgs : task[<<s, m>>].queued = 0 /\ task[<<s, m>>].running = 0
    /\ sub' = [sub EXCEPT ![s].alive = FALSE]
    /\ UNCHANGED <<topics, subscribers, wsTopics, data, unsubs, pub, task, bus>>

-----------------------------------------------------------------------------
(* Publish: the pointer is read under ps.mu, the rest takes no lock. *)

PublishRead(m, t) ==
    /\ pub[m].stage = "new"
    /\ pub' = [pub EXCEPT ![m] =
                  [stage |-> IF topics[t] = None THEN "returned" ELSE "read",
                   topic |-> t, target |-> topics[t]]]
    /\ UNCHANGED <<topics, subscribers, wsTopics, data, sub, unsubs, task, bus>>

PublishCheck(m) ==
    /\ pub[m].stage = "read"
    /\ pub' = [pub EXCEPT ![m].stage =
                  IF data[pub[m].target].active THEN "checked" ELSE "returned"]
    /\ UNCHANGED <<topics, subscribers, wsTopics, data, sub, unsubs, task, bus>>

\* Mutant: the channel accepts one message too many.
SendPastCapacity(ch, m) == IF Len(ch) <= EventCap THEN Append(ch, m) ELSE ch

\* A non-blocking send on a buffered channel: a full one drops the message.
TrySend(ch, m) == IF Len(ch) < EventCap THEN Append(ch, m) ELSE ch

PublishSend(m) ==
    /\ pub[m].stage = "checked"
    /\ pub' = [pub EXCEPT ![m].stage = "returned"]
    /\ data' = [data EXCEPT ![pub[m].target].eventCh = TrySend(@, m)]
    /\ UNCHANGED <<topics, subscribers, wsTopics, sub, unsubs, task, bus>>

-----------------------------------------------------------------------------
(* processTopicEvents: the goroutine of a dataTopic. *)

Occurrences(batch, m) == Cardinality({k \in DOMAIN batch : batch[k] = m})

\* workers.submit for every event and live member; a closed pool takes none.
Submit(slice, batch) ==
    task' = [d \in Deliveries |->
                IF d[1] \in Live(slice) /\ bus # "closed"
                THEN [task[d] EXCEPT !.queued = @ + Occurrences(batch, d[2])]
                ELSE task[d]]

\* Does dispatchBatchWithSubs start a compaction of the slice?
MostlyDead(slice) ==
    /\ Cardinality(slice) > CompactAbove
    /\ Cardinality(Live(slice)) < Cardinality(slice) \div 2

\* The select takes an event, then fills the batch as long as there are any.
ProcTake(i) ==
    /\ data[i].proc = "running"
    /\ data[i].eventCh # <<>>
    /\ Len(data[i].events) < BatchCap
    /\ data' = [data EXCEPT ![i].events = Append(@, Head(data[i].eventCh)),
                            ![i].eventCh = Tail(@)]
    /\ UNCHANGED <<topics, subscribers, wsTopics, sub, unsubs, pub, task, bus>>

\* Mutant: the batch is not truncated after it was dispatched.
AfterDispatchKept(batch) == batch

\* events = events[:0]
AfterDispatch(batch) == <<>>

\* The batch is full, the channel empty or a stop signal cut the filling
\* short: the batch goes to the present members of the slice.
ProcDispatch(i) ==
    /\ data[i].proc = "running"
    /\ data[i].events # <<>>
    /\ Len(data[i].events) = BatchCap \/ data[i].eventCh = <<>> \/ StopRequested(i)
    /\ Submit(data[i].subscribers, data[i].events)
    /\ data' = [data EXCEPT ![i].compacting = @ \/ MostlyDead(data[i].subscribers),
                            ![i].events = AfterDispatch(@)]
    /\ UNCHANGED <<topics, subscribers, wsTopics, sub, unsubs, pub, bus>>

\* Mutant: the outer select has no case for topicData.stopCh.
StopSeenOnDoneOnly(i) == data[i].events = <<>> /\ bus # "open"

\* The outer select may take a stop signal only between two batches.
StopSeen(i) == data[i].events = <<>> /\ StopRequested(i)

\* stopProcessor copies the slice and clears active ...
ProcStop(i) ==
    /\ data[i].proc = "running"
    /\ StopSeen(i)
    /\ data' = [data EXCEPT ![i].proc = "draining", ![i].active = FALSE,
                            ![i].last = data[i].subscribers]
    /\ UNCHANGED <<topics, subscribers, wsTopics, sub, unsubs, pub, task, bus>>

\* ... then empties the channel into the copy.
ProcDrain(i) ==
    /\ data[i].proc = "draining"
    /\ data[i].eventCh # <<>>
    /\ Submit(data[i].last, <<Head(data[i].eventCh)>>)
    /\ data' = [data EXCEPT ![i].compacting = @ \/ MostlyDead(data[i].last),
                            ![i].eventCh = Tail(@)]
    /\ UNCHANGED <<topics, subscribers, wsTopics, sub, unsubs, pub, bus>>

\* Mutant: the goroutine returns without draining the channel.
DrainedAtOnce(i) == TRUE

Drained(i) == data[i].eventCh = <<>>

ProcExit(i) ==
    /\ data[i].proc = "draining"
    /\ Drained(i)
    /\ data' = [data EXCEPT ![i].proc = "exited"]
    /\ UNCHANGED <<topics, subscribers, wsTopics, sub, unsubs, pub, task, bus>>

\* Mutant: compaction keeps the live members the registry still knows.
KeepRegistered(slice) == Live(slice) \cap subscribers

KeepLive(slice) == Live(slice)

\* compactSubscribers, a goroutine of its own, under topicData.mu.
Compact(i) ==
    /\ data[i].compacting
    /\ data' = [data EXCEPT ![i].subscribers = KeepLive(@), ![i].compacting = FALSE]
    /\ UNCHANGED <<topics, subscribers, wsTopics, sub, unsubs, pub, task, bus>>

-----------------------------------------------------------------------------
(* executeCallback on a worker: active is read again, the callback runs. *)

TaskStart(s, m) ==
    /\ task[<<s, m>>].queued > 0
    /\ task' = [task EXCEPT ![<<s, m>>].queued = @ - 1,
                            ![<<s, m>>].running = IF sub[s].active THEN @ + 1 ELSE @]
    /\ UNCHANGED <<topics, subscribers, wsTopics, data, sub, unsubs, pub, bus>>

TaskReturn(s, m) ==
    /\ task[<<s, m>>].running > 0
    /\ task' = [task EXCEPT ![<<s, m>>].running = @ - 1, ![<<s, m>>].ran = @ + 1]
    /\ UNCHANGED <<topics, subscribers, wsTopics, data, sub, unsubs, pub, bus>>

-----------------------------------------------------------------------------
(* The WebSocket side, seen through ps.wsSubscribers, and Close. *)

\* A WebSocket client comes to a topic, or the last one leaves it: the latter
\* does not call checkTopicEmpty.
WsChange(t) ==
    /\ t \in WsTopics
    /\ wsTopics' = IF t \in wsTopics THEN wsTopics \ {t} ELSE wsTopics \cup {t}
    /\ UNCHANGED <<topics, subscribers, data, sub, unsubs, pub, task, bus>>

CloseDone ==
    /\ MayClose
    /\ bus = "open"
    /\ bus' = "closing"
    /\ UNCHANGED <<topics, subscribers, wsTopics, data, sub, unsubs, pub, task>>

ClosePool ==
    /\ bus = "closing"
    /\ bus' = "closed"
    /\ UNCHANGED <<topics, subscribers, wsTopics, data, sub, unsubs, pub, task>>

-----------------------------------------------------------------------------
Next ==
    \/ \E s \in Subs :
          \/ \E t \in Topics, i \in TopicDatas : SubscribeRegister(s, t, i)
          \/ SubscribeAppend(s)
          \/ Unsub(s)
          \/ UnsubRemove(s)
          \/ UnsubCheck(s)
          \/ Collect(s)
    \/ \E t \in Topics : UnsubscribeTopic(t) \/ WsChange(t)
    \/ \E m \in Msgs :
          \/ \E t \in Topics : PublishRead(m, t)
          \/ PublishCheck(m)
          \/ PublishSend(m)
    \/ \E i \in TopicDatas :
          \/ ProcTake(i)
          \/ ProcDispatch(i)
          \/ ProcStop(i)
          \/ ProcDrain(i)
          \/ ProcExit(i)
          \/ Compact(i)
    \/ \E s \in Subs, m \in Msgs : TaskStart(s, m) \/ TaskReturn(s, m)
    \/ CloseDone
    \/ ClosePool

Spec == Init /\ [][Next]_vars

\* The Go scheduler runs every goroutine that can run, and a call that has
\* begun is carried through.  Nothing obliges a program to make a call.
Fairness ==
    /\ \A s \in Subs : /\ WF_vars(SubscribeAppend(s))
                       /\ WF_vars(UnsubRemove(s))
                       /\ WF_vars(UnsubCheck(s))
    /\ \A m \in Msgs : WF_vars(PublishCheck(m)) /\ WF_vars(PublishSend(m))
    /\ \A i \in TopicDatas : /\ WF_vars(ProcTake(i) \/ ProcDispatch(i) \/ ProcStop(i))
                             /\ WF_vars(ProcDrain(i) \/ ProcExit(i))
    /\ \A s \in Subs, m \in Msgs : WF_vars(TaskStart(s, m)) /\ WF_vars(TaskReturn(s, m))

FairSpec == Spec /\ Fairness

-----------------------------------------------------------------------------
(* Safety. *)

\* stopCh is closed at most once, whichever of Unsubscribe(topic) and the
\* checkTopicEmpty of a last unsub comes first: a second close would panic
\* with ps.mu held.
StopChannelClosedOnce == \A i \in TopicDatas : data[i].closes <= 1

\* The map and the stop signals agree: the dataTopics in the map are exactly
\* the allocated ones whose stopCh is open, and no two topics share one.  One
\* outside the map with an open stopCh would be a goroutine only Close can
\* stop; a stopped one in the map would swallow every message.
MapHoldsTheRunningTopics ==
    /\ \A i \in TopicDatas :
          (\E t \in Topics : topics[t] = i) <=> (data[i].proc # "none" /\ data[i].closes = 0)
    /\ \A t, u \in Topics : topics[t] = topics[u] /\ topics[t] # None => t = u

\* A subscriber stays in the slice it was appended to as long as it is active
\* and alive, whatever Unsubscribe, compaction and other unsubs do meanwhile.
SubscriberStaysInSlice ==
    \A s \in Subs :
        sub[s].stage = "subscribed" /\ sub[s].active /\ sub[s].alive
            => s \in data[sub[s].data].subscribers

\* The bus keeps the promise of PubSub: callbacks at most once per message,
\* on the right topic, never started after unsub() or for a message nobody
\* published.
Promise ==
    INSTANCE PubSub WITH
        NoTopic <- None,
        status <- [s \in Subs |-> IF sub[s].stage = "new" THEN "out"
                                  ELSE IF sub[s].active /\ sub[s].alive THEN "in"
                                  ELSE "left"],
        topicOf <- [s \in Subs |-> sub[s].topic],
        published <- [m \in Msgs |-> pub[m].topic],
        started <- [d \in Deliveries |-> task[d].running + task[d].ran],
        finished <- [d \in Deliveries |-> task[d].ran]

PromiseKept == Promise!Spec

-----------------------------------------------------------------------------
(* Liveness, under FairSpec. *)

\* An event in the channel of a dataTopic that was not told to stop reaches
\* every member of the slice: its callback runs, unless it is unsubscribed or
\* collected first or the pool is closed.  A later stop signal does not
\* change that: the filling batch and the drain take care of what is queued.
QueuedEventIsDelivered ==
    \A s \in Subs, m \in Msgs, i \in TopicDatas :
        (/\ \E k \in DOMAIN data[i].eventCh : data[i].eventCh[k] = m
         /\ ~StopRequested(i)
         /\ s \in Live(data[i].subscribers))
        ~> (task[<<s, m>>].ran > 0 \/ s \notin Live(Subs) \/ bus = "closed")

\* The goroutine of a topic that was stopped, or of a closed bus, ends.
StoppedGoroutineExits ==
    \A i \in TopicDatas :
        (data[i].proc # "none" /\ StopRequested(i)) ~> (data[i].proc = "exited")

\* A topic that no WebSocket client ever used leaves the map once the last of
\* its subscribers has unsubscribed through its closure (the auto-cleanup of
\* unsubscribe), unless somebody subscribes again.  None of them was collected:
\* one that is taken in the middle of its unsub leaves no topic to look at.
Abandoned(t) == \A s \in Subs : sub[s].topic = t => ~sub[s].active /\ sub[s].alive

AbandonedTopicIsRemoved ==
    \A t \in Topics \ WsTopics :
        (topics[t] # None /\ Abandoned(t)) ~> (topics[t] = None \/ ~Abandoned(t))

-----------------------------------------------------------------------------
(* What comments claim and the code does not do. *)

\* checkTopicEmpty destroys a topic only when nobody is left ("Plus personne
\* du tout"): there is no active registered subscriber of that topic.
SelfDestructsOnlyWhenNobodyIsLeft ==
    [][\A s \in Subs :
          UnsubCheck(s) /\ topics'[sub[s].topic] # topics[sub[s].topic]
              => \A r \in Live(subscribers) : sub[r].topic # sub[s].topic]_vars

\* "Drainage final garanti": a topic goroutine that has ended left nothing in
\* its channel.
FinalDrainIsFinal ==
    \A i \in TopicDatas : data[i].proc = "exited" => data[i].eventCh = <<>>

\* "Weak pointers pour auto-cleanup": the registry entry of a collected
\* subscriber does not outlive its topic.
CollectedAreForgotten ==
    \A s \in subscribers : sub[s].alive \/ topics[sub[s].topic] # None
=============================================================================
