----------------------------- MODULE BusProofs -----------------------------
(***************************************************************************)
(* Proofs about the bus: about TopicBus, for any number of topics,         *)
(* subscribers, messages and dataTopics and any capacities, and about      *)
(* AckRequests, for any number of requests, clients and waiters and any    *)
(* capacity of the channels.                                               *)
(*                                                                         *)
(* Every step of TopicBus is first classified by what it does to the       *)
(* dataTopics: it starts one, stops one, or leaves the map and the stop    *)
(* channels alone (lemma DataStep).  The invariants then follow from that  *)
(* classification.  PromiseInv follows a message from its Publish call to  *)
(* its tasks: each step is a step of PubSub or none (lemma StepMapped).    *)
(***************************************************************************)
EXTENDS TopicBus, AckRequests, FiniteSetTheorems, TLAPS

-----------------------------------------------------------------------------
(* TopicBus *)

\* Pointers are set before they are followed.
PointersSet ==
    /\ \A s \in Subs : sub[s].stage # "new"
                          => sub[s].data \in TopicDatas /\ sub[s].topic \in Topics
    /\ \A m \in Msgs : pub[m].stage \in {"read", "checked"} => pub[m].target \in TopicDatas
    /\ \A s \in Subs, k \in {"remove", "check"} :
          <<s, k>> \in unsubs => sub[s].stage # "new"

TypeInv == TypeOK /\ PointersSet

\* The part of TypeOK about the dataTopics and the map.
DataTypeOK ==
    /\ topics \in [Topics -> TopicDatas \cup {None}]
    /\ data \in [TopicDatas -> DataTopic]
    /\ \A j \in TopicDatas : WithinCapacity(data[j])

\* The rest of TypeOK.
RestTypeOK ==
    /\ subscribers \subseteq Subs
    /\ wsTopics \subseteq Topics
    /\ sub \in [Subs -> Subscriber]
    /\ unsubs \subseteq Subs \X {"remove", "check"}
    /\ pub \in [Msgs -> PublishCall]
    /\ task \in [Deliveries -> TaskCounts]
    /\ bus \in {"open", "closing", "closed"}

\* No live member leaves a slice.
MembersKept == \A j \in TopicDatas : Live(data[j].subscribers) \subseteq data'[j].subscribers

\* The three kinds of steps.
Quiet ==
    /\ UNCHANGED topics
    /\ \A j \in TopicDatas : /\ data'[j].closes = data[j].closes
                             /\ data'[j].proc = "none" <=> data[j].proc = "none"
Started(t, i) ==
    /\ topics[t] = None
    /\ topics' = [topics EXCEPT ![t] = i]
    /\ data[i].proc = "none"
    /\ data'[i].proc = "running"
    /\ \A j \in TopicDatas : /\ data'[j].closes = data[j].closes
                             /\ j # i => data'[j].proc = data[j].proc

Stopped(t) ==
    /\ topics[t] # None
    /\ topics' = [topics EXCEPT ![t] = None]
    /\ \A j \in TopicDatas :
          /\ data'[j].closes = IF j = topics[t] THEN data[j].closes + 1 ELSE data[j].closes
          /\ data'[j].proc = data[j].proc

-----------------------------------------------------------------------------
(* Lemmas about the operators of the model. *)

\* The number of times a message occurs in a batch is a natural number.
LEMMA OccurrencesType ==
    ASSUME NEW batch \in Seq(Msgs), NEW m
    PROVE  Occurrences(batch, m) \in Nat
<1>1. IsFiniteSet(1..Len(batch))
  BY FS_Interval
<1>2. {k \in DOMAIN batch : batch[k] = m} \subseteq 1..Len(batch)
  OBVIOUS
<1>3. IsFiniteSet({k \in DOMAIN batch : batch[k] = m})
  BY <1>1, <1>2, FS_Subset
<1>4. QED BY <1>3, FS_CardinalityType DEF Occurrences

\* A non-blocking send keeps a channel within its capacity.
LEMMA TrySendType ==
    ASSUME NEW ch \in Seq(Msgs), NEW m \in Msgs, Len(ch) <= EventCap
    PROVE  TrySend(ch, m) \in Seq(Msgs) /\ Len(TrySend(ch, m)) <= EventCap
BY TopicBusAssumption DEF TrySend

\* A receive from a channel that holds something.
LEMMA ReceiveType ==
    ASSUME NEW ch \in Seq(Msgs), ch # <<>>
    PROVE  /\ Head(ch) \in Msgs
           /\ Tail(ch) \in Seq(Msgs)
           /\ Len(Tail(ch)) <= Len(ch)
OBVIOUS

\* The counters of the tasks stay natural numbers when a batch is submitted.
LEMMA SubmitType ==
    ASSUME TypeOK, NEW slice, NEW batch \in Seq(Msgs), Submit(slice, batch)
    PROVE  task' \in [Deliveries -> TaskCounts]
<1>1. ASSUME NEW c \in TaskCounts, NEW n \in Nat
      PROVE  [c EXCEPT !.queued = @ + n] \in TaskCounts
  BY <1>1 DEF TaskCounts
<1>2. ASSUME NEW d \in Deliveries
      PROVE  (IF d[1] \in Live(slice) /\ bus # "closed"
              THEN [task[d] EXCEPT !.queued = @ + Occurrences(batch, d[2])]
              ELSE task[d]) \in TaskCounts
  <2>1. task[d] \in TaskCounts
    BY DEF TypeOK
  <2>2. Occurrences(batch, d[2]) \in Nat
    BY OccurrencesType
  <2>3. [task[d] EXCEPT !.queued = @ + Occurrences(batch, d[2])] \in TaskCounts
    BY <1>1, <2>1, <2>2, Zenon
  <2>4. QED BY <2>1, <2>3, Zenon
<1>3. QED BY <1>2, Zenon DEF Submit

\* Replacing one dataTopic by another that keeps its stop channel, its
\* goroutine's existence and its live members is a quiet step.
LEMMA ReplaceData ==
    ASSUME TypeOK, UNCHANGED topics, NEW i \in TopicDatas, NEW d \in DataTopic,
           WithinCapacity(d), data' = [data EXCEPT ![i] = d],
           d.closes = data[i].closes, d.proc = "none" <=> data[i].proc = "none",
           Live(data[i].subscribers) \subseteq d.subscribers
    PROVE  DataTypeOK' /\ Quiet /\ MembersKept
<1> USE DEF TypeOK
<1>1. data' \in [TopicDatas -> DataTopic]
  OBVIOUS
<1>2. \A j \in TopicDatas : data'[j] = IF j = i THEN d ELSE data[j]
  OBVIOUS
<1>3. \A j \in TopicDatas : WithinCapacity(data'[j])
  BY <1>2, Zenon
<1>4. MembersKept
  BY <1>2, Zenon DEF MembersKept, Live
<1>5. Quiet
  BY <1>2, Zenon DEF Quiet
<1>6. QED BY <1>1, <1>3, <1>4, <1>5, Zenon DEF DataTypeOK

\* A step that touches neither the map nor a dataTopic is quiet.
LEMMA SameData ==
    ASSUME TypeOK, UNCHANGED <<topics, data>>
    PROVE  DataTypeOK' /\ Quiet /\ MembersKept
BY Zenon DEF TypeOK, DataTypeOK, Quiet, MembersKept, Live

-----------------------------------------------------------------------------
(* What a step does to the map and the dataTopics. *)

\* Starting a topic.
LEMMA StartStep ==
    ASSUME TypeInv, NEW s \in Subs, NEW t \in Topics, NEW i \in TopicDatas,
           SubscribeRegister(s, t, i)
    PROVE  DataTypeOK' /\ MembersKept /\ (Quiet \/ Started(t, i))
<1> USE DEF TypeInv, TypeOK
<1>1. CASE topics[t] = i /\ UNCHANGED <<topics, data>>
  BY <1>1, SameData
<1>2. CASE /\ topics[t] = None
           /\ data[i].proc = "none"
           /\ topics' = [topics EXCEPT ![t] = i]
           /\ data' = [data EXCEPT ![i].active = TRUE, ![i].proc = "running"]
  <2> DEFINE d == [data[i] EXCEPT !.active = TRUE, !.proc = "running"]
  <2>1. /\ d \in DataTopic
        /\ WithinCapacity(d)
        /\ d.closes = data[i].closes
        /\ d.proc = "running"
        /\ d.subscribers = data[i].subscribers
    BY DEF DataTopic, WithinCapacity
  <2>2. data' = [data EXCEPT ![i] = d]
    BY <1>2, Zenon
  <2> HIDE DEF d
  <2>3. data' \in [TopicDatas -> DataTopic]
    BY <2>1, <2>2
  <2>4. \A j \in TopicDatas : data'[j] = IF j = i THEN d ELSE data[j]
    BY <2>2
  <2>5. topics' \in [Topics -> TopicDatas \cup {None}]
    BY <1>2
  <2>6. \A j \in TopicDatas : WithinCapacity(data'[j])
    BY <2>1, <2>4, Zenon
  <2>7. MembersKept
    BY <2>1, <2>4, Zenon DEF MembersKept, Live
  <2>8. Started(t, i)
    BY <1>2, <2>1, <2>4, Zenon DEF Started
  <2>9. QED BY <2>3, <2>5, <2>6, <2>7, <2>8, Zenon DEF DataTypeOK
<1>3. QED BY <1>1, <1>2, Zenon DEF SubscribeRegister, FindOrAllocate

\* Stopping a topic.
LEMMA StopStep ==
    ASSUME TypeInv, NEW t \in Topics, NEW i \in TopicDatas, topics[t] = i, Destroy(t)
    PROVE  DataTypeOK' /\ MembersKept /\ Stopped(t)
<1> USE DEF TypeInv, TypeOK
<1> DEFINE n == data[i].closes + 1
           d == [data[i] EXCEPT !.closes = n]
<1>1. data[i] \in DataTopic /\ WithinCapacity(data[i])
  OBVIOUS
<1>2. n \in Nat
  BY <1>1 DEF DataTopic
<1> HIDE DEF n
<1>3. /\ d \in DataTopic
      /\ WithinCapacity(d)
      /\ d.closes = n
      /\ d.proc = data[i].proc
      /\ d.subscribers = data[i].subscribers
  BY <1>1, <1>2 DEF DataTopic, WithinCapacity
<1>4. data' = [data EXCEPT ![i] = d]
  BY Zenon DEF Destroy, n
<1> HIDE DEF d
<1>5. data' \in [TopicDatas -> DataTopic]
  BY <1>3, <1>4
<1>6. \A j \in TopicDatas : data'[j] = IF j = i THEN d ELSE data[j]
  BY <1>4
<1>7. topics' \in [Topics -> TopicDatas \cup {None}]
  BY DEF Destroy
<1>8. \A j \in TopicDatas : WithinCapacity(data'[j])
  BY <1>3, <1>6, Zenon
<1>9. MembersKept
  BY <1>3, <1>6, Zenon DEF MembersKept, Live
<1>10. i # None
  BY TopicBusAssumption
<1>11. Stopped(t)
  BY <1>3, <1>6, <1>10, Zenon DEF Stopped, Destroy, n
<1>12. QED BY <1>5, <1>7, <1>8, <1>9, <1>11, Zenon DEF DataTypeOK

\* Every other step is quiet.
LEMMA QuietStep ==
    ASSUME TypeInv, NEW i \in TopicDatas,
           \/ \E s \in Subs : SubscribeAppend(s) /\ i = sub[s].data
           \/ \E m \in Msgs : PublishSend(m) /\ i = pub[m].target
           \/ ProcTake(i) \/ ProcDispatch(i) \/ ProcStop(i)
           \/ ProcDrain(i) \/ ProcExit(i) \/ Compact(i)
    PROVE  DataTypeOK' /\ Quiet /\ MembersKept
<1> DEFINE Goal == DataTypeOK' /\ Quiet /\ MembersKept
           Fits(d) == /\ d \in DataTopic
                      /\ WithinCapacity(d)
                      /\ d.closes = data[i].closes
                      /\ d.proc = "none" <=> data[i].proc = "none"
                      /\ Live(data[i].subscribers) \subseteq d.subscribers
<1>1. data[i] \in DataTopic /\ WithinCapacity(data[i])
  BY DEF TypeInv, TypeOK
<1>2. ASSUME NEW d, Fits(d), data' = [data EXCEPT ![i] = d], UNCHANGED topics
      PROVE  Goal
  BY <1>2, ReplaceData, Zenon DEF TypeInv
<1>3. Live(data[i].subscribers) \subseteq data[i].subscribers
  BY Zenon DEF Live
<1>4. ASSUME NEW s \in Subs, SubscribeAppend(s), i = sub[s].data PROVE Goal
  <2> DEFINE d == [data[i] EXCEPT !.subscribers = @ \cup {s}]
  <2>1. Fits(d)
    BY <1>1, <1>3 DEF DataTopic, WithinCapacity
  <2>2. data' = [data EXCEPT ![i] = d] /\ UNCHANGED topics
    BY <1>4, Zenon DEF SubscribeAppend
  <2>3. QED BY <1>2, <2>1, <2>2, Zenon
<1>5. ASSUME NEW m \in Msgs, PublishSend(m), i = pub[m].target PROVE Goal
  <2> DEFINE d == [data[i] EXCEPT !.eventCh = TrySend(@, m)]
  <2>1. /\ TrySend(data[i].eventCh, m) \in Seq(Msgs)
        /\ Len(TrySend(data[i].eventCh, m)) <= EventCap
    BY <1>1, TrySendType DEF DataTopic, WithinCapacity
  <2>2. Fits(d)
    BY <1>1, <1>3, <2>1 DEF DataTopic, WithinCapacity
  <2>3. data' = [data EXCEPT ![i] = d] /\ UNCHANGED topics
    BY <1>5, Zenon DEF PublishSend
  <2>4. QED BY <1>2, <2>2, <2>3, Zenon
<1>6. CASE ProcTake(i)
  <2> DEFINE d == [data[i] EXCEPT !.events = Append(@, Head(data[i].eventCh)),
                                  !.eventCh = Tail(@)]
             e == Append(data[i].events, Head(data[i].eventCh))
             c == Tail(data[i].eventCh)
  <2>1. data[i].eventCh \in Seq(Msgs) /\ data[i].events \in Seq(Msgs)
    BY <1>1 DEF DataTopic
  <2>2. /\ e \in Seq(Msgs) /\ Len(e) <= BatchCap
        /\ c \in Seq(Msgs) /\ Len(c) <= EventCap
    BY <1>1, <1>6, <2>1, ReceiveType, TopicBusAssumption DEF ProcTake, WithinCapacity
  <2> HIDE DEF e, c
  <2>3. d = [data[i] EXCEPT !.events = e, !.eventCh = c]
    BY Zenon DEF e, c
  <2>4. Fits([data[i] EXCEPT !.events = e, !.eventCh = c])
    BY <1>1, <1>3, <2>2 DEF DataTopic, WithinCapacity
  <2>5. data' = [data EXCEPT ![i] = d] /\ UNCHANGED topics
    BY <1>6, Zenon DEF ProcTake
  <2>6. QED BY <1>2, <2>3, <2>4, <2>5, Zenon
<1>7. CASE ProcDispatch(i)
  <2> DEFINE b == data[i].compacting \/ MostlyDead(data[i].subscribers)
             e == AfterDispatch(data[i].events)
             d == [data[i] EXCEPT !.compacting = b, !.events = e]
  <2>1. b \in BOOLEAN /\ e \in Seq(Msgs) /\ Len(e) <= BatchCap
    BY TopicBusAssumption DEF AfterDispatch
  <2> HIDE DEF b, e
  <2>2. Fits(d)
    BY <1>1, <1>3, <2>1 DEF DataTopic, WithinCapacity
  <2>3. data' = [data EXCEPT ![i] = d] /\ UNCHANGED topics
    BY <1>7, Zenon DEF ProcDispatch, b, e
  <2>4. QED BY <1>2, <2>2, <2>3, Zenon
<1>8. CASE ProcStop(i)
  <2> DEFINE d == [data[i] EXCEPT !.proc = "draining", !.active = FALSE,
                                  !.last = data[i].subscribers]
  <2>1. Fits(d)
    BY <1>1, <1>3, <1>8 DEF ProcStop, DataTopic, WithinCapacity
  <2>2. data' = [data EXCEPT ![i] = d] /\ UNCHANGED topics
    BY <1>8, Zenon DEF ProcStop
  <2>3. QED BY <1>2, <2>1, <2>2, Zenon
<1>9. CASE ProcDrain(i)
  <2> DEFINE b == data[i].compacting \/ MostlyDead(data[i].last)
             c == Tail(data[i].eventCh)
             d == [data[i] EXCEPT !.compacting = b, !.eventCh = c]
  <2>1. b \in BOOLEAN
    OBVIOUS
  <2>2. data[i].eventCh \in Seq(Msgs)
    BY <1>1 DEF DataTopic
  <2>3. c \in Seq(Msgs) /\ Len(c) <= EventCap
    BY <1>1, <1>9, <2>2, ReceiveType, TopicBusAssumption DEF ProcDrain, WithinCapacity
  <2> HIDE DEF b, c
  <2>4. Fits(d)
    BY <1>1, <1>3, <2>1, <2>3 DEF DataTopic, WithinCapacity
  <2>5. data' = [data EXCEPT ![i] = d] /\ UNCHANGED topics
    BY <1>9, Zenon DEF ProcDrain, b, c
  <2>6. QED BY <1>2, <2>4, <2>5, Zenon
<1>10. CASE ProcExit(i)
  <2> DEFINE d == [data[i] EXCEPT !.proc = "exited"]
  <2>1. Fits(d)
    BY <1>1, <1>3, <1>10 DEF ProcExit, DataTopic, WithinCapacity
  <2>2. data' = [data EXCEPT ![i] = d] /\ UNCHANGED topics
    BY <1>10, Zenon DEF ProcExit
  <2>3. QED BY <1>2, <2>1, <2>2, Zenon
<1>11. CASE Compact(i)
  <2> DEFINE d == [data[i] EXCEPT !.subscribers = KeepLive(@), !.compacting = FALSE]
  <2>1. Fits(d)
    BY <1>1, <1>3 DEF KeepLive, DataTopic, WithinCapacity
  <2>2. data' = [data EXCEPT ![i] = d] /\ UNCHANGED topics
    BY <1>11, Zenon DEF Compact
  <2>3. QED BY <1>2, <2>1, <2>2, Zenon
<1>12. QED BY <1>4, <1>5, <1>6, <1>7, <1>8, <1>9, <1>10, <1>11, Zenon

\* The classification of all steps.
LEMMA DataStep ==
    ASSUME TypeInv, [Next]_vars
    PROVE  /\ DataTypeOK'
           /\ MembersKept
           /\ \/ Quiet
              \/ \E t \in Topics, i \in TopicDatas : Started(t, i)
              \/ \E t \in Topics : Stopped(t)
<1> DEFINE Goal == /\ DataTypeOK'
                   /\ MembersKept
                   /\ \/ Quiet
                      \/ \E t \in Topics, i \in TopicDatas : Started(t, i)
                      \/ \E t \in Topics : Stopped(t)
<1>1. ASSUME UNCHANGED <<topics, data>> PROVE Goal
  BY <1>1, SameData, Zenon DEF TypeInv
<1>2. ASSUME NEW t \in Topics, topics[t] # None, Destroy(t) PROVE Goal
  <2>1. topics[t] \in TopicDatas
    BY <1>2 DEF TypeInv, TypeOK
  <2>2. QED BY <1>2, <2>1, StopStep, Zenon
<1>3. ASSUME NEW s \in Subs, NEW t \in Topics, NEW i \in TopicDatas,
             SubscribeRegister(s, t, i)
      PROVE  Goal
  BY <1>3, StartStep, Zenon
<1>4. ASSUME NEW s \in Subs, SubscribeAppend(s) PROVE Goal
  <2>1. sub[s].data \in TopicDatas
    BY <1>4 DEF TypeInv, PointersSet, SubscribeAppend
  <2>2. QED BY <1>4, <2>1, QuietStep, Zenon
<1>5. ASSUME NEW s \in Subs, UnsubCheck(s) PROVE Goal
  <2>1. CASE Deserted(sub[s].topic) /\ Destroy(sub[s].topic)
    <3>1. sub[s].topic \in Topics
      BY <1>5, Zenon DEF UnsubCheck, TypeInv, PointersSet
    <3>2. topics[sub[s].topic] # None
      BY <2>1, Zenon DEF Deserted
    <3>3. QED BY <1>2, <2>1, <3>1, <3>2, Zenon
  <2>2. CASE UNCHANGED <<topics, data>>
    BY <1>1, <2>2, Zenon
  <2>3. QED BY <1>5, <2>1, <2>2, Zenon DEF UnsubCheck
<1>6. ASSUME NEW t \in Topics, UnsubscribeTopic(t) PROVE Goal
  BY <1>2, <1>6, Zenon DEF UnsubscribeTopic
<1>7. ASSUME NEW m \in Msgs, PublishSend(m) PROVE Goal
  <2>1. pub[m].target \in TopicDatas
    BY <1>7, Zenon DEF TypeInv, PointersSet, PublishSend
  <2>2. QED BY <1>7, <2>1, QuietStep, Zenon
<1>8. ASSUME NEW i \in TopicDatas,
             \/ ProcTake(i) \/ ProcDispatch(i) \/ ProcStop(i)
             \/ ProcDrain(i) \/ ProcExit(i) \/ Compact(i)
      PROVE  Goal
  BY <1>8, QuietStep, Zenon
<1>9. ASSUME NEW s \in Subs, Unsub(s) \/ UnsubRemove(s) \/ Collect(s) PROVE Goal
  BY <1>1, <1>9, Zenon DEF Unsub, UnsubRemove, Collect
<1>10. ASSUME NEW t \in Topics, WsChange(t) PROVE Goal
  BY <1>1, <1>10, Zenon DEF WsChange
<1>11. ASSUME NEW m \in Msgs, NEW t \in Topics, PublishRead(m, t) PROVE Goal
  BY <1>1, <1>11, Zenon DEF PublishRead
<1>12. ASSUME NEW m \in Msgs, PublishCheck(m) PROVE Goal
  BY <1>1, <1>12, Zenon DEF PublishCheck
<1>13. ASSUME NEW s \in Subs, NEW m \in Msgs, TaskStart(s, m) \/ TaskReturn(s, m)
       PROVE  Goal
  BY <1>1, <1>13, Zenon DEF TaskStart, TaskReturn
<1>14. ASSUME CloseDone \/ ClosePool PROVE Goal
  BY <1>1, <1>14, Zenon DEF CloseDone, ClosePool
<1>15. ASSUME UNCHANGED vars PROVE Goal
  BY <1>1, <1>15, Zenon DEF vars
<1>16. QED
  BY <1>3, <1>4, <1>5, <1>6, <1>7, <1>8, <1>9, <1>10, <1>11, <1>12, <1>13, <1>14,
     <1>15, Zenon DEF Next

-----------------------------------------------------------------------------
(* Types. *)

\* A step that changes neither sub nor pub keeps the pointers set, as long as
\* it adds no call of unsubscribe for another subscriber.
LEMMA PointersStay ==
    ASSUME PointersSet, UNCHANGED <<sub, pub>>,
           \A s \in Subs, k \in {"remove", "check"} :
              <<s, k>> \in unsubs' => \E j \in {"remove", "check"} : <<s, j>> \in unsubs
    PROVE  PointersSet'
BY Zenon DEF PointersSet

\* Replacing the record of one subscriber.
LEMMA ReplaceSub ==
    ASSUME TypeInv, NEW s \in Subs, NEW r \in Subscriber, sub' = [sub EXCEPT ![s] = r],
           r.stage # "new", r.data \in TopicDatas, r.topic \in Topics,
           UNCHANGED pub,
           \A q \in Subs, k \in {"remove", "check"} :
              <<q, k>> \in unsubs' => q = s \/ <<q, k>> \in unsubs
    PROVE  sub' \in [Subs -> Subscriber] /\ PointersSet'
<1>1. sub' \in [Subs -> Subscriber]
  BY DEF TypeInv, TypeOK
<1>2. \A q \in Subs : sub'[q] = IF q = s THEN r ELSE sub[q]
  BY DEF TypeInv, TypeOK
<1>3. QED BY <1>1, <1>2, Zenon DEF TypeInv, PointersSet

\* Replacing the record of one Publish call.
LEMMA ReplacePub ==
    ASSUME TypeInv, NEW m \in Msgs, NEW r \in PublishCall, pub' = [pub EXCEPT ![m] = r],
           r.stage \in {"read", "checked"} => r.target \in TopicDatas,
           UNCHANGED <<sub, unsubs>>
    PROVE  pub' \in [Msgs -> PublishCall] /\ PointersSet'
<1>1. pub' \in [Msgs -> PublishCall]
  BY DEF TypeInv, TypeOK
<1>2. \A q \in Msgs : pub'[q] = IF q = m THEN r ELSE pub[q]
  BY DEF TypeInv, TypeOK
<1>3. QED BY <1>1, <1>2, Zenon DEF TypeInv, PointersSet

\* No step takes the other variables out of their types or unsets a pointer.
LEMMA RestStep ==
    ASSUME TypeInv, [Next]_vars
    PROVE  RestTypeOK' /\ PointersSet'
<1> DEFINE Goal == RestTypeOK' /\ PointersSet'
<1>1. RestTypeOK /\ PointersSet
  BY Zenon DEF TypeInv, TypeOK, RestTypeOK
<1>2. ASSUME UNCHANGED <<subscribers, wsTopics, sub, unsubs, pub, task, bus>> PROVE Goal
  BY <1>1, <1>2, PointersStay, Zenon DEF RestTypeOK
<1>3. ASSUME NEW s \in Subs, NEW r \in Subscriber, sub' = [sub EXCEPT ![s] = r],
             r.stage # "new", r.data \in TopicDatas, r.topic \in Topics,
             subscribers' \subseteq Subs, unsubs' \subseteq unsubs \cup {<<s, "remove">>},
             UNCHANGED <<wsTopics, pub, task, bus>>
      PROVE  Goal
  <2>1. sub' \in [Subs -> Subscriber] /\ PointersSet'
    BY <1>3, ReplaceSub, Zenon
  <2>2. unsubs' \subseteq Subs \X {"remove", "check"}
    BY <1>1, <1>3 DEF RestTypeOK
  <2>3. QED BY <1>1, <1>3, <2>1, <2>2, Zenon DEF RestTypeOK
<1>4. ASSUME NEW m \in Msgs, NEW r \in PublishCall, pub' = [pub EXCEPT ![m] = r],
             r.stage \in {"read", "checked"} => r.target \in TopicDatas,
             UNCHANGED <<subscribers, wsTopics, sub, unsubs, task, bus>>
      PROVE  Goal
  <2>1. pub' \in [Msgs -> PublishCall] /\ PointersSet'
    BY <1>4, ReplacePub, Zenon
  <2>2. QED BY <1>1, <1>4, <2>1, Zenon DEF RestTypeOK
<1>5. ASSUME NEW s \in Subs, NEW t \in Topics, NEW i \in TopicDatas,
             SubscribeRegister(s, t, i)
      PROVE  Goal
  <2> DEFINE r == [stage |-> "registered", topic |-> t, data |-> i,
                   active |-> TRUE, alive |-> TRUE]
  <2>1. /\ r \in Subscriber /\ r.stage # "new"
        /\ r.data \in TopicDatas /\ r.topic \in Topics
    BY DEF Subscriber
  <2>2. sub' = [sub EXCEPT ![s] = r] /\ UNCHANGED <<wsTopics, unsubs, pub, task, bus>>
    BY <1>5, Zenon DEF SubscribeRegister
  <2>3. subscribers' \subseteq Subs
    BY <1>1, <1>5 DEF SubscribeRegister, RestTypeOK
  <2>4. QED BY <1>3, <2>1, <2>2, <2>3, Zenon
<1>6. ASSUME NEW s \in Subs, SubscribeAppend(s) \/ Unsub(s) \/ Collect(s) PROVE Goal
  <2>1. sub[s].stage # "new"
    BY <1>6 DEF SubscribeAppend, Unsub, Collect
  <2>2. sub[s] \in Subscriber /\ sub[s].data \in TopicDatas /\ sub[s].topic \in Topics
    BY <1>1, <2>1, Zenon DEF RestTypeOK, PointersSet
  <2>3. CASE SubscribeAppend(s)
    <3> DEFINE r == [sub[s] EXCEPT !.stage = "subscribed"]
    <3>1. /\ r \in Subscriber /\ r.stage # "new"
          /\ r.data \in TopicDatas /\ r.topic \in Topics
      BY <2>2 DEF Subscriber
    <3>2. /\ sub' = [sub EXCEPT ![s] = r]
          /\ UNCHANGED <<subscribers, wsTopics, unsubs, pub, task, bus>>
      BY <2>3, Zenon DEF SubscribeAppend
    <3>3. QED BY <1>1, <1>3, <3>1, <3>2, Zenon DEF RestTypeOK
  <2>4. CASE Unsub(s)
    <3> DEFINE r == [sub[s] EXCEPT !.active = FALSE]
    <3>1. /\ r \in Subscriber /\ r.stage # "new"
          /\ r.data \in TopicDatas /\ r.topic \in Topics
      BY <2>1, <2>2 DEF Subscriber
    <3>2. /\ sub' = [sub EXCEPT ![s] = r]
          /\ unsubs' = unsubs \cup {<<s, "remove">>}
          /\ UNCHANGED <<subscribers, wsTopics, pub, task, bus>>
      BY <2>4, Zenon DEF Unsub
    <3>3. QED BY <1>1, <1>3, <3>1, <3>2, Zenon DEF RestTypeOK
  <2>5. CASE Collect(s)
    <3> DEFINE r == [sub[s] EXCEPT !.alive = FALSE]
    <3>1. /\ r \in Subscriber /\ r.stage # "new"
          /\ r.data \in TopicDatas /\ r.topic \in Topics
      BY <2>1, <2>2 DEF Subscriber
    <3>2. /\ sub' = [sub EXCEPT ![s] = r]
          /\ UNCHANGED <<subscribers, wsTopics, unsubs, pub, task, bus>>
      BY <2>5, Zenon DEF Collect
    <3>3. QED BY <1>1, <1>3, <3>1, <3>2, Zenon DEF RestTypeOK
  <2>6. QED BY <1>6, <2>3, <2>4, <2>5, Zenon
<1>7. ASSUME NEW s \in Subs, UnsubRemove(s) PROVE Goal
  <2>1. /\ subscribers' \subseteq Subs
        /\ unsubs' \subseteq unsubs \cup {<<s, "check">>}
        /\ <<s, "remove">> \in unsubs
        /\ UNCHANGED <<wsTopics, sub, pub, task, bus>>
    BY <1>1, <1>7 DEF UnsubRemove, RestTypeOK
  <2>2. unsubs' \subseteq Subs \X {"remove", "check"}
    BY <1>1, <2>1 DEF RestTypeOK
  <2>3. PointersSet'
    BY <1>1, <2>1, PointersStay
  <2>4. QED BY <1>1, <2>1, <2>2, <2>3, Zenon DEF RestTypeOK
<1>8. ASSUME NEW s \in Subs, UnsubCheck(s) PROVE Goal
  <2>1. unsubs' \subseteq unsubs /\ UNCHANGED <<subscribers, wsTopics, sub, pub, task, bus>>
    BY <1>8 DEF UnsubCheck
  <2>2. PointersSet'
    BY <1>1, <2>1, PointersStay, Zenon
  <2>3. QED BY <1>1, <2>1, <2>2, Zenon DEF RestTypeOK
<1>9. ASSUME NEW t \in Topics, UnsubscribeTopic(t) \/ WsChange(t) PROVE Goal
  <2>1. /\ subscribers' \subseteq Subs /\ wsTopics' \subseteq Topics
        /\ UNCHANGED <<sub, unsubs, pub, task, bus>>
    BY <1>1, <1>9 DEF UnsubscribeTopic, WsChange, RestTypeOK
  <2>2. PointersSet'
    BY <1>1, <2>1, PointersStay, Zenon
  <2>3. QED BY <1>1, <2>1, <2>2, Zenon DEF RestTypeOK
<1>10. ASSUME NEW m \in Msgs, NEW t \in Topics, PublishRead(m, t) PROVE Goal
  <2> DEFINE r == [stage |-> IF topics[t] = None THEN "returned" ELSE "read",
                   topic |-> t, target |-> topics[t]]
  <2>1. topics[t] \in TopicDatas \cup {None}
    BY DEF TypeInv, TypeOK
  <2>2. r \in PublishCall /\ (r.stage \in {"read", "checked"} => r.target \in TopicDatas)
    BY <2>1 DEF PublishCall
  <2>3. /\ pub' = [pub EXCEPT ![m] = r]
        /\ UNCHANGED <<subscribers, wsTopics, sub, unsubs, task, bus>>
    BY <1>10, Zenon DEF PublishRead
  <2>4. QED BY <1>4, <2>2, <2>3, Zenon
<1>11. ASSUME NEW m \in Msgs, PublishCheck(m) \/ PublishSend(m) PROVE Goal
  <2> DEFINE R(st) == [pub[m] EXCEPT !.stage = st]
  <2>1. pub[m] \in PublishCall /\ pub[m].target \in TopicDatas
    BY <1>1, <1>11, Zenon DEF RestTypeOK, PointersSet, PublishCheck, PublishSend
  <2>2. ASSUME NEW st \in {"checked", "returned"}
        PROVE  R(st) \in PublishCall /\ R(st).target \in TopicDatas
    BY <2>1 DEF PublishCall
  <2>3. \E st \in {"checked", "returned"} : pub' = [pub EXCEPT ![m] = R(st)]
    BY <1>11, Zenon DEF PublishCheck, PublishSend
  <2>4. UNCHANGED <<subscribers, wsTopics, sub, unsubs, task, bus>>
    BY <1>11, Zenon DEF PublishCheck, PublishSend
  <2>5. QED BY <1>4, <2>2, <2>3, <2>4, Zenon
<1>12. ASSUME NEW i \in TopicDatas, ProcDispatch(i) \/ ProcDrain(i) PROVE Goal
  <2>1. data[i].events \in Seq(Msgs) /\ data[i].eventCh \in Seq(Msgs)
    BY DEF TypeInv, TypeOK, DataTopic
  <2>2. ProcDrain(i) => <<Head(data[i].eventCh)>> \in Seq(Msgs)
    BY <2>1 DEF ProcDrain
  <2>3. task' \in [Deliveries -> TaskCounts]
    BY <1>12, <2>1, <2>2, SubmitType, Zenon DEF ProcDispatch, ProcDrain, TypeInv
  <2>4. UNCHANGED <<subscribers, wsTopics, sub, unsubs, pub, bus>>
    BY <1>12, Zenon DEF ProcDispatch, ProcDrain
  <2>5. PointersSet'
    BY <1>1, <2>4, PointersStay, Zenon
  <2>6. QED BY <1>1, <2>3, <2>4, <2>5, Zenon DEF RestTypeOK
<1>13. ASSUME NEW s \in Subs, NEW m \in Msgs, TaskStart(s, m) \/ TaskReturn(s, m)
       PROVE  Goal
  <2>1. <<s, m>> \in Deliveries /\ task[<<s, m>>] \in TaskCounts
    BY <1>1 DEF RestTypeOK, Deliveries
  <2>2. \E c \in TaskCounts : task' = [task EXCEPT ![<<s, m>>] = c]
    <3> DEFINE e == task[<<s, m>>]
    <3>1. e.queued \in Nat /\ e.running \in Nat /\ e.ran \in Nat
      BY <2>1 DEF TaskCounts
    <3>2. CASE TaskStart(s, m)
      <4> DEFINE q == e.queued - 1
                 r == IF sub[s].active THEN e.running + 1 ELSE e.running
                 d == [e EXCEPT !.queued = q, !.running = r]
      <4>1. q \in Nat /\ r \in Nat
        BY <3>1, <3>2 DEF TaskStart
      <4>2. task' = [task EXCEPT ![<<s, m>>] = d]
        BY <3>2, Zenon DEF TaskStart
      <4> HIDE DEF q, r
      <4>3. d \in TaskCounts
        BY <2>1, <4>1 DEF TaskCounts
      <4>4. QED BY <4>2, <4>3, Zenon
    <3>3. CASE TaskReturn(s, m)
      <4> DEFINE r == e.running - 1
                 n == e.ran + 1
                 d == [e EXCEPT !.running = r, !.ran = n]
      <4>1. r \in Nat /\ n \in Nat
        BY <3>1, <3>3 DEF TaskReturn
      <4>2. task' = [task EXCEPT ![<<s, m>>] = d]
        BY <3>3, Zenon DEF TaskReturn
      <4> HIDE DEF r, n
      <4>3. d \in TaskCounts
        BY <2>1, <4>1 DEF TaskCounts
      <4>4. QED BY <4>2, <4>3, Zenon
    <3>4. QED BY <1>13, <3>2, <3>3, Zenon
  <2>3. task' \in [Deliveries -> TaskCounts]
    BY <1>1, <2>1, <2>2 DEF RestTypeOK
  <2>4. UNCHANGED <<subscribers, wsTopics, sub, unsubs, pub, bus>>
    BY <1>13, Zenon DEF TaskStart, TaskReturn
  <2>5. PointersSet'
    BY <1>1, <2>4, PointersStay, Zenon
  <2>6. QED BY <1>1, <2>3, <2>4, <2>5, Zenon DEF RestTypeOK
<1>14. ASSUME CloseDone \/ ClosePool PROVE Goal
  <2>1. UNCHANGED <<subscribers, wsTopics, sub, unsubs, pub, task>>
        /\ bus' \in {"open", "closing", "closed"}
    BY <1>14 DEF CloseDone, ClosePool
  <2>2. PointersSet'
    BY <1>1, <2>1, PointersStay, Zenon
  <2>3. QED BY <1>1, <2>1, <2>2, Zenon DEF RestTypeOK
<1>15. ASSUME NEW i \in TopicDatas, ProcTake(i) \/ ProcStop(i) \/ ProcExit(i) \/ Compact(i)
       PROVE  Goal
  BY <1>2, <1>15, Zenon DEF ProcTake, ProcStop, ProcExit, Compact
<1>16. ASSUME UNCHANGED vars PROVE Goal
  BY <1>2, <1>16, Zenon DEF vars
<1>17. QED
  BY <1>5, <1>6, <1>7, <1>8, <1>9, <1>10, <1>11, <1>12, <1>13, <1>14, <1>15, <1>16,
     Zenon DEF Next

\* Types hold initially.
LEMMA InitTypeInv == Init => TypeInv
<1> SUFFICES ASSUME Init PROVE TypeInv
  OBVIOUS
<1> DEFINE d0 == [subscribers |-> {}, active |-> FALSE, eventCh |-> <<>>, closes |-> 0,
                  compacting |-> FALSE, proc |-> "none", events |-> <<>>, last |-> {}]
<1>1. d0 \in DataTopic /\ WithinCapacity(d0)
  BY TopicBusAssumption DEF DataTopic, WithinCapacity
<1>2. data = [i \in TopicDatas |-> d0]
  BY Zenon DEF Init
<1>3. data \in [TopicDatas -> DataTopic] /\ \A i \in TopicDatas : WithinCapacity(data[i])
  BY <1>1, <1>2, Zenon
<1>4. /\ sub \in [Subs -> Subscriber]
      /\ pub \in [Msgs -> PublishCall]
      /\ task \in [Deliveries -> TaskCounts]
  BY DEF Init, Subscriber, PublishCall, TaskCounts
<1>5. PointersSet
  BY DEF Init, PointersSet
<1>6. /\ topics \in [Topics -> TopicDatas \cup {None}]
      /\ subscribers \subseteq Subs
      /\ wsTopics \subseteq Topics
      /\ unsubs \subseteq Subs \X {"remove", "check"}
      /\ bus \in {"open", "closing", "closed"}
  BY DEF Init
<1>7. QED BY <1>3, <1>4, <1>5, <1>6, Zenon DEF TypeInv, TypeOK

\* The type invariant is inductive.
LEMMA NextTypeInv == TypeInv /\ [Next]_vars => TypeInv'
<1> SUFFICES ASSUME TypeInv, [Next]_vars PROVE TypeInv'
  OBVIOUS
<1>1. DataTypeOK' /\ RestTypeOK' /\ PointersSet'
  BY DataStep, RestStep, Zenon
<1>2. QED BY <1>1, Zenon DEF TypeInv, TypeOK, DataTypeOK, RestTypeOK

LEMMA AlwaysTypeInv == Spec => []TypeInv
BY InitTypeInv, NextTypeInv, PTL DEF Spec

\* Every reachable state has the types of TypeOK, and no channel or batch
\* exceeds its capacity.
THEOREM TypeCorrect == Spec => []TypeOK
<1>1. TypeInv => TypeOK
  BY DEF TypeInv
<1>2. QED BY <1>1, AlwaysTypeInv, PTL

-----------------------------------------------------------------------------
(* The map and the stop channels. *)

\* The two properties about the map and the stop channels are inductive
\* together, once it is known that a dataTopic that was never allocated was
\* never stopped.
MapInv ==
    /\ StopChannelClosedOnce
    /\ MapHoldsTheRunningTopics
    /\ \A i \in TopicDatas : data[i].proc = "none" => data[i].closes = 0

LEMMA InitMapInv == Init => MapInv
<1> SUFFICES ASSUME Init PROVE MapInv
  OBVIOUS
<1>1. \A i \in TopicDatas : data[i].proc = "none" /\ data[i].closes = 0
  BY DEF Init
<1>2. \A t \in Topics : topics[t] = None
  BY DEF Init
<1>3. QED
  BY <1>1, <1>2, TopicBusAssumption
     DEF MapInv, StopChannelClosedOnce, MapHoldsTheRunningTopics

LEMMA NextMapInv == TypeInv /\ MapInv /\ [Next]_vars => MapInv'
<1> SUFFICES ASSUME TypeInv, MapInv, [Next]_vars PROVE MapInv'
  OBVIOUS
<1> USE DEF MapInv, StopChannelClosedOnce, MapHoldsTheRunningTopics
<1>1. topics \in [Topics -> TopicDatas \cup {None}]
  BY DEF TypeInv, TypeOK
<1>2. \A i \in TopicDatas : data[i].closes \in Nat
  BY DEF TypeInv, TypeOK, DataTopic
<1>3. CASE Quiet
  <2>1. \A i \in TopicDatas : /\ data'[i].closes = data[i].closes
                              /\ data'[i].proc = "none" <=> data[i].proc = "none"
    BY <1>3 DEF Quiet
  <2>2. topics' = topics
    BY <1>3 DEF Quiet
  <2>3. QED BY <2>1, <2>2, Zenon
<1>4. ASSUME NEW t \in Topics, NEW i \in TopicDatas, Started(t, i) PROVE MapInv'
  <2>1. /\ topics[t] = None /\ i # None
        /\ data[i].proc = "none" /\ data[i].closes = 0
        /\ \A u \in Topics : topics[u] # i
    BY <1>4, TopicBusAssumption DEF Started
  <2>2. \A u \in Topics : topics'[u] = IF u = t THEN i ELSE topics[u]
    BY <1>1, <1>4 DEF Started
  <2>3. /\ data'[i].proc = "running"
        /\ \A j \in TopicDatas : /\ data'[j].closes = data[j].closes
                                 /\ j # i => data'[j].proc = data[j].proc
    BY <1>4, Zenon DEF Started
  <2>4. StopChannelClosedOnce'
    BY <2>3, Zenon
  <2>5. MapHoldsTheRunningTopics'
    <3>1. ASSUME NEW j \in TopicDatas
          PROVE  (\E u \in Topics : topics'[u] = j)
                    <=> (data'[j].proc # "none" /\ data'[j].closes = 0)
      <4>1. CASE j = i
        BY <2>1, <2>2, <2>3, <4>1
      <4>2. CASE j # i
        <5>1. (\E u \in Topics : topics'[u] = j) <=> (\E u \in Topics : topics[u] = j)
          BY <2>1, <2>2, <4>2, TopicBusAssumption
        <5>2. QED BY <2>3, <4>2, <5>1, Zenon
      <4>3. QED BY <4>1, <4>2
    <3>2. \A v, w \in Topics : topics'[v] = topics'[w] /\ topics'[v] # None => v = w
      BY <2>1, <2>2
    <3>3. QED BY <3>1, <3>2, Zenon
  <2>6. \A j \in TopicDatas : data'[j].proc = "none" => data'[j].closes = 0
    BY <2>3
  <2>7. QED BY <2>4, <2>5, <2>6, Zenon
<1>5. ASSUME NEW t \in Topics, Stopped(t) PROVE MapInv'
  <2> DEFINE i == topics[t]
  <2>1. /\ i \in TopicDatas /\ i # None
        /\ data[i].proc # "none" /\ data[i].closes = 0
    BY <1>1, <1>5 DEF Stopped
  <2>2. \A u \in Topics : topics'[u] = IF u = t THEN None ELSE topics[u]
    BY <1>1, <1>5 DEF Stopped
  <2>3. \A j \in TopicDatas :
           /\ data'[j].closes = IF j = i THEN data[j].closes + 1 ELSE data[j].closes
           /\ data'[j].proc = data[j].proc
    BY <1>5, Zenon DEF Stopped
  <2>4. data'[i].closes = 1
    BY <2>1, <2>3
  <2>5. StopChannelClosedOnce'
    BY <2>1, <2>3, <2>4
  <2>6. MapHoldsTheRunningTopics'
    <3>1. ASSUME NEW j \in TopicDatas
          PROVE  (\E u \in Topics : topics'[u] = j)
                    <=> (data'[j].proc # "none" /\ data'[j].closes = 0)
      <4>1. CASE j = i
        <5>1. \A u \in Topics : topics'[u] # j
          BY <2>1, <2>2, <4>1
        <5>2. data'[j].closes # 0
          BY <2>4, <4>1
        <5>3. QED BY <5>1, <5>2, Zenon
      <4>2. CASE j # i
        <5>1. j # None
          BY TopicBusAssumption
        <5>2. (\E u \in Topics : topics'[u] = j) <=> (\E u \in Topics : topics[u] = j)
          BY <2>2, <4>2, <5>1, Zenon
        <5>3. QED BY <2>3, <4>2, <5>2, Zenon
      <4>3. QED BY <4>1, <4>2
    <3>2. \A v, w \in Topics : topics'[v] = topics'[w] /\ topics'[v] # None => v = w
      BY <2>2, Zenon
    <3>3. QED BY <3>1, <3>2, Zenon
  <2>7. \A j \in TopicDatas : data'[j].proc = "none" => data'[j].closes = 0
    BY <2>1, <2>3, Zenon
  <2>8. QED BY <2>5, <2>6, <2>7, Zenon
<1>6. QED BY <1>3, <1>4, <1>5, DataStep, Zenon

LEMMA AlwaysMapInv == Spec => []MapInv
<1>1. TypeInv /\ MapInv /\ [Next]_vars => MapInv'
  BY NextMapInv
<1>2. QED BY <1>1, InitMapInv, AlwaysTypeInv, PTL DEF Spec

\* The stop channel of a dataTopic is closed at most once, in every instance.
THEOREM StopsOnce == Spec => []StopChannelClosedOnce
<1>1. MapInv => StopChannelClosedOnce
  BY DEF MapInv
<1>2. QED BY <1>1, AlwaysMapInv, PTL

\* The map and the stop channels agree, in every instance.
THEOREM MapAgrees == Spec => []MapHoldsTheRunningTopics
<1>1. MapInv => MapHoldsTheRunningTopics
  BY DEF MapInv
<1>2. QED BY <1>1, AlwaysMapInv, PTL

-----------------------------------------------------------------------------
(* The slices. *)

\* SubscriberStaysInSlice is inductive by itself, given the types: a step
\* either leaves a subscriber alone, and then its membership is kept, or it is
\* one of its own.
LEMMA NextSubscriberStays ==
    TypeInv /\ SubscriberStaysInSlice /\ [Next]_vars => SubscriberStaysInSlice'
<1> SUFFICES ASSUME TypeInv, SubscriberStaysInSlice, [Next]_vars
             PROVE  SubscriberStaysInSlice'
  OBVIOUS
<1> DEFINE Stays(q) == sub[q].stage = "subscribed" /\ sub[q].active /\ sub[q].alive
                          => q \in data[sub[q].data].subscribers
<1>1. MembersKept
  BY DataStep, Zenon
<1>2. sub \in [Subs -> Subscriber] /\ data \in [TopicDatas -> DataTopic] /\ PointersSet
  BY Zenon DEF TypeInv, TypeOK
<1>3. ASSUME NEW q \in Subs, sub'[q] = sub[q] PROVE Stays(q)'
  <2> SUFFICES ASSUME sub[q].stage = "subscribed", sub[q].active, sub[q].alive
               PROVE  q \in data'[sub[q].data].subscribers
    BY <1>3, Zenon
  <2>1. q \in data[sub[q].data].subscribers
    BY Zenon DEF SubscriberStaysInSlice
  <2>2. sub[q].data \in TopicDatas
    <3>1. sub[q].stage # "new"
      OBVIOUS
    <3>2. QED BY <1>2, <3>1, Zenon DEF PointersSet
  <2>3. q \in Live(data[sub[q].data].subscribers)
    BY <2>1, Zenon DEF Live
  <2>4. QED BY <1>1, <2>2, <2>3, Zenon DEF MembersKept
<1>4. ASSUME UNCHANGED sub PROVE SubscriberStaysInSlice'
  BY <1>3, <1>4, Zenon DEF SubscriberStaysInSlice
<1>5. ASSUME NEW s \in Subs, Stays(s)', \A q \in Subs : q # s => sub'[q] = sub[q]
      PROVE  SubscriberStaysInSlice'
  BY <1>3, <1>5, Zenon DEF SubscriberStaysInSlice
<1>6. ASSUME NEW s \in Subs, NEW t \in Topics, NEW i \in TopicDatas,
             SubscribeRegister(s, t, i)
      PROVE  SubscriberStaysInSlice'
  <2>1. sub'[s].stage = "registered" /\ \A q \in Subs : q # s => sub'[q] = sub[q]
    BY <1>2, <1>6 DEF SubscribeRegister
  <2>2. QED BY <1>5, <2>1
<1>7. ASSUME NEW s \in Subs, SubscribeAppend(s) PROVE SubscriberStaysInSlice'
  <2> DEFINE i == sub[s].data
             m == data[i].subscribers \cup {s}
             d == [data[i] EXCEPT !.subscribers = m]
             r == [sub[s] EXCEPT !.stage = "subscribed"]
  <2>1. i \in TopicDatas /\ data[i] \in DataTopic /\ sub[s] \in Subscriber
    BY <1>2, <1>7, Zenon DEF SubscribeAppend, PointersSet
  <2>2. data' = [data EXCEPT ![i] = d] /\ sub' = [sub EXCEPT ![s] = r]
    BY <1>7, Zenon DEF SubscribeAppend
  <2>3. d.subscribers = m /\ r.data = i
    BY <2>1 DEF DataTopic, Subscriber
  <2> HIDE DEF d, r
  <2>4. data'[i] = d /\ sub'[s] = r /\ \A q \in Subs : q # s => sub'[q] = sub[q]
    BY <1>2, <2>1, <2>2
  <2>5. s \in data'[sub'[s].data].subscribers
    BY <2>3, <2>4, Zenon
  <2>6. QED BY <1>5, <2>4, <2>5, Zenon
<1>8. ASSUME NEW s \in Subs, Unsub(s) \/ Collect(s) PROVE SubscriberStaysInSlice'
  <2>1. sub[s] \in Subscriber
    BY <1>2
  <2>2. ~sub'[s].active \/ ~sub'[s].alive
    BY <1>2, <1>8, <2>1 DEF Unsub, Collect, Subscriber
  <2>3. \A q \in Subs : q # s => sub'[q] = sub[q]
    BY <1>2, <1>8 DEF Unsub, Collect
  <2>4. QED BY <1>5, <2>2, <2>3, Zenon
<1>9. ASSUME \/ \E s \in Subs : UnsubRemove(s) \/ UnsubCheck(s)
             \/ \E t \in Topics : UnsubscribeTopic(t) \/ WsChange(t)
             \/ \E m \in Msgs, t \in Topics : PublishRead(m, t)
             \/ \E m \in Msgs : PublishCheck(m) \/ PublishSend(m)
             \/ \E i \in TopicDatas : \/ ProcTake(i) \/ ProcDispatch(i) \/ ProcStop(i)
                                      \/ ProcDrain(i) \/ ProcExit(i) \/ Compact(i)
             \/ \E s \in Subs, m \in Msgs : TaskStart(s, m) \/ TaskReturn(s, m)
             \/ CloseDone \/ ClosePool \/ UNCHANGED vars
      PROVE  UNCHANGED sub
  BY <1>9, Zenon
     DEF UnsubRemove, UnsubCheck, UnsubscribeTopic, WsChange, PublishRead, PublishCheck,
         PublishSend, ProcTake, ProcDispatch, ProcStop, ProcDrain, ProcExit, Compact,
         TaskStart, TaskReturn, CloseDone, ClosePool, vars
<1>10. QED BY <1>4, <1>6, <1>7, <1>8, <1>9, Zenon DEF Next

\* An active, live subscriber stays in its slice, in every instance.
THEOREM SubscriberStays == Spec => []SubscriberStaysInSlice
<1>1. Init => SubscriberStaysInSlice
  BY DEF Init, SubscriberStaysInSlice
<1>2. TypeInv /\ SubscriberStaysInSlice /\ [Next]_vars => SubscriberStaysInSlice'
  BY NextSubscriberStays
<1>3. QED BY <1>1, <1>2, AlwaysTypeInv, PTL DEF Spec
-----------------------------------------------------------------------------
(* TopicBus implements PubSub. *)

\* Nothing points to a dataTopic before the subscriber or the call is there.
Fresh ==
    /\ \A s \in Subs : sub[s].stage = "new" => sub[s].topic = None /\ sub[s].data = None
    /\ \A m \in Msgs : pub[m].stage = "new" => pub[m].topic = None /\ pub[m].target = None

\* A dataTopic serves one topic, for it is not used again once it was stopped.
Serves(i, t) ==
    \/ t \in Topics /\ topics[t] = i
    \/ \E s \in Subs : sub[s].data = i /\ sub[s].topic = t
    \/ \E m \in Msgs : pub[m].target = i /\ pub[m].topic = t

ServesOne ==
    \A i \in TopicDatas :
        /\ \A t, u \in Topics \cup {None} : Serves(i, t) /\ Serves(i, u) => t = u
        /\ data[i].proc = "none" => \A t \in Topics \cup {None} : ~Serves(i, t)

\* The members of a slice, and of the copy a goroutine drains into, subscribed
\* to its dataTopic.
MembersOwn ==
    \A i \in TopicDatas : \A s \in data[i].subscribers \cup data[i].last :
        sub[s].stage = "subscribed" /\ sub[s].data = i

\* A message is in one place: with its Publish call, once in the channel or
\* once in the batch of the dataTopic it was published to, or handed out.
Occurs(seq, m) == \E k \in DOMAIN seq : seq[k] = m
Distinct(seq) == \A k, l \in DOMAIN seq : seq[k] = seq[l] => k = l
Waits(i, m) == Occurs(data[i].eventCh, m) \/ Occurs(data[i].events, m)
Untouched(c) == c.queued = 0 /\ c.running = 0 /\ c.ran = 0

WaitsAt(i, m) ==
    /\ ~(Occurs(data[i].eventCh, m) /\ Occurs(data[i].events, m))
    /\ pub[m].stage = "returned" /\ pub[m].target = i
    /\ \A s \in Subs : Untouched(task[<<s, m>>])
WaitsOnce ==
    \A i \in TopicDatas :
        /\ Distinct(data[i].eventCh) /\ Distinct(data[i].events)
        /\ \A m \in Msgs : Waits(i, m) => WaitsAt(i, m)

\* Handed out, it has one task for a subscriber of that dataTopic, which the
\* task keeps alive.
Handed(s, m) ==
    LET c == task[<<s, m>>] IN
    /\ ~Untouched(c) => /\ c.queued + c.running + c.ran <= 1
                        /\ pub[m].stage = "returned"
                        /\ sub[s].stage = "subscribed"
                        /\ pub[m].target = sub[s].data
    /\ c.queued > 0 => sub[s].alive
HandedOnce == \A s \in Subs, m \in Msgs : Handed(s, m)

PromiseInv == Fresh /\ ServesOne /\ MembersOwn /\ WaitsOnce /\ HandedOnce

\* What a step does to subscribers and calls, one record at a time.
SubMoves(s, r) ==
    /\ sub'[s] = r
    /\ \A q \in Subs : q # s => sub'[q] = sub[q]
PubMoves(m, r) ==
    /\ pub'[m] = r
    /\ \A q \in Msgs : q # m => pub'[q] = pub[q]

LEMMA SubEffect ==
    ASSUME TypeInv, NEW s \in Subs
    PROVE  /\ \A t \in Topics, i \in TopicDatas : SubscribeRegister(s, t, i) =>
                 /\ sub[s].stage = "new"
                 /\ SubMoves(s, [stage |-> "registered", topic |-> t, data |-> i,
                                 active |-> TRUE, alive |-> TRUE])
           /\ SubscribeAppend(s) => SubMoves(s, [sub[s] EXCEPT !.stage = "subscribed"])
           /\ Unsub(s) => SubMoves(s, [sub[s] EXCEPT !.active = FALSE])
           /\ Collect(s) => SubMoves(s, [sub[s] EXCEPT !.alive = FALSE])
<1>1. sub \in [Subs -> Subscriber]
  BY DEF TypeInv, TypeOK
<1>2. ASSUME NEW r, sub' = [sub EXCEPT ![s] = r] PROVE SubMoves(s, r)
  BY <1>1, <1>2 DEF SubMoves
<1>3. QED BY <1>2, Zenon DEF SubscribeRegister, SubscribeAppend, Unsub, Collect

LEMMA PubEffect ==
    ASSUME TypeInv, NEW m \in Msgs
    PROVE  /\ \A t \in Topics : PublishRead(m, t) =>
                 /\ pub[m].stage = "new"
                 /\ PubMoves(m, [stage |-> IF topics[t] = None THEN "returned" ELSE "read",
                                 topic |-> t, target |-> topics[t]])
           /\ PublishCheck(m) =>
                 /\ pub[m].stage = "read"
                 /\ \E g \in {"checked", "returned"} : PubMoves(m, [pub[m] EXCEPT !.stage = g])
           /\ PublishSend(m) =>
                 /\ pub[m].stage = "checked"
                 /\ PubMoves(m, [pub[m] EXCEPT !.stage = "returned"])
<1>1. pub \in [Msgs -> PublishCall]
  BY DEF TypeInv, TypeOK
<1>2. ASSUME NEW r, pub' = [pub EXCEPT ![m] = r] PROVE PubMoves(m, r)
  BY <1>1, <1>2 DEF PubMoves
<1>3. QED BY <1>2, Zenon DEF PublishRead, PublishCheck, PublishSend

\* Their fields.
LEMMA NewFields ==
    ASSUME TypeInv
    PROVE  /\ \A s \in Subs, t \in Topics, i \in TopicDatas : SubscribeRegister(s, t, i) =>
                 /\ sub'[s].stage = "registered" /\ sub'[s].data = i /\ sub'[s].topic = t
                 /\ sub'[s].active /\ sub'[s].alive
                 /\ \A q \in Subs : q # s => sub'[q] = sub[q]
           /\ \A m \in Msgs, t \in Topics : PublishRead(m, t) =>
                 /\ pub'[m].stage # "new" /\ pub'[m].target = topics[t] /\ pub'[m].topic = t
                 /\ pub'[m].stage = "returned" => topics[t] = None
                 /\ \A q \in Msgs : q # m => pub'[q] = pub[q]
<1>1. ASSUME NEW s \in Subs, NEW t \in Topics, NEW i \in TopicDatas, SubscribeRegister(s, t, i)
      PROVE  /\ sub'[s].stage = "registered" /\ sub'[s].data = i /\ sub'[s].topic = t
             /\ sub'[s].active /\ sub'[s].alive
             /\ \A q \in Subs : q # s => sub'[q] = sub[q]
  <2> DEFINE r == [stage |-> "registered", topic |-> t, data |-> i,
                   active |-> TRUE, alive |-> TRUE]
  <2>1. SubMoves(s, r)
    BY <1>1, SubEffect, Zenon
  <2>2. r.stage = "registered" /\ r.data = i /\ r.topic = t /\ r.active /\ r.alive
    OBVIOUS
  <2> HIDE DEF r
  <2>3. QED BY <2>1, <2>2, Zenon DEF SubMoves
<1>2. ASSUME NEW m \in Msgs, NEW t \in Topics, PublishRead(m, t)
      PROVE  /\ pub'[m].stage # "new" /\ pub'[m].target = topics[t] /\ pub'[m].topic = t
             /\ pub'[m].stage = "returned" => topics[t] = None
             /\ \A q \in Msgs : q # m => pub'[q] = pub[q]
  <2> DEFINE r == [stage |-> IF topics[t] = None THEN "returned" ELSE "read",
                   topic |-> t, target |-> topics[t]]
  <2>1. PubMoves(m, r)
    BY <1>2, PubEffect, Zenon
  <2>2. /\ r.stage # "new" /\ r.target = topics[t] /\ r.topic = t
        /\ r.stage = "returned" => topics[t] = None
    OBVIOUS
  <2> HIDE DEF r
  <2>3. QED BY <2>1, <2>2, Zenon DEF PubMoves
<1>3. QED BY <1>1, <1>2, Zenon

\* The fields that no step but the first of a call changes.
SubKeeps == \A s \in Subs : /\ sub'[s].data = sub[s].data /\ sub'[s].topic = sub[s].topic
                            /\ sub'[s].stage = "new" <=> sub[s].stage = "new"
PubKeeps == \A m \in Msgs : /\ pub'[m].target = pub[m].target /\ pub'[m].topic = pub[m].topic
                            /\ pub'[m].stage = "new" <=> pub[m].stage = "new"

LEMMA Keeps ==
    ASSUME TypeInv, [Next]_vars
    PROVE  /\ SubKeeps \/ \E s \in Subs, t \in Topics, i \in TopicDatas : SubscribeRegister(s, t, i)
           /\ PubKeeps \/ \E m \in Msgs, t \in Topics : PublishRead(m, t)
<1>1. sub \in [Subs -> Subscriber] /\ pub \in [Msgs -> PublishCall]
  BY DEF TypeInv, TypeOK
<1>2. UNCHANGED sub => SubKeeps
  BY Zenon DEF SubKeeps
<1>3. UNCHANGED pub => PubKeeps
  BY Zenon DEF PubKeeps
<1>4. ASSUME NEW s \in Subs, SubscribeAppend(s) \/ Unsub(s) \/ Collect(s) PROVE SubKeeps
  <2>1. PICK r : SubMoves(s, r) /\ r.data = sub[s].data /\ r.topic = sub[s].topic
                   /\ r.stage \in {sub[s].stage, "subscribed"}
    <3>1. sub[s] \in Subscriber
      BY <1>1
    <3>2. /\ SubscribeAppend(s) => SubMoves(s, [sub[s] EXCEPT !.stage = "subscribed"])
          /\ Unsub(s) => SubMoves(s, [sub[s] EXCEPT !.active = FALSE])
          /\ Collect(s) => SubMoves(s, [sub[s] EXCEPT !.alive = FALSE])
      BY SubEffect
    <3>3. \A r : r \in {[sub[s] EXCEPT !.stage = "subscribed"], [sub[s] EXCEPT !.active = FALSE],
                        [sub[s] EXCEPT !.alive = FALSE]} =>
                    /\ r.data = sub[s].data /\ r.topic = sub[s].topic
                    /\ r.stage \in {sub[s].stage, "subscribed"}
      BY <3>1 DEF Subscriber
    <3>4. QED BY <1>4, <3>2, <3>3, Zenon
  <2>2. sub[s].stage # "new"
    BY <1>4 DEF SubscribeAppend, Unsub, Collect
  <2>3. QED BY <2>1, <2>2, Zenon DEF SubMoves, SubKeeps
<1>5. ASSUME NEW m \in Msgs, PublishCheck(m) \/ PublishSend(m) PROVE PubKeeps
  <2>1. PICK g \in {"checked", "returned"} : PubMoves(m, [pub[m] EXCEPT !.stage = g])
    BY <1>5, PubEffect, Zenon
  <2>2. pub[m] \in PublishCall /\ pub[m].stage # "new"
    BY <1>1, <1>5 DEF PublishCheck, PublishSend
  <2> DEFINE r == [pub[m] EXCEPT !.stage = g]
  <2>3. r.target = pub[m].target /\ r.topic = pub[m].topic /\ r.stage = g
    BY <2>2 DEF PublishCall
  <2>4. g # "new"
    BY <2>1
  <2>5. PubMoves(m, r)
    BY <2>1
  <2> HIDE DEF r
  <2>6. QED BY <2>2, <2>3, <2>4, <2>5, Zenon DEF PubMoves, PubKeeps
<1>6. QED
  BY <1>2, <1>3, <1>4, <1>5, Zenon
     DEF Next, vars, SubscribeRegister, SubscribeAppend, Unsub, UnsubRemove, UnsubCheck, Collect,
         UnsubscribeTopic, WsChange, PublishRead, PublishCheck, PublishSend, ProcTake,
         ProcDispatch, ProcStop, ProcDrain, ProcExit, Compact, TaskStart, TaskReturn, CloseDone,
         ClosePool

LEMMA NextFresh == TypeInv /\ Fresh /\ [Next]_vars => Fresh'
<1> SUFFICES ASSUME TypeInv, Fresh, [Next]_vars PROVE Fresh'
  OBVIOUS
<1>1. \A s \in Subs : sub'[s].stage = "new" => sub'[s].topic = None /\ sub'[s].data = None
  <2>1. CASE SubKeeps
    BY <2>1, Zenon DEF SubKeeps, Fresh
  <2>2. ASSUME NEW s \in Subs, NEW t \in Topics, NEW i \in TopicDatas, SubscribeRegister(s, t, i)
        PROVE  \A q \in Subs : sub'[q].stage = "new" => sub'[q].topic = None /\ sub'[q].data = None
    <3>1. sub'[s].stage = "registered" /\ \A q \in Subs : q # s => sub'[q] = sub[q]
      BY <2>2, NewFields, Zenon
    <3>2. QED BY <3>1 DEF Fresh
  <2>3. QED BY <2>1, <2>2, Keeps, Zenon
<1>2. \A m \in Msgs : pub'[m].stage = "new" => pub'[m].topic = None /\ pub'[m].target = None
  <2>1. CASE PubKeeps
    BY <2>1, Zenon DEF PubKeeps, Fresh
  <2>2. ASSUME NEW m \in Msgs, NEW t \in Topics, PublishRead(m, t)
        PROVE  \A q \in Msgs : pub'[q].stage = "new" => pub'[q].topic = None /\ pub'[q].target = None
    <3>1. pub'[m].stage # "new" /\ \A q \in Msgs : q # m => pub'[q] = pub[q]
      BY <2>2, NewFields, Zenon
    <3>2. QED BY <3>1 DEF Fresh
  <2>3. QED BY <2>1, <2>2, Keeps, Zenon
<1>3. QED BY <1>1, <1>2, Zenon DEF Fresh

\* The map changes as DataStep says.
LEMMA NextServesOne == TypeInv /\ Fresh /\ ServesOne /\ [Next]_vars => ServesOne'
<1> SUFFICES ASSUME TypeInv, Fresh, ServesOne, [Next]_vars PROVE ServesOne'
  OBVIOUS
<1>1. /\ topics \in [Topics -> TopicDatas \cup {None}]
      /\ None \notin TopicDatas /\ None \notin Topics
  BY TopicBusAssumption DEF TypeInv, TypeOK
<1>2. ASSUME NEW s \in Subs, NEW t \in Topics, NEW i \in TopicDatas, SubscribeRegister(s, t, i)
      PROVE  ServesOne'
  <2>1. sub'[s].data = i /\ sub'[s].topic = t /\ \A q \in Subs : q # s => sub'[q] = sub[q]
    BY <1>2, NewFields, Zenon
  <2>2. UNCHANGED pub
    BY <1>2 DEF SubscribeRegister
  <2>3. \A u \in Topics : topics'[u] = topics[u] \/ (u = t /\ topics'[u] = i)
    BY <1>1, <1>2, Zenon DEF SubscribeRegister, FindOrAllocate
  <2>4. ASSUME NEW j \in TopicDatas, NEW u \in Topics \cup {None}, Serves(j, u)'
        PROVE  Serves(j, u) \/ (j = i /\ u = t)
    BY <2>1, <2>2, <2>3, <2>4, Zenon DEF Serves
  <2>5. CASE topics[t] = i /\ UNCHANGED <<topics, data>>
    <3>1. Serves(i, t)
      BY <2>5 DEF Serves
    <3>2. \A j \in TopicDatas, u \in Topics \cup {None} : Serves(j, u)' => Serves(j, u)
      BY <2>4, <3>1, Zenon
    <3>3. QED BY <2>5, <3>2, Zenon DEF ServesOne
  <2>6. CASE data[i].proc = "none" /\ Started(t, i)
    <3>1. \A u \in Topics \cup {None} : ~Serves(i, u)
      BY <2>6, Zenon DEF ServesOne
    <3>2. data'[i].proc # "none" /\ \A j \in TopicDatas : j # i => data'[j].proc = data[j].proc
      BY <2>6 DEF Started
    <3>3. QED BY <2>4, <3>1, <3>2, Zenon DEF ServesOne
  <2>7. QED
    <3>1. CASE data[i].proc = "none" /\ ~(topics[t] = i /\ UNCHANGED <<topics, data>>)
      <4>1. /\ topics[t] = None
            /\ topics' = [topics EXCEPT ![t] = i]
            /\ data' = [data EXCEPT ![i].active = TRUE, ![i].proc = "running"]
        BY <1>2, <3>1, Zenon DEF SubscribeRegister, FindOrAllocate
      <4>2. ~Quiet
        BY <1>1, <4>1 DEF Quiet
      <4>3. QED BY <1>2, <2>6, <3>1, <4>2, StartStep, Zenon
    <3>2. QED BY <1>2, <2>5, <3>1, Zenon DEF SubscribeRegister, FindOrAllocate
<1>3. ASSUME \A j \in TopicDatas, u \in Topics \cup {None} : Serves(j, u)' => Serves(j, u),
             \A j \in TopicDatas : data'[j].proc = "none" => data[j].proc = "none"
      PROVE  ServesOne'
  BY <1>3, Zenon DEF ServesOne
<1>4. ASSUME NEW m \in Msgs, NEW t \in Topics, PublishRead(m, t) PROVE ServesOne'
  <2>1. pub'[m].target = topics[t] /\ pub'[m].topic = t /\ \A q \in Msgs : q # m => pub'[q] = pub[q]
    BY <1>4, NewFields, Zenon
  <2>2. UNCHANGED <<topics, data, sub>>
    BY <1>4 DEF PublishRead
  <2>3. \A j \in TopicDatas, u \in Topics \cup {None} : Serves(j, u)' => Serves(j, u)
    BY <2>1, <2>2, Zenon DEF Serves
  <2>4. QED BY <1>3, <2>2, <2>3, Zenon
<1>5. ASSUME SubKeeps, PubKeeps, \A u \in Topics : topics'[u] \in {topics[u], None},
             \A j \in TopicDatas : data'[j].proc = "none" => data[j].proc = "none"
      PROVE  ServesOne'
  <2>1. ASSUME NEW j \in TopicDatas, NEW u \in Topics \cup {None}, Serves(j, u)'
        PROVE  Serves(j, u)
    <3>1. j # None
      BY <1>1
    <3>2. CASE u \in Topics /\ topics'[u] = j
      <4>1. topics[u] = j
        BY <1>5, <3>1, <3>2
      <4>2. QED BY <3>2, <4>1, Zenon DEF Serves
    <3>3. CASE \E s \in Subs : sub'[s].data = j /\ sub'[s].topic = u
      BY <1>5, <3>3, Zenon DEF SubKeeps, Serves
    <3>4. CASE \E m \in Msgs : pub'[m].target = j /\ pub'[m].topic = u
      BY <1>5, <3>4, Zenon DEF PubKeeps, Serves
    <3>5. QED BY <2>1, <3>2, <3>3, <3>4, Zenon DEF Serves
  <2>2. QED BY <1>3, <1>5, <2>1, Zenon
<1>6. ASSUME SubKeeps, PubKeeps PROVE ServesOne' \/ \E t \in Topics, i \in TopicDatas : Started(t, i)
  <2>1. CASE Quiet
    BY <1>5, <1>6, <2>1 DEF Quiet
  <2>2. ASSUME NEW t \in Topics, Stopped(t) PROVE ServesOne'
    <3>1. \A u \in Topics : topics'[u] \in {topics[u], None}
      BY <1>1, <2>2 DEF Stopped
    <3>2. \A j \in TopicDatas : data'[j].proc = data[j].proc
      BY <2>2 DEF Stopped
    <3>3. QED BY <1>5, <1>6, <3>1, <3>2
  <2>3. QED BY <2>1, <2>2, DataStep, Zenon
<1>7. QED
  <2>1. CASE \E t \in Topics, i \in TopicDatas : Started(t, i)
    \* Only SubscribeRegister gives a topic a dataTopic.
    <3>1. PICK t \in Topics, i \in TopicDatas : topics[t] = None /\ topics'[t] = i
      BY <1>1, <2>1 DEF Started
    <3>2. topics'[t] # None /\ topics' # topics
      BY <1>1, <3>1
    <3>3. \A u \in Topics : ~Destroy(u)
      <4>1. ASSUME NEW u \in Topics, Destroy(u) PROVE FALSE
        <5>1. topics'[t] = IF t = u THEN None ELSE topics[t]
          BY <1>1, <4>1 DEF Destroy
        <5>2. QED BY <3>1, <3>2, <5>1
      <4>2. QED BY <4>1
    <3>4. \A s \in Subs : <<s, "check">> \in unsubs => sub[s].topic \in Topics
      BY Zenon DEF TypeInv, PointersSet
    <3>5. \E s \in Subs, u \in Topics, j \in TopicDatas : SubscribeRegister(s, u, j)
      BY <3>2, <3>3, <3>4, Zenon
         DEF Next, vars, SubscribeAppend, Unsub, UnsubRemove, UnsubCheck, Collect,
             UnsubscribeTopic, WsChange, PublishRead, PublishCheck, PublishSend, ProcTake,
             ProcDispatch, ProcStop, ProcDrain, ProcExit, Compact, TaskStart, TaskReturn,
             CloseDone, ClosePool
    <3>6. QED BY <1>2, <3>5, Zenon
  <2>2. QED BY <1>2, <1>4, <1>6, <2>1, Keeps, Zenon

-----------------------------------------------------------------------------
(* The slices and the queues. *)

\* What a step does to the slices and the queues of the dataTopics.
Slices(j) == data[j].subscribers \cup data[j].last
SlicesKept == \A j \in TopicDatas : Slices(j)' \subseteq Slices(j)
QueuesAre(i, c, e) ==
    /\ data'[i].eventCh = c /\ data'[i].events = e
    /\ \A j \in TopicDatas : j # i => /\ data'[j].eventCh = data[j].eventCh
                                      /\ data'[j].events = data[j].events
QueuesKept == \A j \in TopicDatas : /\ data'[j].eventCh = data[j].eventCh
                                    /\ data'[j].events = data[j].events

LEMMA OneData ==
    ASSUME TypeInv, NEW i \in TopicDatas, NEW d, data' = [data EXCEPT ![i] = d]
    PROVE  /\ QueuesAre(i, d.eventCh, d.events)
           /\ d.subscribers \cup d.last \subseteq Slices(i) => SlicesKept
<1>1. data'[i] = d /\ \A j \in TopicDatas : j # i => data'[j] = data[j]
  BY DEF TypeInv, TypeOK
<1>2. QED BY <1>1, Zenon DEF QueuesAre, SlicesKept, Slices

LEMMA StopFields ==
    ASSUME TypeInv, NEW t \in Topics, topics[t] # None, Destroy(t)
    PROVE  SlicesKept /\ QueuesKept
<1> DEFINE i == topics[t]
           n == data[i].closes + 1
           d == [data[i] EXCEPT !.closes = n]
<1>1. i \in TopicDatas /\ data[i] \in DataTopic
  BY DEF TypeInv, TypeOK
<1>2. data' = [data EXCEPT ![i] = d]
  BY Zenon DEF Destroy
<1>3. /\ d.eventCh = data[i].eventCh /\ d.events = data[i].events
      /\ d.subscribers = data[i].subscribers /\ d.last = data[i].last
  BY <1>1 DEF DataTopic
<1> HIDE DEF d, i
<1>4. QED BY <1>1, <1>2, <1>3, OneData, Zenon DEF QueuesAre, QueuesKept, Slices

LEMMA StartFields ==
    ASSUME TypeInv, NEW s \in Subs, NEW t \in Topics, NEW i \in TopicDatas,
           SubscribeRegister(s, t, i)
    PROVE  SlicesKept /\ QueuesKept
<1> DEFINE d == [data[i] EXCEPT !.active = TRUE, !.proc = "running"]
<1>1. data[i] \in DataTopic
  BY DEF TypeInv, TypeOK
<1>2. data' = [data EXCEPT ![i] = d] \/ UNCHANGED data
  BY Zenon DEF SubscribeRegister, FindOrAllocate
<1>3. /\ d.eventCh = data[i].eventCh /\ d.events = data[i].events
      /\ d.subscribers = data[i].subscribers /\ d.last = data[i].last
  BY <1>1 DEF DataTopic
<1> HIDE DEF d
<1>4. CASE data' = [data EXCEPT ![i] = d]
  BY <1>3, <1>4, OneData, Zenon DEF QueuesAre, QueuesKept, Slices
<1>5. CASE UNCHANGED data
  BY <1>5, Zenon DEF SlicesKept, Slices, QueuesKept
<1>6. QED BY <1>2, <1>4, <1>5

LEMMA AppendFields ==
    ASSUME TypeInv, NEW s \in Subs, SubscribeAppend(s)
    PROVE  /\ QueuesKept
           /\ \A j \in TopicDatas, q \in Subs :
                 q \in Slices(j)' => q \in Slices(j) \/ (q = s /\ j = sub[s].data)
<1> DEFINE i == sub[s].data
           m == data[i].subscribers \cup {s}
           d == [data[i] EXCEPT !.subscribers = m]
<1>1. i \in TopicDatas /\ data[i] \in DataTopic
  <2>1. i \in TopicDatas
    BY DEF TypeInv, PointersSet, SubscribeAppend
  <2>2. QED BY <2>1 DEF TypeInv, TypeOK
<1>2. data' = [data EXCEPT ![i] = d]
  BY Zenon DEF SubscribeAppend
<1>3. /\ d.eventCh = data[i].eventCh /\ d.events = data[i].events
      /\ d.subscribers = m /\ d.last = data[i].last
  BY <1>1 DEF DataTopic
<1> HIDE DEF d
<1>4. data'[i] = d /\ \A j \in TopicDatas : j # i => data'[j] = data[j]
  BY <1>1, <1>2 DEF TypeInv, TypeOK
<1>5. QED BY <1>3, <1>4, Zenon DEF QueuesKept, Slices

LEMMA SendFields ==
    ASSUME TypeInv, NEW m \in Msgs, PublishSend(m)
    PROVE  /\ pub[m].target \in TopicDatas
           /\ SlicesKept
           /\ QueuesAre(pub[m].target, TrySend(data[pub[m].target].eventCh, m),
                        data[pub[m].target].events)
<1> DEFINE i == pub[m].target
           c == TrySend(data[i].eventCh, m)
           d == [data[i] EXCEPT !.eventCh = c]
<1>1. i \in TopicDatas /\ data[i] \in DataTopic
  <2>1. i \in TopicDatas
    BY Zenon DEF TypeInv, PointersSet, PublishSend
  <2>2. QED BY <2>1 DEF TypeInv, TypeOK
<1>2. data' = [data EXCEPT ![i] = d]
  BY Zenon DEF PublishSend
<1> HIDE DEF c
<1>3. /\ d.eventCh = c /\ d.events = data[i].events
      /\ d.subscribers = data[i].subscribers /\ d.last = data[i].last
  BY <1>1 DEF DataTopic
<1> HIDE DEF d
<1>4. SlicesKept /\ QueuesAre(i, c, data[i].events)
  BY <1>1, <1>2, <1>3, OneData, Zenon DEF Slices
<1>5. QED BY <1>1, <1>4, Zenon DEF c

LEMMA ProcFields ==
    ASSUME TypeInv, NEW i \in TopicDatas
    PROVE  /\ ProcTake(i) => SlicesKept /\ QueuesAre(i, Tail(data[i].eventCh),
                                    Append(data[i].events, Head(data[i].eventCh)))
           /\ ProcDispatch(i) => SlicesKept /\ QueuesAre(i, data[i].eventCh, <<>>)
           /\ ProcDrain(i) => SlicesKept /\ QueuesAre(i, Tail(data[i].eventCh), data[i].events)
           /\ ProcStop(i) \/ ProcExit(i) \/ Compact(i) => SlicesKept /\ QueuesKept
<1>1. data[i] \in DataTopic
  BY DEF TypeInv, TypeOK
<1>2. ASSUME ProcTake(i)
      PROVE  SlicesKept /\ QueuesAre(i, Tail(data[i].eventCh),
                                     Append(data[i].events, Head(data[i].eventCh)))
  <2> DEFINE e == Append(data[i].events, Head(data[i].eventCh))
             c == Tail(data[i].eventCh)
             d == [data[i] EXCEPT !.events = e, !.eventCh = c]
  <2>1. data' = [data EXCEPT ![i] = d]
    BY <1>2, Zenon DEF ProcTake
  <2> HIDE DEF e, c
  <2>2. /\ d.eventCh = c /\ d.events = e
        /\ d.subscribers = data[i].subscribers /\ d.last = data[i].last
    BY <1>1 DEF DataTopic
  <2> HIDE DEF d
  <2>3. SlicesKept /\ QueuesAre(i, c, e)
    BY <2>1, <2>2, OneData, Zenon DEF Slices
  <2>4. QED BY <2>3 DEF c, e
<1>3. ASSUME ProcDispatch(i) PROVE SlicesKept /\ QueuesAre(i, data[i].eventCh, <<>>)
  <2> DEFINE b == data[i].compacting \/ MostlyDead(data[i].subscribers)
             d == [data[i] EXCEPT !.compacting = b, !.events = <<>>]
  <2>1. data' = [data EXCEPT ![i] = d]
    BY <1>3, Zenon DEF ProcDispatch, AfterDispatch
  <2> HIDE DEF b
  <2>2. /\ d.eventCh = data[i].eventCh /\ d.events = <<>>
        /\ d.subscribers = data[i].subscribers /\ d.last = data[i].last
    BY <1>1 DEF DataTopic
  <2> HIDE DEF d
  <2>3. QED BY <2>1, <2>2, OneData, Zenon DEF Slices
<1>4. ASSUME ProcDrain(i)
      PROVE  SlicesKept /\ QueuesAre(i, Tail(data[i].eventCh), data[i].events)
  <2> DEFINE b == data[i].compacting \/ MostlyDead(data[i].last)
             c == Tail(data[i].eventCh)
             d == [data[i] EXCEPT !.compacting = b, !.eventCh = c]
  <2>1. data' = [data EXCEPT ![i] = d]
    BY <1>4, Zenon DEF ProcDrain
  <2> HIDE DEF b, c
  <2>2. /\ d.eventCh = c /\ d.events = data[i].events
        /\ d.subscribers = data[i].subscribers /\ d.last = data[i].last
    BY <1>1 DEF DataTopic
  <2> HIDE DEF d
  <2>3. SlicesKept /\ QueuesAre(i, c, data[i].events)
    BY <2>1, <2>2, OneData, Zenon DEF Slices
  <2>4. QED BY <2>3 DEF c
<1>5. ASSUME ProcStop(i) \/ ProcExit(i) \/ Compact(i) PROVE SlicesKept /\ QueuesKept
  <2>1. PICK d : /\ data' = [data EXCEPT ![i] = d]
                 /\ d.eventCh = data[i].eventCh /\ d.events = data[i].events
                 /\ d.subscribers \cup d.last \subseteq Slices(i)
    <3>1. CASE ProcStop(i)
      <4> DEFINE d == [data[i] EXCEPT !.proc = "draining", !.active = FALSE,
                                      !.last = data[i].subscribers]
      <4>1. data' = [data EXCEPT ![i] = d]
        BY <3>1, Zenon DEF ProcStop
      <4>2. /\ d.eventCh = data[i].eventCh /\ d.events = data[i].events
            /\ d.subscribers \cup d.last \subseteq Slices(i)
        BY <1>1 DEF DataTopic, Slices
      <4>3. QED BY <4>1, <4>2, Zenon
    <3>2. CASE ProcExit(i)
      <4> DEFINE d == [data[i] EXCEPT !.proc = "exited"]
      <4>1. data' = [data EXCEPT ![i] = d]
        BY <3>2, Zenon DEF ProcExit
      <4>2. /\ d.eventCh = data[i].eventCh /\ d.events = data[i].events
            /\ d.subscribers \cup d.last \subseteq Slices(i)
        BY <1>1 DEF DataTopic, Slices
      <4>3. QED BY <4>1, <4>2, Zenon
    <3>3. CASE Compact(i)
      <4> DEFINE l == KeepLive(data[i].subscribers)
                 d == [data[i] EXCEPT !.subscribers = l, !.compacting = FALSE]
      <4>1. data' = [data EXCEPT ![i] = d]
        BY <3>3, Zenon DEF Compact
      <4>2. l \subseteq data[i].subscribers
        BY DEF KeepLive, Live
      <4> HIDE DEF l
      <4>3. /\ d.eventCh = data[i].eventCh /\ d.events = data[i].events
            /\ d.subscribers \cup d.last \subseteq Slices(i)
        BY <1>1, <4>2 DEF DataTopic, Slices
      <4>4. QED BY <4>1, <4>3, Zenon
    <3>4. QED BY <1>5, <3>1, <3>2, <3>3
  <2>2. SlicesKept /\ QueuesAre(i, d.eventCh, d.events)
    BY <2>1, OneData, Zenon
  <2>3. QED BY <2>1, <2>2, Zenon DEF QueuesAre, QueuesKept
<1>6. QED BY <1>2, <1>3, <1>4, <1>5, Zenon

LEMMA FieldStep ==
    ASSUME TypeInv, [Next]_vars
    PROVE  /\ SlicesKept \/ \E s \in Subs : SubscribeAppend(s)
           /\ \/ QueuesKept
              \/ \E m \in Msgs : PublishSend(m)
              \/ \E i \in TopicDatas : ProcTake(i) \/ ProcDispatch(i) \/ ProcDrain(i)
<1> DEFINE Goal == /\ SlicesKept \/ \E s \in Subs : SubscribeAppend(s)
                   /\ \/ QueuesKept
                      \/ \E m \in Msgs : PublishSend(m)
                      \/ \E i \in TopicDatas : ProcTake(i) \/ ProcDispatch(i) \/ ProcDrain(i)
<1>1. ASSUME UNCHANGED data PROVE Goal
  BY <1>1, Zenon DEF SlicesKept, Slices, QueuesKept
<1>2. ASSUME NEW t \in Topics, topics[t] # None, Destroy(t) PROVE Goal
  BY <1>2, StopFields, Zenon
<1>3. ASSUME NEW s \in Subs, UnsubCheck(s) PROVE Goal
  <2>1. sub[s].topic \in Topics
    BY <1>3, Zenon DEF UnsubCheck, TypeInv, PointersSet
  <2>2. QED BY <1>1, <1>2, <1>3, <2>1, Zenon DEF UnsubCheck, Deserted
<1>4. ASSUME NEW t \in Topics, UnsubscribeTopic(t) PROVE Goal
  BY <1>2, <1>4, Zenon DEF UnsubscribeTopic
<1>5. ASSUME NEW s \in Subs, NEW t \in Topics, NEW i \in TopicDatas, SubscribeRegister(s, t, i)
      PROVE  Goal
  BY <1>5, StartFields, Zenon
<1>6. ASSUME NEW s \in Subs, SubscribeAppend(s) PROVE Goal
  BY <1>6, AppendFields, Zenon
<1>7. ASSUME NEW m \in Msgs, PublishSend(m) PROVE Goal
  BY <1>7, SendFields, Zenon
<1>8. ASSUME NEW i \in TopicDatas, \/ ProcTake(i) \/ ProcDispatch(i) \/ ProcDrain(i)
                                   \/ ProcStop(i) \/ ProcExit(i) \/ Compact(i)
      PROVE  Goal
  BY <1>8, ProcFields, Zenon
<1> HIDE DEF Goal
<1>9. Goal
  BY <1>1, <1>3, <1>4, <1>5, <1>6, <1>7, <1>8, Zenon
     DEF Next, vars, Unsub, UnsubRemove, Collect, WsChange, PublishRead, PublishCheck, TaskStart,
         TaskReturn, CloseDone, ClosePool
<1>10. QED BY <1>9 DEF Goal

\* No step takes a subscriber back from its stage, or to another dataTopic.
LEMMA StaysSubscribed ==
    ASSUME TypeInv, [Next]_vars, NEW s \in Subs, sub[s].stage = "subscribed"
    PROVE  /\ sub'[s].stage = "subscribed" /\ sub'[s].data = sub[s].data
           /\ sub'[s].alive \/ ~sub[s].alive \/ Collect(s)
<1>1. sub[s] \in Subscriber
  BY DEF TypeInv, TypeOK
<1>2. CASE UNCHANGED sub
  BY <1>2
<1>3. ASSUME NEW q \in Subs, NEW t \in Topics, NEW i \in TopicDatas, SubscribeRegister(q, t, i)
      PROVE  sub'[s] = sub[s]
  <2>1. q # s
    BY <1>3 DEF SubscribeRegister
  <2>2. QED BY <1>3, <2>1, NewFields, Zenon
<1>4. ASSUME NEW q \in Subs, SubscribeAppend(q) PROVE sub'[s] = sub[s]
  <2>1. q # s
    BY <1>4 DEF SubscribeAppend
  <2>2. QED BY <1>4, <2>1, SubEffect, Zenon DEF SubMoves
<1>5. ASSUME NEW q \in Subs, Unsub(q) \/ Collect(q), q # s PROVE sub'[s] = sub[s]
  BY <1>5, SubEffect, Zenon DEF SubMoves
<1>6. ASSUME Unsub(s)
      PROVE  /\ sub'[s].stage = "subscribed" /\ sub'[s].data = sub[s].data
             /\ sub'[s].alive = sub[s].alive
  <2>1. sub'[s] = [sub[s] EXCEPT !.active = FALSE]
    BY <1>6, SubEffect, Zenon DEF SubMoves
  <2>2. QED BY <1>1, <2>1 DEF Subscriber
<1>7. ASSUME Collect(s) PROVE sub'[s].stage = "subscribed" /\ sub'[s].data = sub[s].data
  <2>1. sub'[s] = [sub[s] EXCEPT !.alive = FALSE]
    BY <1>7, SubEffect, Zenon DEF SubMoves
  <2>2. QED BY <1>1, <2>1 DEF Subscriber
<1>8. \/ UNCHANGED sub
      \/ \E q \in Subs, t \in Topics, i \in TopicDatas : SubscribeRegister(q, t, i)
      \/ \E q \in Subs : SubscribeAppend(q) \/ Unsub(q) \/ Collect(q)
  BY Zenon
     DEF Next, vars, UnsubRemove, UnsubCheck, UnsubscribeTopic, WsChange, PublishRead,
         PublishCheck, PublishSend, ProcTake, ProcDispatch, ProcStop, ProcDrain, ProcExit,
         Compact, TaskStart, TaskReturn, CloseDone, ClosePool
<1>9. QED BY <1>2, <1>3, <1>4, <1>5, <1>6, <1>7, <1>8, Zenon

LEMMA NextMembersOwn == TypeInv /\ MembersOwn /\ [Next]_vars => MembersOwn'
<1> SUFFICES ASSUME TypeInv, MembersOwn, [Next]_vars,
                    NEW i \in TopicDatas, NEW s \in Slices(i)'
             PROVE  sub'[s].stage = "subscribed" /\ sub'[s].data = i
  BY Zenon DEF MembersOwn, Slices
<1>1. s \in Subs
  <2>1. data' \in [TopicDatas -> DataTopic]
    BY DataStep, Zenon DEF DataTypeOK
  <2>2. QED BY <2>1 DEF Slices, DataTopic
<1>2. CASE s \in Slices(i)
  BY <1>1, <1>2, StaysSubscribed, Zenon DEF MembersOwn, Slices
<1>3. ASSUME NEW q \in Subs, SubscribeAppend(q), s \notin Slices(i)
      PROVE  sub'[s].stage = "subscribed" /\ sub'[s].data = i
  <2>1. s = q /\ i = sub[q].data
    BY <1>1, <1>3, AppendFields, Zenon
  <2>2. sub'[q] = [sub[q] EXCEPT !.stage = "subscribed"]
    BY <1>3, SubEffect, Zenon DEF SubMoves
  <2>3. sub[q] \in Subscriber
    BY DEF TypeInv, TypeOK
  <2>4. QED BY <2>1, <2>2, <2>3 DEF Subscriber
<1>4. QED BY <1>2, <1>3, FieldStep DEF SlicesKept

-----------------------------------------------------------------------------
(* The tasks. *)

LEMMA AppendOccurs ==
    ASSUME NEW seq \in Seq(Msgs), NEW m \in Msgs, Distinct(seq), ~Occurs(seq, m)
    PROVE  /\ Distinct(Append(seq, m))
           /\ \A x \in Msgs : Occurs(Append(seq, m), x) <=> Occurs(seq, x) \/ x = m
<1> DEFINE new == Append(seq, m)
<1>1. /\ DOMAIN new = 1..(Len(seq) + 1) /\ DOMAIN seq = 1..Len(seq)
      /\ \A k \in 1..Len(seq) : new[k] = seq[k]
      /\ new[Len(seq) + 1] = m
      /\ Len(seq) \in Nat
  OBVIOUS
<1>2. \A k \in DOMAIN new : k \in DOMAIN seq \/ k = Len(seq) + 1
  BY <1>1
<1>3. DOMAIN seq \subseteq DOMAIN new /\ Len(seq) + 1 \in DOMAIN new
  BY <1>1
<1> HIDE DEF new
<1>4. Distinct(new)
  BY <1>1, <1>2, Zenon DEF Distinct, Occurs
<1>5. \A x \in Msgs : Occurs(new, x) <=> Occurs(seq, x) \/ x = m
  BY <1>1, <1>2, <1>3, Zenon DEF Occurs
<1>6. QED BY <1>4, <1>5 DEF new

LEMMA TailOccurs ==
    ASSUME NEW seq \in Seq(Msgs), seq # <<>>, Distinct(seq)
    PROVE  /\ Distinct(Tail(seq))
           /\ Occurs(seq, Head(seq)) /\ ~Occurs(Tail(seq), Head(seq))
           /\ \A x \in Msgs : Occurs(Tail(seq), x) => Occurs(seq, x)
<1> DEFINE new == Tail(seq)
<1>1. /\ DOMAIN new = 1..(Len(seq) - 1) /\ DOMAIN seq = 1..Len(seq)
      /\ \A k \in DOMAIN new : new[k] = seq[k + 1] /\ k + 1 \in DOMAIN seq
      /\ Head(seq) = seq[1] /\ 1 \in DOMAIN seq
  OBVIOUS
<1>2. \A k, l \in DOMAIN new : k + 1 # 1 /\ (k + 1 = l + 1 => k = l)
  BY <1>1
<1> HIDE DEF new
<1>3. Distinct(new)
  BY <1>1, <1>2, Zenon DEF Distinct
<1>4. Occurs(seq, Head(seq))
  BY <1>1, Zenon DEF Occurs
<1>5. ~Occurs(new, Head(seq))
  BY <1>1, <1>2, Zenon DEF Distinct, Occurs
<1>6. \A x \in Msgs : Occurs(new, x) => Occurs(seq, x)
  BY <1>1, Zenon DEF Occurs
<1>7. QED BY <1>3, <1>4, <1>5, <1>6 DEF new

\* A batch without repetitions holds a message once or not at all.
LEMMA OccurrencesOnce ==
    ASSUME NEW batch \in Seq(Msgs), Distinct(batch), NEW m
    PROVE  Occurrences(batch, m) = IF Occurs(batch, m) THEN 1 ELSE 0
<1>1. CASE Occurs(batch, m)
  <2>1. PICK k \in DOMAIN batch : batch[k] = m
    BY <1>1 DEF Occurs
  <2>2. {l \in DOMAIN batch : batch[l] = m} = {k}
    BY <2>1, Zenon DEF Distinct
  <2>3. QED BY <1>1, <2>2, FS_Singleton DEF Occurrences
<1>2. CASE ~Occurs(batch, m)
  <2>1. {l \in DOMAIN batch : batch[l] = m} = {}
    BY <1>2 DEF Occurs
  <2>2. QED BY <1>2, <2>1, FS_EmptySet DEF Occurrences
<1>3. QED BY <1>1, <1>2

\* Submit queues a task for a live member and a message of the batch.
Queues(c, n) == n.running = c.running /\ n.ran = c.ran /\ n.queued = c.queued + 1
LEMMA SubmitFields ==
    ASSUME TypeInv, NEW slice, NEW batch \in Seq(Msgs), Distinct(batch), Submit(slice, batch),
           NEW s \in Subs, NEW m \in Msgs
    PROVE  \/ task'[<<s, m>>] = task[<<s, m>>]
           \/ /\ s \in Live(slice) /\ Occurs(batch, m)
              /\ Queues(task[<<s, m>>], task'[<<s, m>>])
<1> DEFINE c == task[<<s, m>>]
           n == Occurrences(batch, m)
<1>1. <<s, m>> \in Deliveries /\ c \in TaskCounts
  BY DEF TypeInv, TypeOK, Deliveries
<1>2. task'[<<s, m>>] = IF s \in Live(slice) /\ bus # "closed"
                        THEN [c EXCEPT !.queued = @ + n] ELSE c
  BY <1>1 DEF Submit
<1>3. n = IF Occurs(batch, m) THEN 1 ELSE 0
  BY OccurrencesOnce
<1> HIDE DEF c, n
<1>4. Occurs(batch, m) => Queues(c, [c EXCEPT !.queued = @ + n])
  BY <1>1, <1>3 DEF TaskCounts, Queues
<1>5. ~Occurs(batch, m) => [c EXCEPT !.queued = @ + n] = c
  BY <1>1, <1>3 DEF TaskCounts
<1>6. QED BY <1>2, <1>4, <1>5, Zenon DEF c

\* A call that has returned is over.
LEMMA ReturnedStays ==
    ASSUME TypeInv, [Next]_vars, NEW m \in Msgs, pub[m].stage = "returned"
    PROVE  pub'[m] = pub[m]
<1>1. ASSUME NEW q \in Msgs, NEW t \in Topics, PublishRead(q, t) PROVE pub'[m] = pub[m]
  <2>1. q # m
    BY <1>1 DEF PublishRead
  <2>2. QED BY <1>1, <2>1, NewFields, Zenon
<1>2. ASSUME NEW q \in Msgs, PublishCheck(q) \/ PublishSend(q) PROVE pub'[m] = pub[m]
  <2>1. q # m
    BY <1>2 DEF PublishCheck, PublishSend
  <2>2. QED BY <1>2, <2>1, PubEffect, Zenon DEF PubMoves
<1>3. QED
  BY <1>1, <1>2, Zenon
     DEF Next, vars, SubscribeRegister, SubscribeAppend, Unsub, UnsubRemove, UnsubCheck,
         Collect, UnsubscribeTopic, WsChange, ProcTake, ProcDispatch, ProcStop, ProcDrain,
         ProcExit, Compact, TaskStart, TaskReturn, CloseDone, ClosePool

\* A task that a step leaves alone stays as it should be: its message and its
\* subscriber do not change, and it keeps the subscriber from being collected.
LEMMA HandedKept ==
    ASSUME TypeInv, HandedOnce, [Next]_vars, NEW s \in Subs, NEW m \in Msgs,
           task'[<<s, m>>] = task[<<s, m>>]
    PROVE  Handed(s, m)'
<1> DEFINE c == task[<<s, m>>]
<1>1. Handed(s, m) /\ c \in TaskCounts
  BY DEF HandedOnce, TypeInv, TypeOK, Deliveries
<1>2. CASE Untouched(c)
  <2>1. ~(c.queued > 0)
    BY <1>2 DEF Untouched
  <2>2. QED BY <1>2, <2>1, Zenon DEF Handed
<1>3. CASE ~Untouched(c)
  <2>1. /\ c.queued + c.running + c.ran <= 1
        /\ pub[m].stage = "returned" /\ sub[s].stage = "subscribed"
        /\ pub[m].target = sub[s].data
        /\ c.queued > 0 => sub[s].alive
    BY <1>1, <1>3, Zenon DEF Handed
  <2>2. pub'[m] = pub[m]
    BY <2>1, ReturnedStays
  <2>3. sub'[s].stage = "subscribed" /\ sub'[s].data = sub[s].data
    BY <2>1, StaysSubscribed, Zenon
  <2>4. c.queued > 0 => sub'[s].alive
    <3>1. Collect(s) => c.queued = 0
      BY Zenon DEF Collect
    <3>2. c.queued > 0 => ~Collect(s)
      BY <3>1
    <3>3. QED BY <2>1, <3>2, StaysSubscribed, Zenon
  <2>5. QED BY <2>1, <2>2, <2>3, <2>4, Zenon DEF Handed
<1>4. QED BY <1>2, <1>3

\* Handing out messages that wait at a dataTopic to members of its slices.
LEMMA HandOut ==
    ASSUME TypeInv, PromiseInv, [Next]_vars, UNCHANGED <<sub, pub>>,
           NEW i \in TopicDatas, NEW slice \in SUBSET Slices(i), NEW batch \in Seq(Msgs),
           Distinct(batch), Submit(slice, batch), \A m \in Msgs : Occurs(batch, m) => Waits(i, m),
           \A j \in TopicDatas : Distinct(data'[j].eventCh) /\ Distinct(data'[j].events),
           \A j \in TopicDatas, m \in Msgs :
              /\ Waits(j, m)' => Waits(j, m) /\ ~(j = i /\ Occurs(batch, m))
              /\ ~(Occurs(data'[j].eventCh, m) /\ Occurs(data'[j].events, m))
    PROVE  WaitsOnce' /\ HandedOnce'
<1>1. ASSUME NEW j \in TopicDatas, NEW m \in Msgs, Waits(j, m)' PROVE WaitsAt(j, m)'
  <2>1. WaitsAt(j, m) /\ ~(j = i /\ Occurs(batch, m))
    BY <1>1, Zenon DEF PromiseInv, WaitsOnce
  <2>2. ~Occurs(batch, m)
    <3>1. Occurs(batch, m) => pub[m].target = i
      BY Zenon DEF PromiseInv, WaitsOnce, WaitsAt
    <3>2. QED BY <2>1, <3>1, Zenon DEF WaitsAt
  <2>3. \A s \in Subs : task'[<<s, m>>] = task[<<s, m>>]
    BY <2>2, SubmitFields, Zenon
  <2>4. QED BY <2>1, <2>3, Zenon DEF WaitsAt
<1>2. ASSUME NEW s \in Subs, NEW m \in Msgs PROVE Handed(s, m)'
  <2>1. CASE task'[<<s, m>>] = task[<<s, m>>]
    BY <2>1, HandedKept, Zenon DEF PromiseInv
  <2>2. CASE /\ s \in Live(slice) /\ Occurs(batch, m)
             /\ Queues(task[<<s, m>>], task'[<<s, m>>])
    <3>1. WaitsAt(i, m)
      BY <2>2, Zenon DEF PromiseInv, WaitsOnce
    <3>2. sub[s].stage = "subscribed" /\ sub[s].data = i /\ sub[s].alive
      BY <2>2 DEF PromiseInv, MembersOwn, Slices, Live
    <3>3. Untouched(task[<<s, m>>]) /\ pub[m].stage = "returned" /\ pub[m].target = i
      BY <3>1, Zenon DEF WaitsAt
    <3>4. LET c == task'[<<s, m>>] IN c.queued + c.running + c.ran <= 1
      BY <2>2, <3>3 DEF Queues, Untouched
    <3>5. QED BY <3>2, <3>3, <3>4, Zenon DEF Handed
  <2>3. QED BY <2>1, <2>2, SubmitFields, Zenon
<1>3. QED BY <1>1, <1>2, Zenon DEF WaitsOnce, HandedOnce

\* A task that starts or returns.
LEMMA TaskFields ==
    ASSUME TypeInv, NEW s \in Subs, NEW m \in Msgs, TaskStart(s, m) \/ TaskReturn(s, m)
    PROVE  /\ \A d \in Deliveries : d # <<s, m>> => task'[d] = task[d]
           /\ LET c == task[<<s, m>>]
                  n == task'[<<s, m>>]
              IN  /\ TaskStart(s, m) =>
                       /\ n.queued = c.queued - 1 /\ n.ran = c.ran /\ c.queued > 0
                       /\ n.running = IF sub[s].active THEN c.running + 1 ELSE c.running
                  /\ TaskReturn(s, m) =>
                       /\ n.queued = c.queued /\ n.running = c.running - 1
                       /\ n.ran = c.ran + 1 /\ c.running > 0
<1> DEFINE c == task[<<s, m>>]
           n == task'[<<s, m>>]
<1>1. <<s, m>> \in Deliveries /\ c \in TaskCounts /\ task \in [Deliveries -> TaskCounts]
  BY DEF TypeInv, TypeOK, Deliveries
<1>2. ASSUME NEW r, task' = [task EXCEPT ![<<s, m>>] = r]
      PROVE  n = r /\ \A d \in Deliveries : d # <<s, m>> => task'[d] = task[d]
  BY <1>1, <1>2
<1>3. ASSUME TaskStart(s, m)
      PROVE  /\ \A d \in Deliveries : d # <<s, m>> => task'[d] = task[d]
             /\ n.queued = c.queued - 1 /\ n.ran = c.ran /\ c.queued > 0
             /\ n.running = IF sub[s].active THEN c.running + 1 ELSE c.running
  <2> DEFINE q == c.queued - 1
             r == IF sub[s].active THEN c.running + 1 ELSE c.running
             d == [c EXCEPT !.queued = q, !.running = r]
  <2>1. task' = [task EXCEPT ![<<s, m>>] = d] /\ c.queued > 0
    BY <1>3, Zenon DEF TaskStart
  <2>2. n = d /\ \A e \in Deliveries : e # <<s, m>> => task'[e] = task[e]
    BY <1>2, <2>1, Zenon
  <2> HIDE DEF q, r
  <2>3. d.queued = q /\ d.running = r /\ d.ran = c.ran
    BY <1>1 DEF TaskCounts
  <2> HIDE DEF d
  <2>4. n.queued = q /\ n.running = r /\ n.ran = c.ran
    BY <2>2, <2>3, Zenon
  <2>5. QED BY <2>1, <2>2, <2>4, Zenon DEF q, r
<1>4. ASSUME TaskReturn(s, m)
      PROVE  /\ \A d \in Deliveries : d # <<s, m>> => task'[d] = task[d]
             /\ n.queued = c.queued /\ n.running = c.running - 1
             /\ n.ran = c.ran + 1 /\ c.running > 0
  <2> DEFINE q == c.running - 1
             r == c.ran + 1
             d == [c EXCEPT !.running = q, !.ran = r]
  <2>1. task' = [task EXCEPT ![<<s, m>>] = d] /\ c.running > 0
    BY <1>4, Zenon DEF TaskReturn
  <2>2. n = d /\ \A e \in Deliveries : e # <<s, m>> => task'[e] = task[e]
    BY <1>2, <2>1, Zenon
  <2> HIDE DEF q, r
  <2>3. d.queued = c.queued /\ d.running = q /\ d.ran = r
    BY <1>1 DEF TaskCounts
  <2> HIDE DEF d
  <2>4. n.queued = c.queued /\ n.running = q /\ n.ran = r
    BY <2>2, <2>3, Zenon
  <2>5. QED BY <2>1, <2>2, <2>4, Zenon DEF q, r
<1>5. QED
  <2>1. \A d \in Deliveries : d # <<s, m>> => task'[d] = task[d]
    BY <1>3, <1>4
  <2>2. QED BY <1>3, <1>4, <2>1, Zenon

LEMMA TaskStep ==
    ASSUME TypeInv, PromiseInv, [Next]_vars, NEW s \in Subs, NEW m \in Msgs,
           TaskStart(s, m) \/ TaskReturn(s, m)
    PROVE  WaitsOnce' /\ HandedOnce'
<1> DEFINE c == task[<<s, m>>]
           n == task'[<<s, m>>]
<1>1. c.queued \in Nat /\ c.running \in Nat /\ c.ran \in Nat
  BY DEF TypeInv, TypeOK, Deliveries, TaskCounts
<1>2. UNCHANGED <<data, pub, sub>>
  BY DEF TaskStart, TaskReturn
<1>3. /\ ~Untouched(c)
      /\ n.queued <= c.queued /\ n.queued + n.running + n.ran <= c.queued + c.running + c.ran
  <2> HIDE DEF c, n
  <2>1. TaskStart(s, m) => /\ n.queued = c.queued - 1 /\ n.ran = c.ran /\ c.queued > 0
                           /\ n.running = IF sub[s].active THEN c.running + 1 ELSE c.running
    BY TaskFields DEF c, n
  <2>2. TaskReturn(s, m) => /\ n.queued = c.queued /\ n.running = c.running - 1
                            /\ n.ran = c.ran + 1 /\ c.running > 0
    BY TaskFields DEF c, n
  <2>3. QED BY <1>1, <2>1, <2>2 DEF Untouched
<1>4. ASSUME NEW j \in TopicDatas, NEW x \in Msgs, Waits(j, x)' PROVE WaitsAt(j, x)'
  <2>1. WaitsAt(j, x)
    BY <1>2, <1>4, Zenon DEF PromiseInv, WaitsOnce, Waits
  <2>2. x # m
    BY <1>3, <2>1, Zenon DEF WaitsAt
  <2>3. \A q \in Subs : task'[<<q, x>>] = task[<<q, x>>]
    <3>1. ASSUME NEW q \in Subs PROVE <<q, x>> \in Deliveries /\ <<q, x>> # <<s, m>>
      BY <2>2 DEF Deliveries
    <3>2. QED BY <3>1, TaskFields, Zenon
  <2>4. QED BY <1>2, <2>1, <2>3, Zenon DEF WaitsAt
<1>5. ASSUME NEW q \in Subs, NEW x \in Msgs PROVE Handed(q, x)'
  <2>1. CASE <<q, x>> = <<s, m>>
    <3>1. Handed(s, m)
      BY Zenon DEF PromiseInv, HandedOnce
    <3>2. /\ pub[m].stage = "returned" /\ sub[s].stage = "subscribed"
          /\ pub[m].target = sub[s].data /\ c.queued + c.running + c.ran <= 1
      BY <1>3, <3>1, Zenon DEF Handed
    <3>3. c.queued > 0 => sub[s].alive
      BY <3>1, Zenon DEF Handed
    <3>4. n.queued \in Nat /\ n.running \in Nat /\ n.ran \in Nat
      <4>1. task' \in [Deliveries -> TaskCounts]
        BY RestStep, Zenon DEF RestTypeOK
      <4>2. QED BY <4>1 DEF Deliveries, TaskCounts
    <3>5. n.queued + n.running + n.ran <= 1 /\ (n.queued > 0 => c.queued > 0)
      <4> HIDE DEF c, n
      <4>1. QED BY <1>1, <1>3, <3>2, <3>4
    <3>6. q = s /\ x = m
      BY <2>1
    <3>7. QED BY <1>2, <3>2, <3>3, <3>5, <3>6, Zenon DEF Handed
  <2>2. CASE <<q, x>> # <<s, m>>
    <3>1. <<q, x>> \in Deliveries
      BY DEF Deliveries
    <3>2. QED BY <2>2, <3>1, TaskFields, HandedKept, Zenon DEF PromiseInv
  <2>3. QED BY <2>1, <2>2
<1>6. QED BY <1>2, <1>4, <1>5, Zenon DEF WaitsOnce, HandedOnce, PromiseInv

\* A message that is sent was nowhere before.
LEMMA SendStep ==
    ASSUME TypeInv, PromiseInv, [Next]_vars, NEW m \in Msgs, PublishSend(m)
    PROVE  WaitsOnce' /\ HandedOnce'
<1> DEFINE i == pub[m].target
           c == data[i].eventCh
<1>1. /\ i \in TopicDatas /\ QueuesAre(i, TrySend(c, m), data[i].events)
      /\ pub[m].stage = "checked" /\ PubMoves(m, [pub[m] EXCEPT !.stage = "returned"])
      /\ UNCHANGED <<task, sub>>
  BY SendFields, PubEffect, Zenon DEF PublishSend
<1>2. pub'[m].stage = "returned" /\ pub'[m].target = i
  BY <1>1 DEF TypeInv, TypeOK, PublishCall, PubMoves
<1>3. \A j \in TopicDatas : ~Waits(j, m)
  <2>1. pub[m].stage # "returned"
    BY <1>1
  <2>2. QED BY <2>1, Zenon DEF PromiseInv, WaitsOnce, WaitsAt
<1>4. \A s \in Subs : Untouched(task[<<s, m>>])
  <2>1. pub[m].stage # "returned"
    BY <1>1
  <2>2. QED BY <2>1, Zenon DEF PromiseInv, HandedOnce, Handed
<1>5. c \in Seq(Msgs)
  BY <1>1 DEF TypeInv, TypeOK, DataTopic
<1>6. /\ Distinct(TrySend(c, m))
      /\ \A x \in Msgs : Occurs(TrySend(c, m), x) => Occurs(c, x) \/ x = m
  <2>1. Distinct(c) /\ ~Occurs(c, m)
    BY <1>1, <1>3, Zenon DEF PromiseInv, WaitsOnce, Waits
  <2> HIDE DEF c
  <2>2. QED BY <1>5, <2>1, AppendOccurs, Zenon DEF TrySend
<1> HIDE DEF i, c
<1>7. \A j \in TopicDatas : Distinct(data'[j].eventCh) /\ Distinct(data'[j].events)
  BY <1>1, <1>6, Zenon DEF QueuesAre, PromiseInv, WaitsOnce
<1>8. ASSUME NEW j \in TopicDatas, NEW x \in Msgs
      PROVE  /\ Occurs(data'[j].events, x) => Occurs(data[j].events, x)
             /\ Occurs(data'[j].eventCh, x) => Occurs(data[j].eventCh, x) \/ (j = i /\ x = m)
  BY <1>1, <1>6, Zenon DEF QueuesAre, c
<1>9. ASSUME NEW j \in TopicDatas, NEW x \in Msgs, Waits(j, x)' PROVE WaitsAt(j, x)'
  <2>1. CASE x = m
    <3>1. j = i /\ ~Occurs(data'[j].events, x)
      BY <1>3, <1>8, <1>9, <2>1, Zenon DEF Waits
    <3>2. QED BY <1>1, <1>2, <1>4, <2>1, <3>1, Zenon DEF WaitsAt
  <2>2. CASE x # m
    <3>1. WaitsAt(j, x)
      BY <1>8, <1>9, <2>2, Zenon DEF Waits, PromiseInv, WaitsOnce
    <3>2. pub'[x] = pub[x]
      BY <1>1, <2>2, Zenon DEF PubMoves
    <3>3. QED BY <1>1, <1>8, <2>2, <3>1, <3>2, Zenon DEF WaitsAt
  <2>3. QED BY <2>1, <2>2
<1>10. HandedOnce'
  BY <1>1, HandedKept, Zenon DEF HandedOnce, PromiseInv
<1>11. QED BY <1>7, <1>9, <1>10, Zenon DEF WaitsOnce

\* The goroutine takes, dispatches or drains.
LEMMA ProcStep ==
    ASSUME TypeInv, PromiseInv, [Next]_vars, NEW i \in TopicDatas,
           ProcTake(i) \/ ProcDispatch(i) \/ ProcDrain(i)
    PROVE  WaitsOnce' /\ HandedOnce'
<1> DEFINE c == data[i].eventCh
           e == data[i].events
<1>1. c \in Seq(Msgs) /\ e \in Seq(Msgs)
  BY DEF TypeInv, TypeOK, DataTopic
<1>2. /\ Distinct(c) /\ Distinct(e)
      /\ \A m \in Msgs : Occurs(c, m) \/ Occurs(e, m) => WaitsAt(i, m)
  BY Zenon DEF PromiseInv, WaitsOnce, Waits
<1>3. \A m \in Msgs : ~(Occurs(c, m) /\ Occurs(e, m))
  BY <1>2, Zenon DEF WaitsAt
<1>4. UNCHANGED <<sub, pub>>
  BY DEF ProcTake, ProcDispatch, ProcDrain
<1>5. data[i].subscribers \subseteq Slices(i) /\ data[i].last \subseteq Slices(i)
  BY Zenon DEF Slices
<1>6. CASE ProcTake(i)
  <2> DEFINE m == Head(c)
  <2>1. /\ c # <<>> /\ UNCHANGED task /\ QueuesAre(i, Tail(c), Append(e, m))
    BY <1>6, ProcFields, Zenon DEF ProcTake
  <2>2. m \in Msgs
    BY <1>1, <2>1
  <2> HIDE DEF c, e, m
  <2>3. /\ Distinct(Tail(c)) /\ Occurs(c, m) /\ ~Occurs(Tail(c), m)
        /\ \A x \in Msgs : Occurs(Tail(c), x) => Occurs(c, x)
    BY <1>1, <1>2, <2>1, TailOccurs, Zenon DEF m
  <2>4. /\ Distinct(Append(e, m))
        /\ \A x \in Msgs : Occurs(Append(e, m), x) <=> Occurs(e, x) \/ x = m
    BY <1>1, <1>2, <1>3, <2>2, <2>3, AppendOccurs, Zenon
  <2>5. ASSUME NEW j \in TopicDatas, NEW x \in Msgs, Waits(j, x)' PROVE WaitsAt(j, x)'
    <3>1. CASE j = i
      <4>1. data'[j].eventCh = Tail(c) /\ data'[j].events = Append(e, m)
        BY <2>1, <3>1, Zenon DEF QueuesAre
      <4>2. WaitsAt(j, x)
        BY <1>2, <2>3, <2>4, <2>5, <3>1, <4>1, Zenon DEF Waits
      <4>3. ~(Occurs(data'[j].eventCh, x) /\ Occurs(data'[j].events, x))
        BY <1>3, <2>3, <2>4, <4>1, Zenon
      <4>4. QED BY <1>4, <2>1, <4>2, <4>3, Zenon DEF WaitsAt
    <3>2. CASE j # i
      BY <1>4, <2>1, <2>5, <3>2, Zenon DEF QueuesAre, Waits, WaitsAt, PromiseInv, WaitsOnce
    <3>3. QED BY <3>1, <3>2
  <2>6. \A j \in TopicDatas : Distinct(data'[j].eventCh) /\ Distinct(data'[j].events)
    BY <2>1, <2>3, <2>4, Zenon DEF QueuesAre, PromiseInv, WaitsOnce
  <2>7. HandedOnce'
    BY <2>1, HandedKept, Zenon DEF HandedOnce, PromiseInv
  <2>8. QED BY <2>5, <2>6, <2>7, Zenon DEF WaitsOnce
<1>7. CASE ProcDispatch(i)
  <2>1. QueuesAre(i, c, <<>>) /\ Submit(data[i].subscribers, e)
    BY <1>7, ProcFields, Zenon DEF ProcDispatch
  <2>2. Distinct(<<>>) /\ \A x \in Msgs : ~Occurs(<<>>, x)
    BY DEF Distinct, Occurs
  <2>3. \A j \in TopicDatas : Distinct(data'[j].eventCh) /\ Distinct(data'[j].events)
    BY <1>2, <2>1, <2>2, Zenon DEF QueuesAre, PromiseInv, WaitsOnce
  <2>4. \A j \in TopicDatas, m \in Msgs :
           /\ Waits(j, m)' => Waits(j, m) /\ ~(j = i /\ Occurs(e, m))
           /\ ~(Occurs(data'[j].eventCh, m) /\ Occurs(data'[j].events, m))
    <3>1. ASSUME NEW m \in Msgs
          PROVE  /\ Waits(i, m)' => Waits(i, m) /\ ~Occurs(e, m)
                 /\ ~(Occurs(data'[i].eventCh, m) /\ Occurs(data'[i].events, m))
      <4>1. data'[i].eventCh = c /\ data'[i].events = <<>>
        BY <2>1, Zenon DEF QueuesAre
      <4>2. QED BY <1>3, <2>2, <4>1, Zenon DEF Waits
    <3>2. ASSUME NEW j \in TopicDatas, NEW m \in Msgs, j # i
          PROVE  /\ Waits(j, m)' => Waits(j, m)
                 /\ ~(Occurs(data'[j].eventCh, m) /\ Occurs(data'[j].events, m))
      BY <2>1, <3>2, Zenon DEF QueuesAre, Waits, WaitsAt, PromiseInv, WaitsOnce
    <3>3. QED BY <3>1, <3>2, Zenon
  <2>5. \A m \in Msgs : Occurs(e, m) => Waits(i, m)
    BY Zenon DEF Waits
  <2>6. QED BY <1>1, <1>2, <1>4, <1>5, <2>1, <2>3, <2>4, <2>5, HandOut, Zenon
<1>8. CASE ProcDrain(i)
  <2> DEFINE m == Head(c)
  <2>1. c # <<>> /\ QueuesAre(i, Tail(c), e) /\ Submit(data[i].last, <<m>>)
    BY <1>8, ProcFields, Zenon DEF ProcDrain
  <2>2. m \in Msgs
    BY <1>1, <2>1
  <2>3. /\ Distinct(Tail(c)) /\ Occurs(c, m) /\ ~Occurs(Tail(c), m)
        /\ \A x \in Msgs : Occurs(Tail(c), x) => Occurs(c, x)
    BY <1>1, <1>2, <2>1, TailOccurs, Zenon
  <2>4. /\ <<m>> \in Seq(Msgs) /\ Distinct(<<m>>)
        /\ \A x \in Msgs : Occurs(<<m>>, x) => x = m
    <3> HIDE DEF m
    <3>1. QED BY <2>2 DEF Distinct, Occurs
  <2>5. \A j \in TopicDatas : Distinct(data'[j].eventCh) /\ Distinct(data'[j].events)
    BY <1>2, <2>1, <2>3, Zenon DEF QueuesAre, PromiseInv, WaitsOnce
  <2>6. \A j \in TopicDatas, x \in Msgs :
           /\ Waits(j, x)' => Waits(j, x) /\ ~(j = i /\ Occurs(<<m>>, x))
           /\ ~(Occurs(data'[j].eventCh, x) /\ Occurs(data'[j].events, x))
    <3>1. ASSUME NEW x \in Msgs
          PROVE  /\ Waits(i, x)' => Waits(i, x) /\ ~Occurs(<<m>>, x)
                 /\ ~(Occurs(data'[i].eventCh, x) /\ Occurs(data'[i].events, x))
      <4>1. data'[i].eventCh = Tail(c) /\ data'[i].events = e
        BY <2>1, Zenon DEF QueuesAre
      <4>2. QED BY <1>3, <2>3, <2>4, <4>1, Zenon DEF Waits
    <3>2. ASSUME NEW j \in TopicDatas, NEW x \in Msgs, j # i
          PROVE  /\ Waits(j, x)' => Waits(j, x)
                 /\ ~(Occurs(data'[j].eventCh, x) /\ Occurs(data'[j].events, x))
      BY <2>1, <3>2, Zenon DEF QueuesAre, Waits, WaitsAt, PromiseInv, WaitsOnce
    <3>3. QED BY <3>1, <3>2, Zenon
  <2>7. \A x \in Msgs : Occurs(<<m>>, x) => Waits(i, x)
    BY <2>3, <2>4, Zenon DEF Waits
  <2>8. QED BY <1>4, <1>5, <2>1, <2>4, <2>5, <2>6, <2>7, HandOut, Zenon
<1>9. QED BY <1>6, <1>7, <1>8

LEMMA NextPlaces == TypeInv /\ PromiseInv /\ [Next]_vars => WaitsOnce' /\ HandedOnce'
<1> SUFFICES ASSUME TypeInv, PromiseInv, [Next]_vars PROVE WaitsOnce' /\ HandedOnce'
  OBVIOUS
<1>1. ASSUME QueuesKept, UNCHANGED task PROVE WaitsOnce' /\ HandedOnce'
  <2>1. ASSUME NEW j \in TopicDatas, NEW m \in Msgs, Waits(j, m)' PROVE WaitsAt(j, m)'
    <3>1. WaitsAt(j, m)
      BY <1>1, <2>1, Zenon DEF QueuesKept, Waits, PromiseInv, WaitsOnce
    <3>2. pub'[m] = pub[m]
      BY <3>1, ReturnedStays, Zenon DEF WaitsAt
    <3>3. QED BY <1>1, <3>1, <3>2, Zenon DEF QueuesKept, WaitsAt
  <2>2. \A j \in TopicDatas : Distinct(data'[j].eventCh) /\ Distinct(data'[j].events)
    BY <1>1, Zenon DEF QueuesKept, PromiseInv, WaitsOnce
  <2>3. HandedOnce'
    BY <1>1, HandedKept, Zenon DEF HandedOnce, PromiseInv
  <2>4. QED BY <2>1, <2>2, <2>3, Zenon DEF WaitsOnce
<1>2. \/ UNCHANGED task
      \/ \E s \in Subs, m \in Msgs : TaskStart(s, m) \/ TaskReturn(s, m)
      \/ \E i \in TopicDatas : ProcDispatch(i) \/ ProcDrain(i)
  BY Zenon
     DEF Next, vars, SubscribeRegister, SubscribeAppend, Unsub, UnsubRemove, UnsubCheck,
         Collect, UnsubscribeTopic, WsChange, PublishRead, PublishCheck, PublishSend, ProcTake,
         ProcStop, ProcExit, Compact, CloseDone, ClosePool
<1>3. QED BY <1>1, <1>2, FieldStep, TaskStep, SendStep, ProcStep, Zenon

LEMMA InitPromiseInv == Init => PromiseInv
<1> SUFFICES ASSUME Init PROVE PromiseInv
  OBVIOUS
<1>1. \A s \in Subs : sub[s].stage = "new" /\ sub[s].topic = None /\ sub[s].data = None
  BY DEF Init
<1>2. \A m \in Msgs : pub[m].stage = "new" /\ pub[m].topic = None /\ pub[m].target = None
  BY DEF Init
<1>3. \A i \in TopicDatas : /\ data[i].subscribers = {} /\ data[i].last = {}
                            /\ data[i].eventCh = <<>> /\ data[i].events = <<>>
  BY DEF Init
<1>4. \A s \in Subs, m \in Msgs : /\ Untouched(task[<<s, m>>])
                                  /\ ~(task[<<s, m>>].queued > 0)
  BY DEF Init, Deliveries, Untouched
<1>5. \A t \in Topics : topics[t] = None
  BY DEF Init
<1>6. \A i \in TopicDatas, t \in Topics \cup {None} : ~Serves(i, t)
  BY <1>1, <1>2, <1>5, TopicBusAssumption DEF Serves
<1>7. \A m \in Msgs : ~Occurs(<<>>, m)
  BY DEF Occurs
<1>8. Distinct(<<>>)
  BY DEF Distinct
<1>9. WaitsOnce
  BY <1>3, <1>7, <1>8, Zenon DEF WaitsOnce, Waits
<1>10. HandedOnce
  BY <1>4, Zenon DEF HandedOnce, Handed
<1>11. Fresh /\ ServesOne /\ MembersOwn
  BY <1>1, <1>2, <1>3, <1>6 DEF Fresh, ServesOne, MembersOwn
<1>12. QED BY <1>9, <1>10, <1>11 DEF PromiseInv

LEMMA NextPromiseInv == TypeInv /\ PromiseInv /\ [Next]_vars => PromiseInv'
BY NextFresh, NextServesOne, NextMembersOwn, NextPlaces, Zenon DEF PromiseInv

LEMMA AlwaysPromiseInv == Spec => []PromiseInv
BY InitPromiseInv, NextPromiseInv, AlwaysTypeInv, PTL DEF Spec

-----------------------------------------------------------------------------
(* The steps of PubSub. *)

\* A function that differs from another at one place.
LEMMA AtOnePlace ==
    ASSUME NEW S, NEW f, NEW g, NEW a \in S, NEW v, f = [x \in S |-> f[x]], g = [x \in S |-> g[x]],
           \A x \in S : g[x] = IF x = a THEN v ELSE f[x]
    PROVE  g = [f EXCEPT ![a] = v]
OBVIOUS

LEMMA SameFunction ==
    ASSUME NEW S, NEW f, NEW g, f = [x \in S |-> f[x]], g = [x \in S |-> g[x]],
           \A x \in S : g[x] = f[x]
    PROVE  g = f
OBVIOUS

\* The state of PubSub, as PromiseKept maps it.
Status == [s \in Subs |-> IF sub[s].stage = "new" THEN "out"
                          ELSE IF sub[s].active /\ sub[s].alive THEN "in"
                          ELSE "left"]
TopicOf == [s \in Subs |-> sub[s].topic]
Published == [m \in Msgs |-> pub[m].topic]
Starts == [d \in Deliveries |-> task[d].running + task[d].ran]
Finishes == [d \in Deliveries |-> task[d].ran]

\* What is unchanged there.
LEMMA SubsSame == ASSUME UNCHANGED sub PROVE UNCHANGED <<Status, TopicOf>>
BY DEF Status, TopicOf
LEMMA PubsSame == ASSUME UNCHANGED pub PROVE UNCHANGED Published
BY DEF Published
LEMMA TasksSame ==
    ASSUME \A d \in Deliveries : task'[d].running = task[d].running /\ task'[d].ran = task[d].ran
    PROVE  UNCHANGED <<Starts, Finishes>>
BY DEF Starts, Finishes

\* A step of PubSub, or none.
LEMMA Mapped ==
    ASSUME \/ \E s \in Subs, t \in Topics :
                 /\ Status[s] = "out"
                 /\ Status' = [Status EXCEPT ![s] = "in"] /\ TopicOf' = [TopicOf EXCEPT ![s] = t]
                 /\ UNCHANGED <<Published, Starts, Finishes>>
           \/ \E s \in Subs :
                 /\ Status[s] = "in"
                 /\ Status' = [Status EXCEPT ![s] = "left"]
                 /\ UNCHANGED <<TopicOf, Published, Starts, Finishes>>
           \/ \E m \in Msgs, t \in Topics :
                 /\ Published[m] = None
                 /\ Published' = [Published EXCEPT ![m] = t]
                 /\ UNCHANGED <<Status, TopicOf, Starts, Finishes>>
           \/ \E s \in Subs, m \in Msgs :
                 /\ Status[s] = "in" /\ Published[m] = TopicOf[s] /\ Starts[<<s, m>>] = 0
                 /\ Starts' = [Starts EXCEPT ![<<s, m>>] = 1]
                 /\ UNCHANGED <<Status, TopicOf, Published, Finishes>>
           \/ \E s \in Subs, m \in Msgs :
                 /\ Finishes[<<s, m>>] < Starts[<<s, m>>]
                 /\ Finishes' = [Finishes EXCEPT ![<<s, m>>] = @ + 1]
                 /\ UNCHANGED <<Status, TopicOf, Published, Starts>>
           \/ UNCHANGED <<Status, TopicOf, Published, Starts, Finishes>>
    PROVE  [Promise!Next]_(Promise!vars)
BY Zenon DEF Promise!Next, Promise!vars, Promise!Join, Promise!Leave, Promise!Post, Promise!Begin,
       Promise!Finish, Status, TopicOf, Published, Starts, Finishes

LEMMA InitMapped == Init => Promise!Init
BY DEF Init, Promise!Init, Deliveries

\* What a step shows of a subscriber and a task.
Shown(r) == IF r.stage = "new" THEN "out" ELSE IF r.active /\ r.alive THEN "in" ELSE "left"

LEMMA StatusAt ==
    ASSUME NEW s \in Subs, NEW v, Shown(sub'[s]) = v, \A q \in Subs : q # s => sub'[q] = sub[q]
    PROVE  Status' = [Status EXCEPT ![s] = v]
<1>1. \A q \in Subs : Status[q] = Shown(sub[q]) /\ Status'[q] = Shown(sub'[q])
  BY DEF Status, Shown
<1>2. \A q \in Subs : Status'[q] = IF q = s THEN v ELSE Status[q]
  BY <1>1
<1>3. Status = [q \in Subs |-> Status[q]] /\ Status' = [q \in Subs |-> Status'[q]]
  BY DEF Status
<1>4. QED BY <1>2, <1>3, AtOnePlace

\* Who subscribes, joins.
LEMMA JoinMapped ==
    ASSUME TypeInv, NEW s \in Subs, NEW t \in Topics, NEW i \in TopicDatas,
           SubscribeRegister(s, t, i)
    PROVE  [Promise!Next]_(Promise!vars)
<1>1. /\ sub[s].stage = "new" /\ UNCHANGED <<pub, task>>
      /\ sub'[s].stage = "registered" /\ sub'[s].topic = t /\ sub'[s].active /\ sub'[s].alive
      /\ \A q \in Subs : q # s => sub'[q] = sub[q]
  <2>1. sub[s].stage = "new" /\ UNCHANGED <<pub, task>>
    BY DEF SubscribeRegister
  <2>2. /\ sub'[s].stage = "registered" /\ sub'[s].topic = t /\ sub'[s].active /\ sub'[s].alive
        /\ \A q \in Subs : q # s => sub'[q] = sub[q]
    BY NewFields, Zenon
  <2>3. QED BY <2>1, <2>2
<1>2. Status[s] = "out" /\ Shown(sub'[s]) = "in"
  BY <1>1 DEF Status, Shown
<1>3. Status' = [Status EXCEPT ![s] = "in"]
  BY <1>1, <1>2, StatusAt
<1>4. TopicOf' = [TopicOf EXCEPT ![s] = t]
  <2>1. \A q \in Subs : TopicOf[q] = sub[q].topic /\ TopicOf'[q] = sub'[q].topic
    BY DEF TopicOf
  <2>2. \A q \in Subs : TopicOf'[q] = IF q = s THEN t ELSE TopicOf[q]
    BY <1>1, <2>1
  <2>3. TopicOf = [q \in Subs |-> TopicOf[q]] /\ TopicOf' = [q \in Subs |-> TopicOf'[q]]
    BY DEF TopicOf
  <2>4. QED BY <2>2, <2>3, AtOnePlace
<1>5. UNCHANGED <<Published, Starts, Finishes>>
  BY <1>1, PubsSame, TasksSame
<1>6. QED BY <1>2, <1>3, <1>4, <1>5, Mapped

\* Who unsubscribes or is collected, leaves, if it has not left before.
LEMMA LeaveMapped ==
    ASSUME TypeInv, NEW s \in Subs, SubscribeAppend(s) \/ Unsub(s) \/ Collect(s)
    PROVE  [Promise!Next]_(Promise!vars)
<1>1. /\ sub[s] \in Subscriber /\ sub[s].stage # "new"
      /\ UNCHANGED <<pub, task>>
      /\ \A q \in Subs : q # s => sub'[q] = sub[q]
  <2>1. \A q \in Subs : q # s => sub'[q] = sub[q]
    BY SubEffect, Zenon DEF SubMoves
  <2>2. QED BY <2>1 DEF TypeInv, TypeOK, SubscribeAppend, Unsub, Collect
<1>2. /\ SubscribeAppend(s) => sub'[s] = [sub[s] EXCEPT !.stage = "subscribed"]
      /\ Unsub(s) => sub'[s] = [sub[s] EXCEPT !.active = FALSE]
      /\ Collect(s) => sub'[s] = [sub[s] EXCEPT !.alive = FALSE]
  BY SubEffect, Zenon DEF SubMoves
<1>3. sub'[s].topic = sub[s].topic /\ Shown(sub'[s]) \in {Shown(sub[s]), "left"}
  BY <1>1, <1>2 DEF Subscriber, Shown
<1>4. Shown(sub[s]) \in {"in", "left"} /\ Status[s] = Shown(sub[s])
  BY <1>1 DEF Shown, Status
<1>5. UNCHANGED TopicOf
  BY <1>1, <1>3 DEF TopicOf
<1>6. UNCHANGED <<Published, Starts, Finishes>>
  BY <1>1, PubsSame, TasksSame
<1>7. CASE Shown(sub'[s]) = Shown(sub[s])
  <2>1. UNCHANGED Status
    BY <1>1, <1>7, Zenon DEF Status, Shown
  <2>2. QED BY <1>5, <1>6, <2>1, Mapped
<1>8. CASE Shown(sub'[s]) = "left" /\ Shown(sub[s]) = "in"
  <2>1. Status' = [Status EXCEPT ![s] = "left"]
    BY <1>1, <1>8, StatusAt
  <2>2. QED BY <1>4, <1>5, <1>6, <1>8, <2>1, Mapped
<1>9. QED BY <1>3, <1>4, <1>7, <1>8

\* Publish posts the message when it reads the map.
LEMMA PostMapped ==
    ASSUME TypeInv, Fresh, NEW m \in Msgs, NEW t \in Topics, PublishRead(m, t)
    PROVE  [Promise!Next]_(Promise!vars)
<1>1. /\ pub[m].stage = "new" /\ UNCHANGED <<sub, task>>
      /\ pub'[m].topic = t /\ \A q \in Msgs : q # m => pub'[q] = pub[q]
  BY NewFields, Zenon DEF PublishRead
<1>2. \A q \in Msgs : Published[q] = pub[q].topic /\ Published'[q] = pub'[q].topic
  BY DEF Published
<1>3. Published[m] = None
  BY <1>1, <1>2, Zenon DEF Fresh
<1>4. \A q \in Msgs : Published'[q] = IF q = m THEN t ELSE Published[q]
  BY <1>1, <1>2
<1>5. Published = [q \in Msgs |-> Published[q]] /\ Published' = [q \in Msgs |-> Published'[q]]
  BY DEF Published
<1>6. Published' = [Published EXCEPT ![m] = t]
  BY <1>4, <1>5, AtOnePlace
<1>7. UNCHANGED <<Status, TopicOf, Starts, Finishes>>
  BY <1>1, SubsSame, TasksSame
<1>8. QED BY <1>3, <1>6, <1>7, Mapped

\* A task that finds its subscriber active begins the callback: the message
\* was published on the topic the subscriber belongs to, and is new to it.
LEMMA BeginMapped ==
    ASSUME TypeInv, PromiseInv, NEW s \in Subs, NEW m \in Msgs, TaskStart(s, m)
    PROVE  [Promise!Next]_(Promise!vars)
<1> DEFINE c == task[<<s, m>>]
           n == task'[<<s, m>>]
<1>1. /\ UNCHANGED <<sub, pub>>
      /\ n.queued = c.queued - 1 /\ n.ran = c.ran /\ c.queued > 0
      /\ n.running = IF sub[s].active THEN c.running + 1 ELSE c.running
      /\ \A d \in Deliveries : d # <<s, m>> => task'[d] = task[d]
  BY TaskFields, Zenon DEF TaskStart
<1>2. <<s, m>> \in Deliveries /\ c.queued \in Nat /\ c.running \in Nat /\ c.ran \in Nat
  BY DEF TypeInv, TypeOK, Deliveries, TaskCounts
<1>3. /\ ~Untouched(c) /\ sub[s].alive
      /\ c.queued + c.running + c.ran <= 1
      /\ sub[s].stage = "subscribed" /\ pub[m].target = sub[s].data
  <2>1. ~Untouched(c)
    BY <1>1 DEF Untouched
  <2>2. QED BY <1>1, <2>1, Zenon DEF PromiseInv, HandedOnce, Handed
<1>4. c.running = 0 /\ c.ran = 0
  BY <1>1, <1>2, <1>3
<1>5. UNCHANGED <<Status, TopicOf, Published>>
  BY <1>1, SubsSame, PubsSame
<1>6. UNCHANGED Finishes
  BY <1>1 DEF Finishes
<1>7. CASE sub[s].active
  <2>1. Status[s] = "in"
    BY <1>3, <1>7 DEF Status
  <2>2. Published[m] = TopicOf[s]
    <3>1. sub[s].data \in TopicDatas /\ sub[s].topic \in Topics
      <4>1. sub[s].stage # "new"
        BY <1>3
      <4>2. QED BY <4>1, Zenon DEF TypeInv, PointersSet
    <3>2. pub[m].topic \in Topics \cup {None}
      BY DEF TypeInv, TypeOK, PublishCall
    <3>3. Serves(sub[s].data, pub[m].topic) /\ Serves(sub[s].data, sub[s].topic)
      BY <1>3, Zenon DEF Serves
    <3>4. pub[m].topic = sub[s].topic
      BY <3>1, <3>2, <3>3, Zenon DEF PromiseInv, ServesOne
    <3>5. QED BY <3>4 DEF Published, TopicOf
  <2>3. Starts[<<s, m>>] = 0
    BY <1>2, <1>4 DEF Starts
  <2>4. Starts' = [Starts EXCEPT ![<<s, m>>] = 1]
    <3>1. n.running + n.ran = 1
      BY <1>1, <1>4, <1>7
    <3> HIDE DEF n, c
    <3>2. \A d \in Deliveries : /\ Starts[d] = task[d].running + task[d].ran
                                /\ Starts'[d] = task'[d].running + task'[d].ran
      BY DEF Starts
    <3>3. \A d \in Deliveries : Starts'[d] = IF d = <<s, m>> THEN 1 ELSE Starts[d]
      BY <1>1, <3>1, <3>2, Zenon DEF n
    <3>4. Starts = [d \in Deliveries |-> Starts[d]] /\ Starts' = [d \in Deliveries |-> Starts'[d]]
      BY DEF Starts
    <3>5. QED BY <1>2, <3>3, <3>4, AtOnePlace, Zenon
  <2>5. QED BY <1>5, <1>6, <2>1, <2>2, <2>3, <2>4, Mapped
<1>8. CASE ~sub[s].active
  <2>1. \A d \in Deliveries : task'[d].running = task[d].running /\ task'[d].ran = task[d].ran
    BY <1>1, <1>8
  <2>2. QED BY <1>5, <2>1, TasksSame, Mapped
<1>9. QED BY <1>7, <1>8

LEMMA FinishMapped ==
    ASSUME TypeInv, NEW s \in Subs, NEW m \in Msgs, TaskReturn(s, m)
    PROVE  [Promise!Next]_(Promise!vars)
<1> DEFINE c == task[<<s, m>>]
           n == task'[<<s, m>>]
<1>1. /\ UNCHANGED <<sub, pub>>
      /\ n.running = c.running - 1 /\ n.ran = c.ran + 1 /\ c.running > 0
      /\ \A d \in Deliveries : d # <<s, m>> => task'[d] = task[d]
  BY TaskFields, Zenon DEF TaskReturn
<1>2. <<s, m>> \in Deliveries /\ c.running \in Nat /\ c.ran \in Nat
  BY DEF TypeInv, TypeOK, Deliveries, TaskCounts
<1>3. \A d \in Deliveries : /\ Starts[d] = task[d].running + task[d].ran
                            /\ Starts'[d] = task'[d].running + task'[d].ran
                            /\ Finishes[d] = task[d].ran /\ Finishes'[d] = task'[d].ran
  BY DEF Starts, Finishes
<1>4. Finishes[<<s, m>>] < Starts[<<s, m>>]
  BY <1>1, <1>2, <1>3
<1>5. UNCHANGED Starts
  <2>1. n.running + n.ran = c.running + c.ran
    BY <1>1, <1>2
  <2> HIDE DEF n, c
  <2>2. \A d \in Deliveries : Starts'[d] = Starts[d]
    BY <1>1, <1>3, <2>1, Zenon DEF n, c
  <2>3. Starts = [d \in Deliveries |-> Starts[d]] /\ Starts' = [d \in Deliveries |-> Starts'[d]]
    BY DEF Starts
  <2>4. QED BY <2>2, <2>3, SameFunction, Zenon
<1>6. Finishes' = [Finishes EXCEPT ![<<s, m>>] = @ + 1]
  <2> HIDE DEF n, c
  <2>1. \A d \in Deliveries : Finishes'[d] = IF d = <<s, m>> THEN Finishes[<<s, m>>] + 1 ELSE Finishes[d]
    BY <1>1, <1>2, <1>3, Zenon DEF n, c
  <2>2. /\ Finishes = [d \in Deliveries |-> Finishes[d]]
        /\ Finishes' = [d \in Deliveries |-> Finishes'[d]]
    BY DEF Finishes
  <2>3. QED BY <1>2, <2>1, <2>2, AtOnePlace, Zenon
<1>7. UNCHANGED <<Status, TopicOf, Published>>
  BY <1>1, SubsSame, PubsSame
<1>8. QED BY <1>4, <1>5, <1>6, <1>7, Mapped

\* Handing out queues callbacks, and shows nothing.
LEMMA NothingMapped ==
    ASSUME TypeInv, PromiseInv, UNCHANGED sub, PubKeeps,
           UNCHANGED task \/ \E i \in TopicDatas : ProcDispatch(i) \/ ProcDrain(i)
    PROVE  [Promise!Next]_(Promise!vars)
<1>1. UNCHANGED <<Status, TopicOf>>
  BY SubsSame
<1>2. UNCHANGED Published
  BY DEF PubKeeps, Published
<1>3. \A d \in Deliveries : task'[d].running = task[d].running /\ task'[d].ran = task[d].ran
  <2>1. ASSUME NEW slice, NEW batch, Submit(slice, batch), NEW d \in Deliveries
        PROVE  task'[d].running = task[d].running /\ task'[d].ran = task[d].ran
    <3> DEFINE k == Occurrences(batch, d[2])
    <3>1. task'[d] = IF d[1] \in Live(slice) /\ bus # "closed"
                     THEN [task[d] EXCEPT !.queued = @ + k] ELSE task[d]
      BY <2>1 DEF Submit
    <3>2. task[d] \in TaskCounts
      BY DEF TypeInv, TypeOK
    <3> HIDE DEF k
    <3>3. QED BY <3>1, <3>2 DEF TaskCounts
  <2>2. QED BY <2>1, Zenon DEF ProcDispatch, ProcDrain
<1>4. QED BY <1>1, <1>2, <1>3, TasksSame, Mapped

LEMMA StepMapped == TypeInv /\ PromiseInv /\ [Next]_vars => [Promise!Next]_(Promise!vars)
<1> SUFFICES ASSUME TypeInv, PromiseInv, [Next]_vars PROVE [Promise!Next]_(Promise!vars)
  OBVIOUS
<1>1. CASE \E s \in Subs, t \in Topics, i \in TopicDatas : SubscribeRegister(s, t, i)
  BY <1>1, JoinMapped
<1>2. CASE \E s \in Subs : SubscribeAppend(s) \/ Unsub(s) \/ Collect(s)
  BY <1>2, LeaveMapped
<1>3. CASE \E m \in Msgs, t \in Topics : PublishRead(m, t)
  BY <1>3, PostMapped DEF PromiseInv
<1>4. CASE \E s \in Subs, m \in Msgs : TaskStart(s, m) \/ TaskReturn(s, m)
  BY <1>4, BeginMapped, FinishMapped
<1> DEFINE Silent == /\ UNCHANGED sub
                     /\ UNCHANGED task \/ \E i \in TopicDatas : ProcDispatch(i) \/ ProcDrain(i)
<1>5. CASE PubKeeps /\ Silent
  BY <1>5, NothingMapped
<1>6. \/ Silent
      \/ \E s \in Subs, t \in Topics, i \in TopicDatas : SubscribeRegister(s, t, i)
      \/ \E s \in Subs : SubscribeAppend(s) \/ Unsub(s) \/ Collect(s)
      \/ \E s \in Subs, m \in Msgs : TaskStart(s, m) \/ TaskReturn(s, m)
  BY Zenon
     DEF Next, vars, UnsubRemove, UnsubCheck, UnsubscribeTopic, WsChange, PublishRead,
         PublishCheck, PublishSend, ProcTake, ProcDispatch, ProcStop, ProcDrain, ProcExit,
         Compact, CloseDone, ClosePool
<1>7. PubKeeps \/ \E m \in Msgs, t \in Topics : PublishRead(m, t)
  BY Keeps, Zenon
<1> HIDE DEF Silent
<1>8. QED BY <1>1, <1>2, <1>3, <1>4, <1>5, <1>6, <1>7

\* TopicBus implements PubSub, in every instance: a callback starts at most
\* once for a message, only for one published on its subscriber's topic, and
\* only while the subscriber is subscribed.
THEOREM KeepsThePromise == Spec => PromiseKept
BY InitMapped, StepMapped, AlwaysTypeInv, AlwaysPromiseInv, PTL DEF Spec, PromiseKept, Promise!Spec

-----------------------------------------------------------------------------
(* AckRequests *)

\* Before a request is published nobody has the message, so nobody answers
\* and nobody waits.  A waiter has a request, and answers only from then on.
\* An answer about to be sent is marked.
Protocol ==
    /\ \A a \in Acks : stage[a] = "new" => expected[a] = {} /\ remaining[a] = 0
    /\ \A a \in Acks : stage[a] # "published" => delivered[a] = {} /\ received[a] = {}
    /\ \A a \in Acks, c \in Clients : handler[<<a, c>>] # "idle" => stage[a] = "published"
    /\ \A a \in Acks, c \in Clients : handler[<<a, c>>] = "marked" => c \in received[a]
    /\ \A a \in listed : stage[a] \in {"registered", "published"}
    /\ \A w \in Waiters : IF waiter[w] = "idle" THEN got[w] = {}
                          ELSE stage[waitsFor[w]] = "published"

IInv ==
    /\ AckTypeOK
    /\ Protocol
    /\ ClosedOnceWhenUnlisted
    /\ RemainingCountsAnswers
    /\ AnswersWereMarked
    /\ CompleteMeansEnoughAnswers

-----------------------------------------------------------------------------
(* Lemmas about cardinalities and about the channel. *)

\* A set of clients is finite and has a natural number of members.
LEMMA ClientSets ==
    ASSUME NEW S \in SUBSET Clients
    PROVE  IsFiniteSet(S) /\ Cardinality(S) \in Nat
BY AckAssumption, FS_Subset, FS_CardinalityType

\* One more client makes one more, if it is new.
LEMMA OneMoreClient ==
    ASSUME NEW S \in SUBSET Clients, NEW c \in Clients
    PROVE  Cardinality(S \cup {c}) = IF c \in S THEN Cardinality(S) ELSE Cardinality(S) + 1
BY ClientSets, FS_AddElement

\* A send keeps the channel within its capacity, and adds at most c.
LEMMA AnswerFacts ==
    ASSUME AckTypeOK, NEW a \in Acks, NEW c \in Clients
    PROVE  /\ Answer(a, c) \in Seq(Clients)
           /\ Len(Answer(a, c)) <= AckCap
           /\ \A k \in DOMAIN Answer(a, c) :
                 Answer(a, c)[k] = c \/ \E j \in DOMAIN ackCh[a] : Answer(a, c)[k] = ackCh[a][j]
<1>1. ackCh[a] \in Seq(Clients) /\ Len(ackCh[a]) <= AckCap
  BY DEF AckTypeOK
<1>2. CASE Answer(a, c) = ackCh[a]
  BY <1>1, <1>2, Zenon
<1>3. CASE Answer(a, c) = Append(ackCh[a], c) /\ Len(ackCh[a]) < AckCap
  <2> DEFINE q == ackCh[a]
  <2>1. Append(q, c) \in Seq(Clients) /\ Len(Append(q, c)) = Len(q) + 1
    BY <1>1
  <2>2. \A k \in DOMAIN Append(q, c) :
           Append(q, c)[k] = c \/ (k \in DOMAIN q /\ Append(q, c)[k] = q[k])
    BY <1>1
  <2>3. Len(Append(q, c)) <= AckCap
    BY <1>1, <1>3, <2>1, AckAssumption
  <2>4. QED BY <1>3, <2>1, <2>2, <2>3, Zenon
<1>4. QED BY <1>2, <1>3, Zenon DEF Answer

\* A receive takes the head and leaves the rest.
LEMMA ReceiveFacts ==
    ASSUME NEW ch \in Seq(Clients), ch # <<>>
    PROVE  /\ Head(ch) \in Clients
           /\ \E j \in DOMAIN ch : Head(ch) = ch[j]
           /\ Tail(ch) \in Seq(Clients)
           /\ Len(Tail(ch)) <= Len(ch)
           /\ \A k \in DOMAIN Tail(ch) : \E j \in DOMAIN ch : Tail(ch)[k] = ch[j]
<1>1. Head(ch) = ch[1] /\ 1 \in DOMAIN ch
  OBVIOUS
<1>2. \A k \in DOMAIN Tail(ch) : Tail(ch)[k] = ch[k + 1] /\ k + 1 \in DOMAIN ch
  OBVIOUS
<1>3. QED BY <1>1, <1>2

-----------------------------------------------------------------------------
(* The steps. *)

\* Types are preserved.
LEMMA NextTypeOK ==
    ASSUME AckTypeOK, [AckNext]_ackVars
    PROVE  AckTypeOK'
<1> USE DEF AckTypeOK
<1>1. CASE MembersChange
  BY <1>1, AckAssumption DEF MembersChange, request, waiting
<1>2. CASE CleanerTick
  BY <1>2 DEF CleanerTick, Unlist, waiting
<1>3. CASE CleanerStop
  <2>1. cleaner' \in {"running", "told", "gone"}
    BY <1>3 DEF CleanerStop
  <2>2. UNCHANGED <<members, stage, expected, received, remaining, delivered, listed, ackCh,
                    closes, expired, handler, waiter, waitsFor, got>>
    BY <1>3 DEF CleanerStop, request, waiting
  <2>3. QED BY <2>1, <2>2
<1>4. ASSUME NEW a \in Acks, Count(a) PROVE AckTypeOK'
  <2>1. Cardinality(members) \in Nat
    BY ClientSets
  <2>2. QED BY <1>4, <2>1 DEF Count, waiting
<1>5. ASSUME NEW a \in Acks, Register(a) \/ PublishWithAckID(a) \/ Cancel(a) \/ Expire(a)
      PROVE  AckTypeOK'
  <2>1. CASE Register(a)
    BY <2>1 DEF Register, waiting
  <2>2. CASE PublishWithAckID(a)
    BY <2>2 DEF PublishWithAckID, waiting
  <2>3. CASE Cancel(a)
    BY <2>3 DEF Cancel, Unlist, waiting
  <2>4. CASE Expire(a)
    BY <2>4 DEF Expire, waiting
  <2>5. QED BY <1>5, <2>1, <2>2, <2>3, <2>4
<1>6. ASSUME NEW a \in Acks, NEW c \in Clients, HandleLookup(a, c) PROVE AckTypeOK'
  BY <1>6 DEF HandleLookup, request, waiting
<1>7. ASSUME NEW a \in Acks, NEW c \in Clients, HandleMark(a, c) PROVE AckTypeOK'
  BY <1>7 DEF HandleMark, CountDown, waiting
<1>8. ASSUME NEW a \in Acks, NEW c \in Clients, HandleSend(a, c) PROVE AckTypeOK'
  BY <1>8, AnswerFacts DEF HandleSend, waiting
<1>9. ASSUME NEW a \in Acks, NEW w \in Waiters, WaitCall(w, a) PROVE AckTypeOK'
  BY <1>9 DEF WaitCall, request, Returned
<1>10. ASSUME NEW a \in Acks, NEW w \in Waiters, WaitReceive(w, a) PROVE AckTypeOK'
  <2>1. ackCh[a] \in Seq(Clients) /\ Len(ackCh[a]) <= AckCap
    OBVIOUS
  <2>2. /\ Head(ackCh[a]) \in Clients
        /\ Tail(ackCh[a]) \in Seq(Clients)
        /\ Len(Tail(ackCh[a])) <= AckCap
    BY <1>10, <2>1, ReceiveFacts, AckAssumption DEF WaitReceive
  <2>3. /\ ackCh' \in [Acks -> Seq(Clients)]
        /\ \A b \in Acks : Len(ackCh'[b]) <= AckCap
    BY <1>10, <2>2 DEF WaitReceive
  <2>4. got' \in [Waiters -> SUBSET Clients]
    BY <1>10, <2>2 DEF WaitReceive
  <2>5. /\ waiter' \in [Waiters -> {"idle", "waiting", "received", "releasing"} \cup Returned]
        /\ \A v \in Waiters : waiter'[v] # "idle" => waitsFor'[v] \in Acks
    BY <1>10 DEF WaitReceive, Returned
  <2>6. QED BY <1>10, <2>3, <2>4, <2>5 DEF WaitReceive
<1>11. ASSUME NEW a \in Acks, NEW w \in Waiters,
              WaitCheck(w, a) \/ WaitClosed(w, a) \/ WaitTimeout(w, a)
       PROVE  AckTypeOK'
  BY <1>11 DEF WaitCheck, WaitClosed, WaitTimeout, request, Returned
<1>12. ASSUME NEW a \in Acks, NEW w \in Waiters, WaitRelease(w, a) PROVE AckTypeOK'
  BY <1>12 DEF WaitRelease, Unlist, Returned
<1>13. CASE UNCHANGED ackVars
  BY <1>13 DEF ackVars
<1>14. QED
  BY <1>1, <1>2, <1>3, <1>4, <1>5, <1>6, <1>7, <1>8, <1>9, <1>10, <1>11, <1>12, <1>13
     DEF AckNext

\* The order of events is preserved.
LEMMA NextProtocol ==
    ASSUME AckTypeOK, Protocol, [AckNext]_ackVars
    PROVE  Protocol'
<1> USE DEF AckTypeOK, Protocol
<1>1. CASE MembersChange
  BY <1>1 DEF MembersChange, request, waiting
<1>2. CASE CleanerTick
  BY <1>2 DEF CleanerTick, Unlist, waiting
<1>3. CASE CleanerStop
  BY <1>3 DEF CleanerStop, request, waiting
<1>4. ASSUME NEW a \in Acks, Count(a) PROVE Protocol'
  BY <1>4 DEF Count, waiting
<1>5. ASSUME NEW a \in Acks, Register(a) PROVE Protocol'
  BY <1>5 DEF Register, waiting
<1>6. ASSUME NEW a \in Acks, PublishWithAckID(a) PROVE Protocol'
  BY <1>6 DEF PublishWithAckID, waiting
<1>7. ASSUME NEW a \in Acks, Cancel(a) \/ Expire(a) PROVE Protocol'
  BY <1>7 DEF Cancel, Expire, Unlist, waiting
<1>8. ASSUME NEW a \in Acks, NEW c \in Clients, HandleLookup(a, c) PROVE Protocol'
  BY <1>8 DEF HandleLookup, request, waiting
<1>9. ASSUME NEW a \in Acks, NEW c \in Clients, HandleMark(a, c) PROVE Protocol'
  BY <1>9 DEF HandleMark, CountDown, waiting
<1>10. ASSUME NEW a \in Acks, NEW c \in Clients, HandleSend(a, c) PROVE Protocol'
  BY <1>10 DEF HandleSend, waiting
<1>11. ASSUME NEW a \in Acks, NEW w \in Waiters, WaitCall(w, a) PROVE Protocol'
  BY <1>11 DEF WaitCall, request
<1>12. ASSUME NEW a \in Acks, NEW w \in Waiters, WaitReceive(w, a) PROVE Protocol'
  BY <1>12 DEF WaitReceive
<1>13. ASSUME NEW a \in Acks, NEW w \in Waiters,
              WaitCheck(w, a) \/ WaitClosed(w, a) \/ WaitTimeout(w, a)
       PROVE  Protocol'
  BY <1>13 DEF WaitCheck, WaitClosed, WaitTimeout, request
<1>14. ASSUME NEW a \in Acks, NEW w \in Waiters, WaitRelease(w, a) PROVE Protocol'
  BY <1>14 DEF WaitRelease, Unlist
<1>15. CASE UNCHANGED ackVars
  BY <1>15 DEF ackVars
<1>16. QED
  BY <1>1, <1>2, <1>3, <1>4, <1>5, <1>6, <1>7, <1>8, <1>9, <1>10, <1>11, <1>12, <1>13,
     <1>14, <1>15 DEF AckNext

\* The channel of a request is closed exactly when it leaves the map.
LEMMA NextClosedOnce ==
    ASSUME AckTypeOK, Protocol, ClosedOnceWhenUnlisted, [AckNext]_ackVars
    PROVE  ClosedOnceWhenUnlisted'
<1> USE DEF AckTypeOK, ClosedOnceWhenUnlisted
<1>1. ASSUME UNCHANGED <<stage, listed, closes>> PROVE ClosedOnceWhenUnlisted'
  BY <1>1, Zenon
<1>2. ASSUME NEW as, Unlist(as), UNCHANGED stage PROVE ClosedOnceWhenUnlisted'
  <2>1. \A b \in listed : stage[b] \in {"registered", "published"}
    BY DEF Protocol
  <2>2. listed' = listed \ as /\ stage' = stage
    BY <1>2 DEF Unlist
  <2>3. ASSUME NEW a \in Acks
        PROVE  closes'[a] = IF a \in as \cap listed THEN closes[a] + 1 ELSE closes[a]
    BY <1>2, Zenon DEF Unlist
  <2>4. ASSUME NEW a \in Acks, a \in as \cap listed
        PROVE  closes'[a] = 1 /\ a \notin listed' /\ stage'[a] \in {"registered", "published"}
    <3>1. closes[a] = 0
      BY <2>1, <2>4, Zenon
    <3>2. closes'[a] = closes[a] + 1
      BY <2>3, <2>4, Zenon
    <3>3. closes'[a] = 1
      BY <3>1, <3>2
    <3>4. QED BY <2>1, <2>2, <2>4, <3>3, Zenon
  <2>5. ASSUME NEW a \in Acks, a \notin as \cap listed
        PROVE  closes'[a] = closes[a] /\ (a \in listed' <=> a \in listed) /\ stage'[a] = stage[a]
    BY <2>2, <2>3, <2>5, Zenon
  <2>6. QED BY <2>4, <2>5, Zenon
<1>3. ASSUME NEW a \in Acks, Count(a) PROVE ClosedOnceWhenUnlisted'
  BY <1>3 DEF Count
<1>4. ASSUME NEW a \in Acks, Register(a) PROVE ClosedOnceWhenUnlisted'
  BY <1>4 DEF Register
<1>5. ASSUME NEW a \in Acks, PublishWithAckID(a) PROVE ClosedOnceWhenUnlisted'
  BY <1>5 DEF PublishWithAckID
<1>6. ASSUME \/ CleanerTick
             \/ \E a \in Acks : Cancel(a) \/ \E w \in Waiters : WaitRelease(w, a)
      PROVE  ClosedOnceWhenUnlisted'
  BY <1>2, <1>6, Zenon DEF CleanerTick, Cancel, WaitRelease
<1>7. ASSUME \/ MembersChange \/ CleanerStop \/ UNCHANGED ackVars
             \/ \E a \in Acks :
                   \/ Expire(a)
                   \/ \E c \in Clients : \/ HandleLookup(a, c)
                                          \/ HandleMark(a, c)
                                          \/ HandleSend(a, c)
                   \/ \E w \in Waiters : \/ WaitCall(w, a) \/ WaitReceive(w, a)
                                          \/ WaitCheck(w, a) \/ WaitClosed(w, a)
                                          \/ WaitTimeout(w, a)
      PROVE  UNCHANGED <<stage, listed, closes>>
  BY <1>7, Zenon
     DEF MembersChange, CleanerStop, Expire, HandleLookup, HandleMark, HandleSend, WaitCall,
         WaitReceive, WaitCheck, WaitClosed, WaitTimeout, request, ackVars
<1>8. QED BY <1>1, <1>3, <1>4, <1>5, <1>6, <1>7, Zenon DEF AckNext

\* What happens to the two sets and the counter of a request: it is counted,
\* a client is marked, or nothing.
LEMMA CountingStep ==
    ASSUME AckTypeOK, [AckNext]_ackVars
    PROVE  \/ \E a \in Acks : Count(a)
           \/ \E a \in Acks, c \in Clients : HandleMark(a, c)
           \/ UNCHANGED <<expected, received, remaining>>
<1>1. ASSUME \/ MembersChange \/ CleanerTick \/ CleanerStop \/ UNCHANGED ackVars
             \/ \E a \in Acks :
                   \/ Register(a) \/ PublishWithAckID(a) \/ Cancel(a) \/ Expire(a)
                   \/ \E c \in Clients : HandleLookup(a, c) \/ HandleSend(a, c)
                   \/ \E w \in Waiters : \/ WaitCall(w, a) \/ WaitReceive(w, a)
                                          \/ WaitCheck(w, a) \/ WaitRelease(w, a)
                                          \/ WaitClosed(w, a) \/ WaitTimeout(w, a)
      PROVE  UNCHANGED <<expected, received, remaining>>
  BY <1>1, Zenon
     DEF MembersChange, CleanerTick, CleanerStop, Register, PublishWithAckID, Cancel, Expire,
         HandleLookup, HandleSend, WaitCall, WaitReceive, WaitCheck, WaitRelease, WaitClosed,
         WaitTimeout, request, ackVars
<1>2. QED BY <1>1, Zenon DEF AckNext

\* The counter is preserved: a client is new to received or does not count.
LEMMA NextRemaining ==
    ASSUME AckTypeOK, Protocol, RemainingCountsAnswers, [AckNext]_ackVars
    PROVE  RemainingCountsAnswers'
<1> USE DEF AckTypeOK, RemainingCountsAnswers
<1>1. CASE UNCHANGED <<expected, received, remaining>>
  BY <1>1, Zenon
<1>2. ASSUME NEW a \in Acks, Count(a) PROVE RemainingCountsAnswers'
  <2>1. received[a] = {} /\ Cardinality({}) = 0 /\ Cardinality(members) \in Nat
    BY <1>2, ClientSets, FS_EmptySet DEF Count, Protocol
  <2>2. /\ remaining'[a] = Cardinality(members) /\ expected'[a] = members
        /\ \A b \in Acks \ {a} : remaining'[b] = remaining[b] /\ expected'[b] = expected[b]
        /\ received' = received
    BY <1>2 DEF Count
  <2>3. remaining'[a] = Cardinality(expected'[a]) - Cardinality(received'[a])
    <3>1. Cardinality(members) = Cardinality(members) - Cardinality({})
      BY <2>1
    <3>2. QED BY <2>1, <2>2, <3>1, Zenon
  <2>4. QED BY <2>2, <2>3, Zenon
<1>3. ASSUME NEW a \in Acks, NEW c \in Clients, HandleMark(a, c)
      PROVE  RemainingCountsAnswers'
  <2>1. /\ received'[a] = received[a] \cup {c}
        /\ \A b \in Acks \ {a} : remaining'[b] = remaining[b] /\ received'[b] = received[b]
        /\ expected' = expected
    BY <1>3 DEF HandleMark, CountDown
  <2>2. remaining'[a] = IF c \in received[a] THEN remaining[a] ELSE remaining[a] - 1
    BY <1>3 DEF HandleMark, CountDown
  <2>3. Cardinality(expected[a]) \in Nat /\ Cardinality(received[a]) \in Nat
    BY ClientSets
  <2>4. Cardinality(received[a] \cup {c})
           = IF c \in received[a] THEN Cardinality(received[a]) ELSE Cardinality(received[a]) + 1
    BY OneMoreClient
  <2>5. remaining'[a] = Cardinality(expected'[a]) - Cardinality(received'[a])
    BY <2>1, <2>2, <2>3, <2>4
  <2>6. QED BY <2>1, <2>5
<1>4. QED BY <1>1, <1>2, <1>3, CountingStep, Zenon

\* Answers travel from received to the channel to a waiter.
LEMMA NextAnswersWereMarked ==
    ASSUME AckTypeOK, Protocol, AnswersWereMarked, [AckNext]_ackVars
    PROVE  AnswersWereMarked'
<1> USE DEF AckTypeOK, AnswersWereMarked
<1>1. ASSUME UNCHANGED <<received, ackCh, waitsFor, got>> PROVE AnswersWereMarked'
  BY <1>1, Zenon
<1>2. ASSUME NEW a \in Acks, NEW c \in Clients, HandleMark(a, c) PROVE AnswersWereMarked'
  <2>1. \A b \in Acks : received[b] \subseteq received'[b]
    BY <1>2 DEF HandleMark
  <2>2. UNCHANGED <<ackCh, waitsFor, got>>
    BY <1>2 DEF HandleMark, waiting
  <2>3. \A w \in Waiters : got[w] # {} => waitsFor[w] \in Acks
    BY DEF Protocol
  <2>4. QED BY <2>1, <2>2, <2>3
<1>3. ASSUME NEW a \in Acks, NEW c \in Clients, HandleSend(a, c) PROVE AnswersWereMarked'
  <2>1. c \in received[a]
    BY <1>3, Zenon DEF HandleSend, Protocol
  <2>2. UNCHANGED <<received, waitsFor, got>>
    BY <1>3, Zenon DEF HandleSend, waiting
  <2>3. \A b \in Acks : ackCh'[b] = IF b = a THEN Answer(a, c) ELSE ackCh[b]
    BY <1>3 DEF HandleSend
  <2>4. \A k \in DOMAIN Answer(a, c) : Answer(a, c)[k] \in received[a]
    <3>1. \A j \in DOMAIN ackCh[a] : ackCh[a][j] \in received[a]
      OBVIOUS
    <3>2. \A k \in DOMAIN Answer(a, c) :
             Answer(a, c)[k] = c \/ \E j \in DOMAIN ackCh[a] : Answer(a, c)[k] = ackCh[a][j]
      BY AnswerFacts
    <3>3. QED BY <2>1, <3>1, <3>2, Zenon
  <2>5. QED BY <2>2, <2>3, <2>4, Zenon
<1>4. ASSUME NEW a \in Acks, NEW w \in Waiters, WaitCall(w, a) PROVE AnswersWereMarked'
  <2>1. got[w] = {}
    BY <1>4 DEF WaitCall, Protocol
  <2>2. UNCHANGED <<received, ackCh, got>>
    BY <1>4, Zenon DEF WaitCall, request
  <2>3. \A v \in Waiters : v # w => waitsFor'[v] = waitsFor[v]
    BY <1>4 DEF WaitCall
  <2>4. QED BY <2>1, <2>2, <2>3, Zenon
<1>5. ASSUME NEW a \in Acks, NEW w \in Waiters, WaitReceive(w, a) PROVE AnswersWereMarked'
  <2>1. ackCh[a] \in Seq(Clients) /\ ackCh[a] # <<>> /\ waitsFor[w] = a
    BY <1>5 DEF WaitReceive
  <2>2. /\ Head(ackCh[a]) \in received[a]
        /\ \A k \in DOMAIN Tail(ackCh[a]) : Tail(ackCh[a])[k] \in received[a]
    <3>1. \A j \in DOMAIN ackCh[a] : ackCh[a][j] \in received[a]
      OBVIOUS
    <3>2. /\ \E j \in DOMAIN ackCh[a] : Head(ackCh[a]) = ackCh[a][j]
          /\ \A k \in DOMAIN Tail(ackCh[a]) :
                \E j \in DOMAIN ackCh[a] : Tail(ackCh[a])[k] = ackCh[a][j]
      BY <2>1, ReceiveFacts
    <3>3. QED BY <3>1, <3>2, Zenon
  <2>3. UNCHANGED <<received, waitsFor>>
    BY <1>5, Zenon DEF WaitReceive
  <2>4. \A b \in Acks : ackCh'[b] = IF b = a THEN Tail(ackCh[a]) ELSE ackCh[b]
    BY <1>5 DEF WaitReceive
  <2>5. \A v \in Waiters : got'[v] = IF v = w THEN got[w] \cup {Head(ackCh[a])} ELSE got[v]
    BY <1>5 DEF WaitReceive
  <2>6. \A b \in Acks : \A k \in DOMAIN ackCh'[b] : ackCh'[b][k] \in received'[b]
    BY <2>2, <2>3, <2>4, Zenon
  <2>7. ASSUME NEW v \in Waiters, NEW c \in got'[v] PROVE c \in received'[waitsFor'[v]]
    <3>1. c \in got[v] => c \in received[waitsFor[v]]
      OBVIOUS
    <3>2. c \in got[v] \/ (v = w /\ c = Head(ackCh[a]))
      BY <2>5
    <3>3. QED BY <2>1, <2>2, <2>3, <3>1, <3>2, Zenon
  <2>8. QED BY <2>6, <2>7, Zenon
<1>6. ASSUME \/ MembersChange \/ CleanerTick \/ CleanerStop \/ UNCHANGED ackVars
             \/ \E a \in Acks :
                   \/ Count(a) \/ Register(a) \/ PublishWithAckID(a) \/ Cancel(a) \/ Expire(a)
                   \/ \E c \in Clients : HandleLookup(a, c)
                   \/ \E w \in Waiters : \/ WaitCheck(w, a) \/ WaitRelease(w, a)
                                          \/ WaitClosed(w, a) \/ WaitTimeout(w, a)
      PROVE  UNCHANGED <<received, ackCh, waitsFor, got>>
  BY <1>6, Zenon
     DEF MembersChange, CleanerTick, CleanerStop, Count, Register, PublishWithAckID, Cancel,
         Expire, HandleLookup, WaitCheck, WaitRelease, WaitClosed, WaitTimeout, request,
         waiting, ackVars
<1>7. QED BY <1>1, <1>2, <1>3, <1>4, <1>5, <1>6, Zenon DEF AckNext

\* Once published, a request keeps its counted clients and gains answers.
LEMMA AnswersGrow ==
    ASSUME AckTypeOK, Protocol, [AckNext]_ackVars, NEW a \in Acks, stage[a] = "published"
    PROVE  /\ expected'[a] = expected[a]
           /\ Cardinality(received'[a]) >= Cardinality(received[a])
<1> USE DEF AckTypeOK
<1>1. Cardinality(received[a]) \in Nat
  BY ClientSets
<1>2. CASE UNCHANGED <<expected, received, remaining>>
  <2>1. expected'[a] = expected[a] /\ received'[a] = received[a]
    BY <1>2, Zenon
  <2>2. Cardinality(received[a]) >= Cardinality(received[a])
    BY <1>1
  <2>3. QED BY <2>1, <2>2, Zenon
<1>3. ASSUME NEW b \in Acks, Count(b)
      PROVE  expected'[a] = expected[a] /\ received'[a] = received[a]
  BY <1>3 DEF Count
<1>4. ASSUME NEW b \in Acks, NEW c \in Clients, HandleMark(b, c)
      PROVE  /\ expected'[a] = expected[a]
             /\ received'[a] = received[a] \/ received'[a] = received[a] \cup {c}
  BY <1>4 DEF HandleMark
<1>5. ASSUME NEW c \in Clients
      PROVE  Cardinality(received[a] \cup {c}) >= Cardinality(received[a])
  <2>1. received[a] \in SUBSET Clients
    OBVIOUS
  <2>2. Cardinality(received[a] \cup {c}) = Cardinality(received[a])
        \/ Cardinality(received[a] \cup {c}) = Cardinality(received[a]) + 1
    BY <2>1, OneMoreClient, Zenon
  <2>3. QED BY <1>1, <2>2
<1>6. Cardinality(received[a]) >= Cardinality(received[a])
  BY <1>1
<1>7. QED BY <1>2, <1>3, <1>4, <1>5, <1>6, CountingStep, Zenon

\* Whoever sees the counter at zero is right, and stays right.
LEMMA NextCompleteMeans ==
    ASSUME AckTypeOK, Protocol, RemainingCountsAnswers, CompleteMeansEnoughAnswers,
           [AckNext]_ackVars
    PROVE  CompleteMeansEnoughAnswers'
<1> USE DEF AckTypeOK
<1> DEFINE Enough(a) == Cardinality(received[a]) >= Cardinality(expected[a])
           EnoughNext(a) == Cardinality(received'[a]) >= Cardinality(expected'[a])
           Sure(st) == st \in {"releasing", "complete", "empty"}
<1>0. /\ CompleteMeansEnoughAnswers => \A v \in Waiters : Sure(waiter[v]) => Enough(waitsFor[v])
      /\ (\A v \in Waiters : Sure(waiter'[v]) => EnoughNext(waitsFor'[v]))
            => CompleteMeansEnoughAnswers'
  BY Zenon DEF CompleteMeansEnoughAnswers
<1>1. ASSUME NEW a \in Acks PROVE remaining[a] <= 0 => Enough(a)
  <2>1. Cardinality(expected[a]) \in Nat /\ Cardinality(received[a]) \in Nat
    BY ClientSets
  <2>2. remaining[a] = Cardinality(expected[a]) - Cardinality(received[a])
    BY DEF RemainingCountsAnswers
  <2>3. QED BY <2>1, <2>2
<1>2. ASSUME NEW a \in Acks, stage[a] = "published", Enough(a) PROVE EnoughNext(a)
  <2>1. /\ expected'[a] = expected[a]
        /\ Cardinality(received'[a]) >= Cardinality(received[a])
    BY <1>2, AnswersGrow
  <2>2. Cardinality(expected[a]) \in Nat /\ Cardinality(received[a]) \in Nat
    BY ClientSets
  <2>3. AckTypeOK'
    BY NextTypeOK
  <2>4. Cardinality(received'[a]) \in Nat
    BY <2>3, ClientSets
  <2>5. Cardinality(received'[a]) >= Cardinality(expected[a])
    BY <1>2, <2>1, <2>2, <2>4
  <2>6. QED BY <2>1, <2>5, Zenon
<1>3. ASSUME NEW v \in Waiters, waiter'[v] = waiter[v], waitsFor'[v] = waitsFor[v],
             Sure(waiter'[v])
      PROVE  EnoughNext(waitsFor'[v])
  <2>1. waitsFor[v] \in Acks /\ stage[waitsFor[v]] = "published"
    BY <1>3 DEF Protocol
  <2>2. Enough(waitsFor[v])
    BY <1>0, <1>3, Zenon
  <2>3. EnoughNext(waitsFor[v])
    BY <1>2, <2>1, <2>2, Zenon
  <2>4. QED BY <1>3, <2>3, Zenon
<1>4. ASSUME NEW w \in Waiters, NEW a \in Acks,
             \A v \in Waiters : v # w => waiter'[v] = waiter[v] /\ waitsFor'[v] = waitsFor[v],
             Sure(waiter'[w]) => waitsFor'[w] = a /\ stage[a] = "published" /\ Enough(a)
      PROVE  CompleteMeansEnoughAnswers'
  <2>1. ASSUME NEW v \in Waiters, Sure(waiter'[v]) PROVE EnoughNext(waitsFor'[v])
    <3>1. CASE v = w
      <4>1. waitsFor'[v] = a /\ stage[a] = "published" /\ Enough(a)
        BY <1>4, <2>1, <3>1, Zenon
      <4>2. EnoughNext(a)
        BY <1>2, <4>1, Zenon
      <4>3. QED BY <4>1, <4>2, Zenon
    <3>2. CASE v # w
      BY <1>3, <1>4, <2>1, <3>2, Zenon
    <3>3. QED BY <3>1, <3>2
  <2>2. QED BY <1>0, <2>1, Zenon
<1>5. ASSUME NEW a \in Acks, NEW w \in Waiters, WaitCall(w, a)
      PROVE  CompleteMeansEnoughAnswers'
  <2>1. /\ \A v \in Waiters : v # w => waiter'[v] = waiter[v] /\ waitsFor'[v] = waitsFor[v]
        /\ Sure(waiter'[w]) => remaining[a] <= 0
        /\ waitsFor'[w] = a /\ stage[a] = "published"
    BY <1>5 DEF WaitCall
  <2>2. QED BY <1>1, <1>4, <2>1, Zenon
<1>6. ASSUME NEW a \in Acks, NEW w \in Waiters,
             \/ WaitReceive(w, a) \/ WaitCheck(w, a) \/ WaitRelease(w, a)
             \/ WaitClosed(w, a) \/ WaitTimeout(w, a)
      PROVE  CompleteMeansEnoughAnswers'
  <2>1. /\ waiter[w] \in {"waiting", "received", "releasing"}
        /\ waitsFor[w] = a
        /\ waitsFor' = waitsFor
        /\ \A v \in Waiters : v # w => waiter'[v] = waiter[v]
    BY <1>6 DEF WaitReceive, WaitCheck, WaitRelease, WaitClosed, WaitTimeout
  <2>2. stage[a] = "published"
    BY <2>1 DEF Protocol
  <2>3. Sure(waiter'[w]) => remaining[a] <= 0 \/ waiter[w] = "releasing"
    BY <1>6 DEF WaitReceive, WaitCheck, WaitRelease, WaitClosed, WaitTimeout, Satisfied
  <2>4. waiter[w] = "releasing" => Enough(a)
    BY <1>0, <2>1, Zenon
  <2>5. Sure(waiter'[w]) => Enough(a)
    BY <1>1, <2>3, <2>4, Zenon
  <2>6. QED BY <1>4, <2>1, <2>2, <2>5, Zenon
<1>7. ASSUME UNCHANGED <<waiter, waitsFor>> PROVE CompleteMeansEnoughAnswers'
  BY <1>0, <1>3, <1>7, Zenon
<1>8. ASSUME \/ MembersChange \/ CleanerTick \/ CleanerStop \/ UNCHANGED ackVars
             \/ \E a \in Acks :
                   \/ Count(a) \/ Register(a) \/ PublishWithAckID(a) \/ Cancel(a) \/ Expire(a)
                   \/ \E c \in Clients : \/ HandleLookup(a, c)
                                          \/ HandleMark(a, c)
                                          \/ HandleSend(a, c)
      PROVE  UNCHANGED <<waiter, waitsFor>>
  BY <1>8, Zenon
     DEF MembersChange, CleanerTick, CleanerStop, Count, Register, PublishWithAckID, Cancel,
         Expire, HandleLookup, HandleMark, HandleSend, waiting, ackVars
<1>9. QED BY <1>5, <1>6, <1>7, <1>8, Zenon DEF AckNext

-----------------------------------------------------------------------------
(* The theorems. *)

LEMMA InitIInv == AckInit => IInv
<1> SUFFICES ASSUME AckInit PROVE IInv
  OBVIOUS
<1>1. AckTypeOK /\ Protocol /\ ClosedOnceWhenUnlisted
  BY AckAssumption DEF AckInit, AckTypeOK, Protocol, ClosedOnceWhenUnlisted, Returned
<1>2. RemainingCountsAnswers
  BY FS_EmptySet DEF AckInit, RemainingCountsAnswers
<1>3. AnswersWereMarked /\ CompleteMeansEnoughAnswers
  BY DEF AckInit, AnswersWereMarked, CompleteMeansEnoughAnswers
<1>4. QED BY <1>1, <1>2, <1>3 DEF IInv

LEMMA NextIInv == IInv /\ [AckNext]_ackVars => IInv'
BY NextTypeOK, NextProtocol, NextClosedOnce, NextRemaining, NextAnswersWereMarked,
   NextCompleteMeans, Zenon DEF IInv

LEMMA AlwaysIInv == AckSpec => []IInv
BY InitIInv, NextIInv, PTL DEF AckSpec

\* Types, and no channel beyond its capacity.
THEOREM AckTypeCorrect == AckSpec => []AckTypeOK
<1>1. IInv => AckTypeOK
  BY DEF IInv
<1>2. QED BY <1>1, AlwaysIInv, PTL

\* The channel of a request is closed exactly once, when it leaves the map.
THEOREM ClosedOnce == AckSpec => []ClosedOnceWhenUnlisted
<1>1. IInv => ClosedOnceWhenUnlisted
  BY DEF IInv
<1>2. QED BY <1>1, AlwaysIInv, PTL

\* The counter is exact, for any number of clients and of repeated answers.
THEOREM CounterExact == AckSpec => []RemainingCountsAnswers
<1>1. IInv => RemainingCountsAnswers
  BY DEF IInv
<1>2. QED BY <1>1, AlwaysIInv, PTL

\* No waiter has an answer that GetStatus does not show.
THEOREM MarkedFirst == AckSpec => []AnswersWereMarked
<1>1. IInv => AnswersWereMarked
  BY DEF IInv
<1>2. QED BY <1>1, AlwaysIInv, PTL

\* No Wait calls a request complete before as many clients answered as were
\* counted.
THEOREM CompleteIsEnough == AckSpec => []CompleteMeansEnoughAnswers
<1>1. IInv => CompleteMeansEnoughAnswers
  BY DEF IInv
<1>2. QED BY <1>1, AlwaysIInv, PTL
=============================================================================
