------------------------- MODULE BatchWriterProofs -------------------------
(***************************************************************************)
(* Proofs about BatchWriter, for any number of producers, closers and      *)
(* messages, any size of the ring and of a batch.                          *)
(*                                                                         *)
(* WrittenOnce needs where a message may be at once (OnceInv): the ring    *)
(* and the batch share one only between the load of its slot and the       *)
(* clearing of that slot, the batch and the wire only once it is written.  *)
(*                                                                         *)
(* FifoKept needs which slots hold a message (FifoInv): counted from the   *)
(* tail, those from Loaded to Stored.                                      *)
(***************************************************************************)
EXTENDS BatchWriter, SequenceTheorems, TLAPS

\* What sendBatch and collectBatch rely on: a batch grows by at most one
\* message per slot looked at, and is empty between two batches.
ProcOK(r) ==
    /\ r \in Processor
    /\ Len(r.batch) <= BatchSize /\ r.written <= Len(r.batch) /\ r.n <= BatchSize
    /\ r.pc \in {"select", "tail", "head", "exited"} => r.batch = <<>>
    /\ r.pc \in {"load", "clear", "advance"} => r.written = 0
    /\ r.pc = "load" => Len(r.batch) <= r.i /\ r.i <= r.n
    /\ r.pc = "clear" => r.i < r.n /\ Len(r.batch) <= r.i + 1 /\ r.batch # <<>>

\* A producer inside Send has a message.
CallsOK == \A p \in Producers : call[p].pc # "idle" => call[p].msg \in Msgs

TypeInv == TypeOK /\ ProcOK(proc) /\ CallsOK

-----------------------------------------------------------------------------
(* Types. *)

LEMMA SlotType ==
    /\ 0 \in Slots
    /\ \A i \in Slots, n \in Nat : Succ(i, n) \in Slots
    /\ \A h, t \in Slots : (h + RingSize - t) % RingSize \in Nat
BY BatchAssumption DEF Slots, Succ

\* A step of a producer.
LEMMA CallTyped ==
    ASSUME TypeInv, NEW p \in Producers, NEW r \in Call,
           r.pc # "idle" => r.msg \in Msgs, call' = [call EXCEPT ![p] = r]
    PROVE  call' \in [Producers -> Call] /\ CallsOK'
<1>1. call \in [Producers -> Call]
  BY DEF TypeInv, TypeOK
<1>2. \A q \in Producers : call'[q] = IF q = p THEN r ELSE call[q]
  BY <1>1
<1>3. call' \in [Producers -> Call]
  BY <1>1
<1>4. QED BY <1>2, <1>3 DEF TypeInv, CallsOK

LEMMA Returned ==
    ASSUME TypeInv, NEW p \in Producers, call[p].pc # "idle",
           NEW verdict \in {"accepted", "refused"}, Return(p, verdict)
    PROVE  /\ fate' \in [Msgs -> {"new", "pending", "accepted", "refused"}]
           /\ call' \in [Producers -> Call] /\ CallsOK'
<1> DEFINE r == [pc |-> "idle", msg |-> None, head |-> 0]
<1>1. r \in Call /\ r.pc = "idle"
  BY SlotType DEF Call
<1>2. call' = [call EXCEPT ![p] = r]
  BY Zenon DEF Return
<1>3. call' \in [Producers -> Call] /\ CallsOK'
  BY <1>1, <1>2, CallTyped, Zenon
<1>4. fate' \in [Msgs -> {"new", "pending", "accepted", "refused"}]
  BY DEF TypeInv, TypeOK, CallsOK, Return
<1>5. QED BY <1>3, <1>4

\* What a producer's step must show; the goroutine and the closers are still.
LEMMA SendTyped ==
    ASSUME TypeInv, UNCHANGED <<closing, proc, output>>,
           buffer' \in [Slots -> Msgs \cup {None}], head' \in Slots, tail' \in Slots,
           fate' \in [Msgs -> {"new", "pending", "accepted", "refused"}],
           call' \in [Producers -> Call], CallsOK'
    PROVE  TypeInv'
BY DEF TypeInv, TypeOK, closing, output

LEMMA SendSteps ==
    ASSUME TypeInv, NEW p \in Producers, Send(p) \/ \E m \in Msgs : SendCheck(p, m)
    PROVE  TypeInv'
<1>1. /\ buffer \in [Slots -> Msgs \cup {None}] /\ head \in Slots /\ tail \in Slots
      /\ fate \in [Msgs -> {"new", "pending", "accepted", "refused"}]
      /\ call \in [Producers -> Call] /\ CallsOK /\ call[p] \in Call
      /\ call[p].pc # "idle" => call[p].msg \in Msgs
  BY DEF TypeInv, TypeOK, CallsOK
<1>2. ASSUME NEW m \in Msgs, SendCheck(p, m) PROVE TypeInv'
  <2> DEFINE r == [call[p] EXCEPT !.pc = "loop", !.msg = m]
  <2>1. r \in Call /\ r.msg = m
    BY <1>1 DEF Call
  <2>2. CASE active
    <3>1. call' = [call EXCEPT ![p] = r] /\ fate' = [fate EXCEPT ![m] = "pending"]
      BY <1>2, <2>2, Zenon DEF SendCheck
    <3> HIDE DEF r
    <3>2. call' \in [Producers -> Call] /\ CallsOK'
      BY <2>1, <3>1, CallTyped, Zenon
    <3>3. fate' \in [Msgs -> {"new", "pending", "accepted", "refused"}]
      BY <1>1, <3>1
    <3>4. QED BY <1>1, <1>2, <3>2, <3>3, SendTyped, Zenon DEF SendCheck, ring
  <2>3. CASE ~active
    <3>1. call' = call /\ fate' = [fate EXCEPT ![m] = "refused"]
      BY <1>2, <2>3, Zenon DEF SendCheck
    <3>2. fate' \in [Msgs -> {"new", "pending", "accepted", "refused"}]
      BY <1>1, <3>1
    <3>3. CallsOK'
      BY <1>1, <3>1 DEF CallsOK
    <3>4. QED BY <1>1, <1>2, <3>1, <3>2, <3>3, SendTyped, Zenon DEF SendCheck, ring
  <2>4. QED BY <2>2, <2>3
<1>3. CASE SendHead(p)
  <2> DEFINE r == [call[p] EXCEPT !.pc = "tail", !.head = head]
  <2>1. r \in Call /\ r.msg = call[p].msg
    BY <1>1 DEF Call
  <2>2. call[p].pc = "loop" /\ call' = [call EXCEPT ![p] = r] /\ fate' = fate
    BY <1>3, Zenon DEF SendHead
  <2> HIDE DEF r
  <2>3. r.msg \in Msgs
    BY <1>1, <2>1, <2>2
  <2>4. call' \in [Producers -> Call] /\ CallsOK'
    BY <2>1, <2>2, <2>3, CallTyped, Zenon
  <2>5. QED BY <1>1, <1>3, <2>2, <2>4, SendTyped, Zenon DEF SendHead, ring
<1>4. CASE SendTail(p)
  <2>1. call[p].pc = "tail"
    BY <1>4, Zenon DEF SendTail
  <2>2. ASSUME NEW pc \in {"claim", "loop"}, call' = [call EXCEPT ![p].pc = pc]
        PROVE  call' \in [Producers -> Call] /\ CallsOK'
    <3> DEFINE r == [call[p] EXCEPT !.pc = pc]
    <3>1. r \in Call /\ r.msg = call[p].msg
      BY <1>1 DEF Call
    <3>2. call' = [call EXCEPT ![p] = r]
      BY <2>2, Zenon
    <3> HIDE DEF r
    <3>3. r.msg \in Msgs
      BY <1>1, <2>1, <3>1
    <3>4. QED BY <3>1, <3>2, <3>3, CallTyped, Zenon
  <2>3. /\ call' \in [Producers -> Call] /\ CallsOK'
        /\ fate' \in [Msgs -> {"new", "pending", "accepted", "refused"}]
    <3>1. CASE Return(p, "refused")
      BY <2>1, <3>1, Returned
    <3>2. CASE ~Return(p, "refused")
      <4>1. /\ \E pc \in {"claim", "loop"} : call' = [call EXCEPT ![p].pc = pc]
            /\ fate' = fate
        BY <1>4, <3>2, Zenon DEF SendTail
      <4>2. QED BY <1>1, <2>2, <4>1, Zenon
    <3>3. QED BY <3>1, <3>2
  <2>4. QED BY <1>1, <1>4, <2>3, SendTyped, Zenon DEF SendTail, ring
<1>5. CASE SendClaim(p)
  <2>1. call[p].pc = "claim" /\ buffer' = buffer /\ tail' = tail
    BY <1>5, Zenon DEF SendClaim
  <2>2. ASSUME NEW pc \in {"store", "loop"}, call' = [call EXCEPT ![p].pc = pc]
        PROVE  call' \in [Producers -> Call] /\ CallsOK'
    <3> DEFINE r == [call[p] EXCEPT !.pc = pc]
    <3>1. r \in Call /\ r.msg = call[p].msg
      BY <1>1 DEF Call
    <3>2. call' = [call EXCEPT ![p] = r]
      BY <2>2, Zenon
    <3> HIDE DEF r
    <3>3. r.msg \in Msgs
      BY <1>1, <2>1, <3>1
    <3>4. QED BY <3>1, <3>2, <3>3, CallTyped, Zenon
  <2>3. /\ call' \in [Producers -> Call] /\ CallsOK'
        /\ fate' \in [Msgs -> {"new", "pending", "accepted", "refused"}]
    <3>1. CASE Return(p, "refused")
      BY <2>1, <3>1, Returned
    <3>2. CASE ~Return(p, "refused")
      <4>1. /\ \E pc \in {"store", "loop"} : call' = [call EXCEPT ![p].pc = pc]
            /\ fate' = fate
        BY <1>5, <3>2, Zenon DEF SendClaim
      <4>2. QED BY <1>1, <2>2, <4>1, Zenon
    <3>3. QED BY <3>1, <3>2
  <2>4. head' = head \/ head' = Succ(head, 1)
    BY <1>5, Zenon DEF SendClaim
  <2>5. head' \in Slots
    BY <1>1, <2>4, SlotType
  <2>6. QED BY <1>1, <1>5, <2>1, <2>3, <2>5, SendTyped, Zenon DEF SendClaim
<1>6. CASE SendStore(p)
  <2>1. /\ call[p].pc = "store" /\ Return(p, "accepted") /\ head' = head /\ tail' = tail
        /\ buffer' = [buffer EXCEPT ![call[p].head] = call[p].msg]
    BY <1>6, Zenon DEF SendStore
  <2>2. buffer' \in [Slots -> Msgs \cup {None}]
    BY <1>1, <2>1
  <2>3. call[p].pc # "idle"
    BY <2>1
  <2>4. /\ call' \in [Producers -> Call] /\ CallsOK'
        /\ fate' \in [Msgs -> {"new", "pending", "accepted", "refused"}]
    BY <2>1, <2>3, Returned
  <2>5. QED BY <1>1, <1>6, <2>1, <2>2, <2>4, SendTyped, Zenon DEF SendStore
<1>7. QED BY <1>2, <1>3, <1>4, <1>5, <1>6, Zenon DEF Send

\* What a step of the goroutine must show; the producers and closers are still.
LEMMA ProcessTyped ==
    ASSUME TypeInv, UNCHANGED <<head, sending, closing>>,
           buffer' \in [Slots -> Msgs \cup {None}], tail' \in Slots,
           wire' \in Seq(Msgs), released' \in [Msgs -> Nat],
           NEW r, ProcOK(r), proc' = r
    PROVE  TypeInv'
<1>1. TypeOK'
  BY DEF TypeInv, TypeOK, ProcOK, sending, closing
<1>2. CallsOK'
  BY DEF TypeInv, CallsOK, sending
<1>3. ProcOK(proc)'
  BY Zenon DEF ProcOK
<1>4. QED BY <1>1, <1>2, <1>3 DEF TypeInv

\* The goroutine's record, step by step.
LEMMA Turned ==
    ASSUME NEW a, ProcOK(a)
    PROVE  /\ a.pc = "select" =>
                 \A d \in BOOLEAN : ProcOK([a EXCEPT !.pc = "tail", !.draining = d])
           /\ a.pc = "tail" => \A t \in Slots : ProcOK([a EXCEPT !.pc = "head", !.tail = t])
           /\ a.pc = "head" =>
                 \A pc \in {"exited", "select", "load"}, n \in Nat :
                     n <= BatchSize => ProcOK([a EXCEPT !.pc = pc, !.i = 0, !.n = n])
           /\ a.pc = "load" => ProcOK([a EXCEPT !.pc = "advance"])
           /\ a.pc = "load" /\ a.i # a.n => ProcOK([a EXCEPT !.i = @ + 1])
           /\ a.pc = "clear" => ProcOK([a EXCEPT !.pc = "load", !.i = @ + 1])
           /\ a.pc = "advance" /\ a.batch = <<>> =>
                 \A pc \in {"exited", "select"} : ProcOK([a EXCEPT !.pc = pc])
           /\ a.pc = "advance" => ProcOK([a EXCEPT !.pc = "send", !.written = 0])
<1>1. ASSUME a.pc = "select", NEW d \in BOOLEAN
      PROVE  ProcOK([a EXCEPT !.pc = "tail", !.draining = d])
  BY <1>1 DEF ProcOK, Processor
<1>2. ASSUME a.pc = "tail", NEW t \in Slots PROVE ProcOK([a EXCEPT !.pc = "head", !.tail = t])
  BY <1>2 DEF ProcOK, Processor
<1>3. ASSUME a.pc = "head", NEW pc \in {"exited", "select", "load"}, NEW n \in Nat,
             n <= BatchSize
      PROVE  ProcOK([a EXCEPT !.pc = pc, !.i = 0, !.n = n])
  <2> DEFINE r == [a EXCEPT !.pc = pc, !.i = 0, !.n = n]
  <2>1. /\ r \in Processor /\ r.pc = pc /\ r.i = 0 /\ r.n = n /\ r.batch = a.batch
        /\ r.written = a.written
    BY <1>3 DEF ProcOK, Processor
  <2>2. a.batch = <<>> /\ a.written = 0
    BY <1>3 DEF ProcOK, Processor
  <2> HIDE DEF r
  <2>3. ProcOK(r)
    BY <1>3, <2>1, <2>2, BatchAssumption DEF ProcOK
  <2>4. QED BY <2>3 DEF r
<1>4. a.pc = "load" => ProcOK([a EXCEPT !.pc = "advance"])
  BY DEF ProcOK, Processor
<1>5. a.pc = "load" /\ a.i # a.n => ProcOK([a EXCEPT !.i = @ + 1])
  BY DEF ProcOK, Processor
<1>6. ASSUME a.pc = "clear" PROVE ProcOK([a EXCEPT !.pc = "load", !.i = @ + 1])
  <2> DEFINE r == [a EXCEPT !.pc = "load", !.i = @ + 1]
  <2>1. /\ r \in Processor /\ r.pc = "load" /\ r.i = a.i + 1 /\ r.n = a.n /\ r.batch = a.batch
        /\ r.written = a.written
    <3>1. a \in Processor /\ a.i + 1 \in Nat
      BY DEF ProcOK, Processor
    <3>2. r \in Processor
      BY <3>1 DEF Processor
    <3>3. r.pc = "load" /\ r.i = a.i + 1 /\ r.n = a.n /\ r.batch = a.batch /\ r.written = a.written
      BY <3>1 DEF Processor
    <3>4. QED BY <3>2, <3>3
  <2>2. a.i \in Nat /\ a.n \in Nat /\ Len(a.batch) \in Nat
    BY DEF ProcOK, Processor
  <2> HIDE DEF r
  <2>3. ProcOK(r)
    <3>1. /\ Len(r.batch) <= BatchSize /\ r.written <= Len(r.batch) /\ r.n <= BatchSize
          /\ r.written = 0
      BY <1>6, <2>1 DEF ProcOK
    <3>2. Len(r.batch) <= r.i /\ r.i <= r.n
      BY <1>6, <2>1, <2>2 DEF ProcOK
    <3>3. QED BY <2>1, <3>1, <3>2 DEF ProcOK
  <2>4. QED BY <2>3 DEF r
<1>7. ASSUME a.pc = "advance", a.batch = <<>>, NEW pc \in {"exited", "select"}
      PROVE  ProcOK([a EXCEPT !.pc = pc])
  BY <1>7 DEF ProcOK, Processor
<1>8. a.pc = "advance" => ProcOK([a EXCEPT !.pc = "send", !.written = 0])
  BY DEF ProcOK, Processor
<1>9. QED BY <1>1, <1>2, <1>3, <1>4, <1>5, <1>6, <1>7, <1>8, Zenon

\* A message is taken into the batch.
LEMMA Taken ==
    ASSUME NEW a, ProcOK(a), a.pc = "load", a.i # a.n, NEW m \in Msgs
    PROVE  ProcOK([a EXCEPT !.pc = "clear", !.batch = Append(@, m)])
<1> DEFINE b == Append(a.batch, m)
           r == [a EXCEPT !.pc = "clear", !.batch = b]
<1>1. /\ a.batch \in Seq(Msgs) /\ a.written = 0 /\ Len(a.batch) <= a.i
      /\ a.i < a.n /\ a.n <= BatchSize /\ a.i \in Nat /\ a.n \in Nat
  BY DEF ProcOK, Processor
<1>2. b \in Seq(Msgs) /\ Len(b) = Len(a.batch) + 1
  BY <1>1
<1>3. Len(a.batch) \in Nat
  BY <1>1
<1> HIDE DEF b
<1>4. Len(b) \in Nat /\ Len(b) <= BatchSize /\ Len(b) <= a.i + 1 /\ b # <<>>
  BY <1>1, <1>2, <1>3, BatchAssumption
<1>5. /\ r \in Processor /\ r.pc = "clear" /\ r.i = a.i /\ r.n = a.n /\ r.batch = b
      /\ r.written = 0
  BY <1>1, <1>2 DEF ProcOK, Processor
<1> HIDE DEF r
<1>6. ProcOK(r)
  BY <1>1, <1>4, <1>5 DEF ProcOK
<1>7. QED BY <1>6, Zenon DEF b, r

LEMMA CollectSteps ==
    ASSUME TypeInv,
           \/ Select \/ CollectTail \/ CollectHead \/ CollectLoad \/ CollectClear
           \/ CollectAdvance
    PROVE  TypeInv'
<1>1. /\ buffer \in [Slots -> Msgs \cup {None}] /\ tail \in Slots
      /\ wire \in Seq(Msgs) /\ released \in [Msgs -> Nat] /\ ProcOK(proc)
  BY DEF TypeInv, TypeOK
<1>2. ASSUME NEW r, ProcOK(r), proc' = r, UNCHANGED <<ring, sending, closing, output>>
      PROVE  TypeInv'
  BY <1>1, <1>2, ProcessTyped, Zenon DEF ring, output
<1>3. CASE Select
  <2>1. (done > 0) \in BOOLEAN
    OBVIOUS
  <2>2. ProcOK([proc EXCEPT !.pc = "tail", !.draining = (done > 0)])
    BY <1>1, <1>3, <2>1, Turned, Zenon DEF Select
  <2>3. QED BY <1>2, <1>3, <2>2, Zenon DEF Select
<1>4. CASE CollectTail
  BY <1>1, <1>2, <1>4, Turned, Zenon DEF CollectTail
<1>5. CASE CollectHead
  <2> DEFINE pc == IF Available = 0 THEN NothingCollected ELSE "load"
  <2>1. Available \in Nat /\ Available <= BatchSize
    <3> DEFINE n == (head + RingSize - proc.tail) % RingSize
    <3>1. n \in Nat
      BY <1>1, SlotType DEF TypeInv, TypeOK, ProcOK, Processor
    <3>2. Available = IF n > BatchSize THEN BatchSize ELSE n
      BY Zenon DEF Available
    <3> HIDE DEF n
    <3>3. QED BY <3>1, <3>2, BatchAssumption
  <2>2. pc \in {"exited", "select", "load"}
    BY DEF NothingCollected
  <2>3. /\ proc' = [proc EXCEPT !.pc = pc, !.i = 0, !.n = Available]
        /\ proc.pc = "head" /\ UNCHANGED <<ring, sending, closing, output>>
    BY <1>5, Zenon DEF CollectHead
  <2> HIDE DEF pc
  <2>4. QED BY <1>1, <1>2, <2>1, <2>2, <2>3, Turned, Zenon
<1>6. CASE CollectLoad
  <2> DEFINE slot == Succ(proc.tail, proc.i)
             m == buffer[slot]
  <2>1. proc.pc = "load" /\ UNCHANGED <<ring, sending, closing, output>>
    BY <1>6, Zenon DEF CollectLoad
  <2>2. slot \in Slots
    BY <1>1, SlotType DEF ProcOK, Processor
  <2>3. CASE proc.i = proc.n
    BY <1>1, <1>2, <1>6, <2>1, <2>3, Turned, Zenon DEF CollectLoad
  <2>4. CASE proc.i # proc.n /\ m = None
    BY <1>1, <1>2, <1>6, <2>1, <2>4, Turned, Zenon DEF CollectLoad
  <2>5. CASE proc.i # proc.n /\ m # None
    <3>1. m \in Msgs
      BY <1>1, <2>2, <2>5
    <3>2. proc' = [proc EXCEPT !.pc = "clear", !.batch = Append(@, m)]
      BY <1>6, <2>5, Zenon DEF CollectLoad
    <3>3. QED BY <1>1, <1>2, <2>1, <2>5, <3>1, <3>2, Taken, Zenon
  <2>6. QED BY <2>3, <2>4, <2>5
<1>7. CASE CollectClear
  <2> DEFINE slot == Succ(proc.tail, proc.i)
  <2>1. /\ proc.pc = "clear" /\ proc' = [proc EXCEPT !.pc = "load", !.i = @ + 1]
        /\ buffer' = [buffer EXCEPT ![slot] = None]
        /\ UNCHANGED <<head, tail, sending, closing, output>>
    BY <1>7, Zenon DEF CollectClear, Cleared
  <2>2. buffer' \in [Slots -> Msgs \cup {None}]
    BY <1>1, <2>1
  <2>3. QED BY <1>1, <2>1, <2>2, Turned, ProcessTyped, Zenon DEF output
<1>8. CASE CollectAdvance
  <2>1. proc.pc = "advance" /\ UNCHANGED <<buffer, head, sending, closing, output>>
    BY <1>8, Zenon DEF CollectAdvance
  <2>2. CASE proc.batch = <<>>
    <3>1. NothingCollected \in {"exited", "select"}
      BY DEF NothingCollected
    <3>2. proc' = [proc EXCEPT !.pc = NothingCollected] /\ tail' = tail
      BY <1>8, <2>2, Zenon DEF CollectAdvance
    <3>3. QED BY <1>1, <2>1, <2>2, <3>1, <3>2, Turned, ProcessTyped, Zenon DEF output
  <2>3. CASE proc.batch # <<>>
    <3>1. /\ proc' = [proc EXCEPT !.pc = "send", !.written = 0]
          /\ tail' = Succ(proc.tail, Len(proc.batch))
      BY <1>8, <2>3, Zenon DEF CollectAdvance
    <3>2. proc.tail \in Slots /\ Len(proc.batch) \in Nat
      BY <1>1 DEF ProcOK, Processor
    <3>3. tail' \in Slots
      BY <3>1, <3>2, SlotType, Zenon
    <3>4. QED BY <1>1, <2>1, <3>1, <3>3, Turned, ProcessTyped, Zenon DEF output
  <2>4. QED BY <2>2, <2>3
<1>9. QED BY <1>3, <1>4, <1>5, <1>6, <1>7, <1>8, Zenon

\* The end of a batch, and a message of it written.
LEMMA Sent ==
    ASSUME NEW a, ProcOK(a), a.pc = "send"
    PROVE  /\ \A pc \in {"tail", "select"} :
                 ProcOK([a EXCEPT !.pc = pc, !.batch = <<>>, !.written = 0])
           /\ a.written # Len(a.batch) => ProcOK([a EXCEPT !.written = @ + 1])
<1>1. ASSUME NEW pc \in {"tail", "select"}
      PROVE  ProcOK([a EXCEPT !.pc = pc, !.batch = <<>>, !.written = 0])
  <2> DEFINE r == [a EXCEPT !.pc = pc, !.batch = <<>>, !.written = 0]
  <2>1. a \in Processor /\ <<>> \in Seq(Msgs) /\ Len(<<>>) = 0
    BY DEF ProcOK
  <2>2. r \in Processor
    BY <2>1 DEF Processor
  <2>3. r.pc = pc /\ r.batch = <<>> /\ r.written = 0 /\ r.n = a.n
    BY <2>1 DEF Processor
  <2> HIDE DEF r
  <2>4. ProcOK(r)
    BY <2>2, <2>3, BatchAssumption DEF ProcOK
  <2>5. QED BY <2>4 DEF r
<1>2. ASSUME a.written # Len(a.batch) PROVE ProcOK([a EXCEPT !.written = @ + 1])
  BY <1>2 DEF ProcOK, Processor
<1>3. QED BY <1>1, <1>2, Zenon

LEMMA WriteSteps ==
    ASSUME TypeInv, Write \/ WriteFails \/ BatchEnds
    PROVE  TypeInv'
<1>1. /\ buffer \in [Slots -> Msgs \cup {None}] /\ tail \in Slots
      /\ wire \in Seq(Msgs) /\ released \in [Msgs -> Nat] /\ ProcOK(proc)
  BY DEF TypeInv, TypeOK
<1>2. proc.pc = "send" /\ UNCHANGED <<ring, sending, closing>>
  BY Zenon DEF Write, WriteFails, BatchEnds
<1>3. ASSUME proc' = AfterBatch, wire' = wire, released' \in [Msgs -> Nat] PROVE TypeInv'
  <2> DEFINE pc == IF proc.draining THEN "tail" ELSE "select"
  <2>1. pc \in {"tail", "select"}
    OBVIOUS
  <2>2. ProcOK([proc EXCEPT !.pc = pc, !.batch = <<>>, !.written = 0])
    BY <1>1, <1>2, <2>1, Sent, Zenon
  <2>3. QED BY <1>1, <1>2, <1>3, <2>2, ProcessTyped, Zenon DEF AfterBatch, ring
<1>4. CASE Write
  <2> DEFINE m == proc.batch[proc.written + 1]
  <2>1. m \in Msgs
    BY <1>1, <1>4 DEF Write, BatchWritten, ProcOK, Processor
  <2>2. /\ wire' = Append(wire, m) /\ released' = [released EXCEPT ![m] = @ + 1]
        /\ proc' = [proc EXCEPT !.written = @ + 1] /\ proc.written # Len(proc.batch)
    BY <1>4, Zenon DEF Write, BatchWritten
  <2> HIDE DEF m
  <2>3. wire' \in Seq(Msgs) /\ released' \in [Msgs -> Nat]
    BY <1>1, <2>1, <2>2
  <2>4. ProcOK([proc EXCEPT !.written = @ + 1])
    BY <1>1, <1>2, <2>2, Sent, Zenon
  <2>5. QED BY <1>1, <1>2, <2>2, <2>3, <2>4, ProcessTyped, Zenon DEF ring
<1>5. CASE WriteFails
  <2>1. released' \in [Msgs -> Nat]
    <3>1. \A m \in Msgs : released[m] \in Nat /\ released[m] + 1 \in Nat
      BY <1>1
    <3>2. QED BY <1>5, <3>1 DEF WriteFails
  <2>2. QED BY <1>3, <1>5, <2>1, Zenon DEF WriteFails
<1>6. CASE BatchEnds
  BY <1>1, <1>3, <1>6, Zenon DEF BatchEnds, output
<1>7. QED BY <1>4, <1>5, <1>6

LEMMA CloseSteps ==
    ASSUME TypeInv, NEW k \in Closers, Close(k) \/ CloseSwap(k)
    PROVE  TypeInv'
<1>1. UNCHANGED <<ring, sending, proc, output>>
  BY Zenon DEF Close, CloseDone, CloseReturn, CloseSwap
<1>2. active' \in BOOLEAN /\ done' \in Nat
  <2>1. active \in BOOLEAN /\ done \in Nat
    BY Zenon DEF TypeInv, TypeOK
  <2>2. (active' = active \/ active' = FALSE) /\ (done' = done \/ done' = done + 1)
    BY Zenon DEF Close, CloseDone, CloseReturn, CloseSwap, Tell
  <2>3. FALSE \in BOOLEAN /\ done + 1 \in Nat
    BY <2>1
  <2>4. QED BY <2>1, <2>2, <2>3, Zenon
<1>3. closer' \in [Closers -> {"idle", "swapped", "waiting", "returned"}]
  BY DEF TypeInv, TypeOK, Close, CloseDone, CloseReturn, CloseSwap
<1>4. TypeOK'
  BY <1>1, <1>2, <1>3 DEF TypeInv, TypeOK, ring, sending, output
<1>5. ProcOK(proc)' /\ CallsOK'
  BY <1>1 DEF TypeInv, ProcOK, CallsOK, sending
<1>6. QED BY <1>4, <1>5 DEF TypeInv

LEMMA InitTyped == Init => TypeInv
<1> SUFFICES ASSUME Init PROVE TypeInv
  OBVIOUS
<1>1. <<>> \in Seq(Msgs) /\ Len(<<>>) = 0
  OBVIOUS
<1>2. ProcOK(proc) /\ proc \in Processor
  BY <1>1, SlotType, BatchAssumption DEF Init, ProcOK, Processor
<1>3. CallsOK /\ call \in [Producers -> Call]
  BY SlotType DEF Init, CallsOK, Call
<1>4. TypeOK
  BY <1>1, <1>2, <1>3, SlotType DEF Init, TypeOK, ProcOK
<1>5. QED BY <1>2, <1>3, <1>4 DEF TypeInv

LEMMA TypeInvariant == Spec => []TypeInv
<1>1. ASSUME TypeInv, [Next]_vars PROVE TypeInv'
  <2>1. CASE UNCHANGED vars
    BY <1>1, <2>1 DEF vars, TypeInv, TypeOK, ProcOK, CallsOK
  <2>2. CASE Next
    BY <1>1, <2>2, SendSteps, CollectSteps, WriteSteps, CloseSteps, Zenon DEF Next, Process
  <2>3. QED BY <1>1, <2>1, <2>2
<1>2. QED BY <1>1, InitTyped, PTL DEF Spec

\* Every field has its type, no slot outside the ring is used and no batch is
\* larger than BatchSize, for any sizes of the two (collectBatch, sendBatch).
THEOREM TypeCorrect == Spec => []TypeOK
BY TypeInvariant, PTL DEF TypeInv

-----------------------------------------------------------------------------
(* Close. *)

\* The one call of Close that found the writer active closes done.
CloseInv ==
    /\ active => done = 0 /\ \A k \in Closers : closer[k] = "idle"
    /\ \A k \in Closers : closer[k] = "swapped" =>
          done = 0 /\ \A j \in Closers : closer[j] = "swapped" => j = k
    /\ done <= 1

\* However many goroutines call Close, the done channel is closed once: the
\* compare-and-swap of active lets one of them through.
THEOREM DoneOnce == Spec => []DoneClosedOnce
<1>1. Init => CloseInv
  BY DEF Init, CloseInv
<1>2. ASSUME TypeInv, CloseInv, [Next]_vars PROVE CloseInv'
  <2>1. closer \in [Closers -> {"idle", "swapped", "waiting", "returned"}] /\ done \in Nat
    BY <1>2 DEF TypeInv, TypeOK
  <2>2. CASE UNCHANGED closing
    BY <1>2, <2>2 DEF CloseInv, closing
  <2>3. ASSUME NEW k \in Closers, CloseSwap(k) PROVE CloseInv'
    BY <1>2, <2>1, <2>3 DEF CloseInv, CloseSwap
  <2>4. ASSUME NEW k \in Closers, CloseDone(k) PROVE CloseInv'
    BY <1>2, <2>1, <2>4 DEF CloseInv, CloseDone, Tell
  <2>5. ASSUME NEW k \in Closers, CloseReturn(k) PROVE CloseInv'
    BY <1>2, <2>1, <2>5 DEF CloseInv, CloseReturn
  <2>6. ASSUME NEW p \in Producers, Send(p) \/ \E m \in Msgs : SendCheck(p, m)
        PROVE  UNCHANGED closing
    BY <2>6, Zenon DEF Send, SendHead, SendTail, SendClaim, SendStore, SendCheck
  <2>7. Process => UNCHANGED closing
    BY Zenon DEF Process, Select, CollectTail, CollectHead, CollectLoad, CollectClear,
                 CollectAdvance, Write, WriteFails, BatchEnds
  <2>8. UNCHANGED vars => UNCHANGED closing
    BY DEF vars, closing
  <2>9. QED BY <1>2, <2>2, <2>3, <2>4, <2>5, <2>6, <2>7, <2>8, Zenon DEF Next, Close
<1>3. CloseInv => DoneClosedOnce
  BY DEF CloseInv, DoneClosedOnce
<1>4. QED BY <1>1, <1>2, <1>3, TypeInvariant, PTL DEF Spec

-----------------------------------------------------------------------------
(* Nothing is written twice. *)

\* A message is in one place: with one producer, in one slot, once in the batch
\* and once on the wire; in the ring and in the batch only between the load of
\* a slot and its clearing, in the batch and on the wire only once written.
CallsApart ==
    /\ \A p \in Producers : call[p].pc # "idle" => fate[call[p].msg] = "pending"
    /\ \A p, q \in Producers :
          call[p].pc # "idle" /\ call[q].pc # "idle" /\ call[p].msg = call[q].msg => p = q

RingApart ==
    /\ \A s \in Slots : buffer[s] # None => fate[buffer[s]] = "accepted"
    /\ \A s, t \in Slots : buffer[s] # None /\ buffer[s] = buffer[t] => s = t

BatchApart ==
    /\ \A k \in 1..Len(proc.batch) : fate[proc.batch[k]] = "accepted"
    /\ \A j, k \in 1..Len(proc.batch) : proc.batch[j] = proc.batch[k] => j = k
    /\ \A k \in 1..Len(proc.batch), s \in Slots :
          buffer[s] = proc.batch[k]
              => proc.pc = "clear" /\ s = Succ(proc.tail, proc.i)

WireApart ==
    /\ \A i \in 1..Len(wire) : fate[wire[i]] = "accepted"
    /\ \A i, j \in 1..Len(wire) : wire[i] = wire[j] => i = j
    /\ \A i \in 1..Len(wire), s \in Slots : buffer[s] # wire[i]
    /\ \A i \in 1..Len(wire), k \in 1..Len(proc.batch) :
          wire[i] = proc.batch[k] => k <= proc.written

OnceInv == CallsApart /\ RingApart /\ BatchApart /\ WireApart

\* A step that moves no message: a message that was accepted stays so.
LEMMA Unmoved ==
    ASSUME RingApart, BatchApart, WireApart, UNCHANGED <<buffer, proc, wire>>,
           \A m \in Msgs : fate[m] = "accepted" => fate'[m] = "accepted",
           TypeInv
    PROVE  RingApart' /\ BatchApart' /\ WireApart'
<1>1. /\ \A s \in Slots : buffer[s] # None => buffer[s] \in Msgs
      /\ \A k \in 1..Len(proc.batch) : proc.batch[k] \in Msgs
      /\ \A i \in 1..Len(wire) : wire[i] \in Msgs
  BY DEF TypeInv, TypeOK, ProcOK, Processor
<1>2. RingApart'
  BY <1>1, Zenon DEF RingApart
<1>3. BatchApart'
  BY <1>1, Zenon DEF BatchApart
<1>4. WireApart'
  BY <1>1, Zenon DEF WireApart
<1>5. QED BY <1>2, <1>3, <1>4

\* The end of a call of Send.
LEMMA ReturnApart ==
    ASSUME TypeInv, CallsApart, NEW p \in Producers, call[p].pc # "idle",
           NEW verdict \in {"accepted", "refused"}, Return(p, verdict)
    PROVE  /\ CallsApart'
           /\ \A m \in Msgs : fate[m] = "accepted" => fate'[m] = "accepted"
           /\ fate'[call[p].msg] = verdict
<1>1. call[p].msg \in Msgs /\ fate[call[p].msg] = "pending"
  BY DEF TypeInv, CallsOK, CallsApart
<1>2. \A m \in Msgs : fate'[m] = IF m = call[p].msg THEN verdict ELSE fate[m]
  BY DEF TypeInv, TypeOK, Return
<1>3. \A q \in Producers : IF q = p THEN call'[q].pc = "idle" ELSE call'[q] = call[q]
  BY DEF TypeInv, TypeOK, Return
<1>4. \A q \in Producers : call[q].pc # "idle" => call[q].msg \in Msgs
  BY DEF TypeInv, CallsOK
<1>5. CallsApart'
  BY <1>2, <1>3, <1>4 DEF CallsApart
<1>6. QED BY <1>1, <1>2, <1>5

\* A call of Send goes on.
LEMMA GoesOnApart ==
    ASSUME TypeInv, CallsApart, NEW p \in Producers, call[p].pc # "idle", fate' = fate,
           NEW r, r.msg = call[p].msg, call' = [call EXCEPT ![p] = r]
    PROVE  CallsApart'
<1>1. \A q \in Producers : call'[q] = IF q = p THEN r ELSE call[q]
  BY DEF TypeInv, TypeOK
<1>2. QED BY <1>1 DEF CallsApart

LEMMA SendApart ==
    ASSUME TypeInv, OnceInv, NEW p \in Producers, Send(p) \/ \E m \in Msgs : SendCheck(p, m)
    PROVE  OnceInv'
<1>1. CallsApart /\ RingApart /\ BatchApart /\ WireApart
  BY DEF OnceInv
<1>2. /\ call[p] \in Call /\ call \in [Producers -> Call]
      /\ fate \in [Msgs -> {"new", "pending", "accepted", "refused"}]
  BY DEF TypeInv, TypeOK
<1>3. \A q \in Producers : call[q].pc # "idle" => call[q].msg \in Msgs
  BY DEF TypeInv, CallsOK
\* The ring stays as it is.
<1>4. ASSUME UNCHANGED <<buffer, proc, wire>>, CallsApart',
             \A m \in Msgs : fate[m] = "accepted" => fate'[m] = "accepted"
      PROVE  OnceInv'
  BY <1>1, <1>4, Unmoved, Zenon DEF OnceInv
<1>5. ASSUME NEW r, r.msg = call[p].msg, call[p].pc # "idle", fate' = fate,
             call' = [call EXCEPT ![p] = r], UNCHANGED <<buffer, proc, wire>>
      PROVE  OnceInv'
  BY <1>1, <1>4, <1>5, GoesOnApart, Zenon
<1>6. ASSUME call[p].pc # "idle", Return(p, "refused"), UNCHANGED <<buffer, proc, wire>>
      PROVE  OnceInv'
  BY <1>1, <1>4, <1>6, ReturnApart, Zenon
<1>7. \A pc : [call[p] EXCEPT !.pc = pc].msg = call[p].msg
  BY <1>2 DEF Call
<1>8. ASSUME NEW m \in Msgs, SendCheck(p, m) PROVE OnceInv'
  <2>1. call[p].pc = "idle" /\ fate[m] = "new" /\ UNCHANGED <<buffer, proc, wire>>
    BY <1>8, Zenon DEF SendCheck, ring, output
  <2>2. CASE active
    <3> DEFINE r == [call[p] EXCEPT !.pc = "loop", !.msg = m]
    <3>1. call' = [call EXCEPT ![p] = r] /\ fate' = [fate EXCEPT ![m] = "pending"]
      BY <1>8, <2>2, Zenon DEF SendCheck
    <3>2. r.msg = m
      BY <1>2 DEF Call
    <3> HIDE DEF r
    <3>3. \A q \in Producers : call'[q] = IF q = p THEN r ELSE call[q]
      BY <1>2, <3>1
    <3>4. \A x \in Msgs : fate'[x] = IF x = m THEN "pending" ELSE fate[x]
      BY <1>2, <3>1
    <3>5. CallsApart'
      BY <1>1, <1>3, <2>1, <3>2, <3>3, <3>4 DEF CallsApart
    <3>6. \A x \in Msgs : fate[x] = "accepted" => fate'[x] = "accepted"
      BY <2>1, <3>4
    <3>7. QED BY <1>4, <2>1, <3>5, <3>6, Zenon
  <2>3. CASE ~active
    <3>1. call' = call /\ fate' = [fate EXCEPT ![m] = "refused"]
      BY <1>8, <2>3, Zenon DEF SendCheck
    <3>2. \A x \in Msgs : fate'[x] = IF x = m THEN "refused" ELSE fate[x]
      BY <1>2, <3>1
    <3>3. CallsApart'
      BY <1>1, <1>3, <2>1, <3>1, <3>2 DEF CallsApart
    <3>4. \A x \in Msgs : fate[x] = "accepted" => fate'[x] = "accepted"
      BY <2>1, <3>2
    <3>5. QED BY <1>4, <2>1, <3>3, <3>4, Zenon
  <2>4. QED BY <2>2, <2>3
<1>9. CASE SendHead(p)
  <2> DEFINE r == [call[p] EXCEPT !.pc = "tail", !.head = head]
  <2>1. r.msg = call[p].msg
    BY <1>2 DEF Call
  <2>2. /\ call[p].pc = "loop" /\ call' = [call EXCEPT ![p] = r] /\ fate' = fate
        /\ UNCHANGED <<buffer, proc, wire>>
    BY <1>9, Zenon DEF SendHead, ring, output
  <2> HIDE DEF r
  <2>3. call[p].pc # "idle"
    BY <2>2
  <2>4. QED BY <1>5, <2>1, <2>2, <2>3, Zenon
<1>10. CASE SendTail(p)
  <2>1. call[p].pc = "tail" /\ UNCHANGED <<buffer, proc, wire>>
    BY <1>10, Zenon DEF SendTail, ring, output
  <2>2. call[p].pc # "idle"
    BY <2>1
  <2>3. \/ Return(p, "refused")
        \/ \E pc : call' = [call EXCEPT ![p] = [call[p] EXCEPT !.pc = pc]] /\ fate' = fate
    BY <1>10, Zenon DEF SendTail
  <2>4. QED BY <1>5, <1>6, <1>7, <2>1, <2>2, <2>3, Zenon
<1>11. CASE SendClaim(p)
  <2>1. call[p].pc = "claim" /\ UNCHANGED <<buffer, proc, wire>>
    BY <1>11, Zenon DEF SendClaim, output
  <2>2. call[p].pc # "idle"
    BY <2>1
  <2>3. \/ Return(p, "refused")
        \/ \E pc : call' = [call EXCEPT ![p] = [call[p] EXCEPT !.pc = pc]] /\ fate' = fate
    BY <1>11, Zenon DEF SendClaim
  <2>4. QED BY <1>5, <1>6, <1>7, <2>1, <2>2, <2>3, Zenon
\* The message of p is stored: it was nowhere, being pending.
<1>12. CASE SendStore(p)
  <2> DEFINE m == call[p].msg
             slot == call[p].head
  <2>1. /\ call[p].pc = "store" /\ Return(p, "accepted") /\ UNCHANGED <<proc, wire>>
        /\ buffer' = [buffer EXCEPT ![slot] = m]
    BY <1>12, Zenon DEF SendStore, output
  <2>2. call[p].pc # "idle" /\ m \in Msgs /\ fate[m] = "pending" /\ slot \in Slots
    BY <1>1, <1>2, <1>3, <2>1 DEF CallsApart, Call
  <2>3. /\ CallsApart' /\ fate'[m] = "accepted"
        /\ \A x \in Msgs : fate[x] = "accepted" => fate'[x] = "accepted"
    BY <1>1, <2>1, <2>2, ReturnApart, Zenon
  <2>4. \A s \in Slots : buffer'[s] = IF s = slot THEN m ELSE buffer[s]
    BY <2>1 DEF TypeInv, TypeOK
  <2>5. /\ \A s \in Slots : buffer[s] # None => buffer[s] \in Msgs /\ buffer[s] # m
        /\ \A k \in 1..Len(proc.batch) : proc.batch[k] \in Msgs /\ proc.batch[k] # m
        /\ \A i \in 1..Len(wire) : wire[i] \in Msgs /\ wire[i] # m
    BY <1>1, <2>2 DEF TypeInv, TypeOK, ProcOK, Processor, RingApart, BatchApart, WireApart
  <2>6. m # None
    BY <2>2, BatchAssumption
  <2> HIDE DEF m, slot
  <2>7. RingApart'
    BY <1>1, <2>3, <2>4, <2>5, <2>6 DEF RingApart
  <2>8. BatchApart'
    <3>1. \A k \in 1..Len(proc.batch), s \in Slots :
             buffer'[s] = proc.batch[k] => proc.pc = "clear" /\ s = Succ(proc.tail, proc.i)
      BY <1>1, <2>4, <2>5 DEF BatchApart
    <3>2. QED BY <1>1, <2>1, <2>3, <2>5, <3>1, Zenon DEF BatchApart
  <2>9. WireApart'
    <3>1. \A i \in 1..Len(wire), s \in Slots : buffer'[s] # wire[i]
      BY <1>1, <2>4, <2>5, Zenon DEF WireApart
    <3>2. QED BY <1>1, <2>1, <2>3, <2>5, <3>1, Zenon DEF WireApart
  <2>10. QED BY <2>3, <2>7, <2>8, <2>9 DEF OnceInv
<1>13. QED BY <1>8, <1>9, <1>10, <1>11, <1>12, Zenon DEF Send

LEMMA ProcessApart ==
    ASSUME TypeInv, OnceInv, Process
    PROVE  OnceInv'
<1>1. CallsApart /\ RingApart /\ BatchApart /\ WireApart /\ UNCHANGED sending
  BY Zenon DEF OnceInv, Process, Select, CollectTail, CollectHead, CollectLoad, CollectClear,
               CollectAdvance, Write, WriteFails, BatchEnds
<1>2. CallsApart'
  BY <1>1 DEF CallsApart, sending
<1>3. /\ ProcOK(proc) /\ proc \in Processor /\ proc.batch \in Seq(Msgs) /\ wire \in Seq(Msgs)
      /\ buffer \in [Slots -> Msgs \cup {None}] /\ fate' = fate
  BY <1>1 DEF TypeInv, TypeOK, ProcOK, Processor, sending
\* Neither the batch nor the ring changes, and no slot is between its load and
\* its clearing.
<1>4. ASSUME NEW r, proc' = r, r.batch = proc.batch, r.written = proc.written,
             proc.pc # "clear", UNCHANGED <<buffer, wire>>
      PROVE  OnceInv'
  <2>1. BatchApart'
    BY <1>1, <1>3, <1>4 DEF BatchApart
  <2>2. WireApart'
    BY <1>1, <1>3, <1>4 DEF WireApart
  <2>3. RingApart'
    BY <1>1, <1>3, <1>4 DEF RingApart
  <2>4. QED BY <1>2, <2>1, <2>2, <2>3 DEF OnceInv
<1>5. ASSUME NEW r, proc' = r, r.batch = <<>>, UNCHANGED <<buffer, wire>> PROVE OnceInv'
  <2>1. 1..Len(proc'.batch) = {}
    BY <1>5
  <2>2. BatchApart' /\ RingApart'
    BY <1>1, <1>3, <1>5, <2>1, Zenon DEF BatchApart, RingApart
  <2>3. WireApart'
    BY <1>1, <1>3, <1>5, <2>1, Zenon DEF WireApart
  <2>4. QED BY <1>2, <2>2, <2>3 DEF OnceInv
<1>6. CASE Select \/ CollectTail \/ CollectHead \/ CollectAdvance
  <2>1. /\ proc.pc # "clear" /\ UNCHANGED <<buffer, wire>>
        /\ proc'.batch = proc.batch /\ proc'.written = proc.written
    <3>1. CASE Select
      BY <1>3, <3>1 DEF Select, Processor, ring, output
    <3>2. CASE CollectTail
      BY <1>3, <3>2 DEF CollectTail, Processor, ring, output
    <3>3. CASE CollectHead
      <4>1. \E x, y : proc' = [proc EXCEPT !.pc = x, !.i = 0, !.n = y]
        BY <3>3, Zenon DEF CollectHead
      <4>2. proc.pc = "head" /\ UNCHANGED <<buffer, wire>>
        BY <3>3, Zenon DEF CollectHead, ring, output
      <4>3. QED BY <1>3, <4>1, <4>2 DEF Processor
    <3>4. CASE CollectAdvance
      <4>1. \/ \E x : proc' = [proc EXCEPT !.pc = x]
            \/ proc' = [proc EXCEPT !.pc = "send", !.written = 0]
        BY <3>4, Zenon DEF CollectAdvance
      <4>2. proc.pc = "advance" /\ UNCHANGED <<buffer, wire>>
        BY <3>4, Zenon DEF CollectAdvance, output
      <4>3. proc.written = 0
        BY <1>3, <4>2 DEF ProcOK
      <4>4. QED BY <1>3, <4>1, <4>2, <4>3 DEF Processor
    <3>5. QED BY <1>6, <3>1, <3>2, <3>3, <3>4
  <2>2. QED BY <1>4, <2>1, Zenon
<1>7. CASE CollectLoad
  <2> DEFINE slot == Succ(proc.tail, proc.i)
             m == buffer[slot]
  <2>1. proc.pc = "load" /\ UNCHANGED <<buffer, wire>>
    BY <1>7, Zenon DEF CollectLoad, ring, output
  <2>2. slot \in Slots
    BY <1>3, SlotType DEF Processor
  <2>3. CASE proc.i = proc.n \/ m = None
    <3>1. \/ proc' = [proc EXCEPT !.pc = "advance"]
          \/ proc' = [proc EXCEPT !.i = @ + 1]
      BY <1>7, <2>3, Zenon DEF CollectLoad
    <3>2. proc'.batch = proc.batch /\ proc'.written = proc.written
      BY <1>3, <3>1 DEF Processor
    <3>3. proc.pc # "clear"
      BY <2>1
    <3>4. QED BY <1>4, <2>1, <3>2, <3>3, Zenon
  \* The message of the slot is in the batch too, until the slot is cleared.
  <2>4. CASE proc.i # proc.n /\ m # None
    <3>1. m \in Msgs /\ fate[m] = "accepted"
      BY <1>1, <1>3, <2>2, <2>4 DEF RingApart
    <3>2. proc' = [proc EXCEPT !.pc = "clear", !.batch = Append(@, m)]
      BY <1>7, <2>4, Zenon DEF CollectLoad
    <3>3. /\ \A s \in Slots : buffer[s] = m => s = slot
          /\ \A k \in 1..Len(proc.batch) : proc.batch[k] # m
          /\ \A k \in 1..Len(proc.batch), s \in Slots : proc.batch[k] # buffer[s]
          /\ \A i \in 1..Len(wire) : wire[i] # m
      BY <1>1, <2>1, <2>2, <2>4 DEF RingApart, BatchApart, WireApart
    <3> HIDE DEF m, slot
    <3>4. /\ proc'.pc = "clear" /\ proc'.tail = proc.tail /\ proc'.i = proc.i
          /\ proc'.batch = Append(proc.batch, m) /\ proc'.written = proc.written
      BY <1>3, <3>2 DEF Processor
    <3> DEFINE N == Len(proc.batch)
    <3>5. /\ N \in Nat /\ Len(proc'.batch) = N + 1 /\ proc'.batch[N + 1] = m
          /\ \A k \in 1..N : proc'.batch[k] = proc.batch[k]
      BY <1>3, <3>1, <3>4
    <3>6. \A k \in 1..Len(proc'.batch) : k = N + 1 \/ k \in 1..N
      BY <3>5
    <3> HIDE DEF N
    <3>7. BatchApart'
      <4>1. \A k \in 1..Len(proc'.batch) : fate'[proc'.batch[k]] = "accepted"
        BY <1>1, <1>3, <3>1, <3>5, <3>6, Zenon DEF BatchApart, N
      <4>2. \A j, k \in 1..Len(proc'.batch) : proc'.batch[j] = proc'.batch[k] => j = k
        BY <1>1, <3>3, <3>5, <3>6, Zenon DEF BatchApart, N
      <4>3. \A k \in 1..Len(proc'.batch), s \in Slots : buffer[s] = proc'.batch[k] => s = slot
        BY <3>3, <3>5, <3>6, Zenon DEF N
      <4>4. QED BY <2>1, <3>4, <4>1, <4>2, <4>3, Zenon DEF BatchApart, slot
    <3>8. WireApart'
      <4>1. \A i \in 1..Len(wire), k \in 1..Len(proc'.batch) :
               wire[i] = proc'.batch[k] => k <= proc'.written
        BY <1>1, <3>3, <3>4, <3>5, <3>6, Zenon DEF WireApart, N
      <4>2. QED BY <1>1, <1>3, <2>1, <4>1, Zenon DEF WireApart
    <3>9. RingApart'
      BY <1>1, <1>3, <2>1, Zenon DEF RingApart
    <3>10. QED BY <1>2, <3>7, <3>8, <3>9 DEF OnceInv
  <2>5. QED BY <2>3, <2>4
<1>8. CASE CollectClear
  <2> DEFINE slot == Succ(proc.tail, proc.i)
  <2>1. /\ wire' = wire /\ proc' = [proc EXCEPT !.pc = "load", !.i = @ + 1]
        /\ buffer' = [buffer EXCEPT ![slot] = None]
    BY <1>8, Zenon DEF CollectClear, Cleared, output
  <2>2. proc'.batch = proc.batch /\ proc'.written = proc.written
    BY <1>3, <2>1 DEF Processor
  <2>3. \A s \in Slots : buffer'[s] = IF s = slot THEN None ELSE buffer[s]
    BY <1>3, <2>1
  <2>4. /\ \A k \in 1..Len(proc.batch) : proc.batch[k] # None
        /\ \A i \in 1..Len(wire) : wire[i] # None
    BY <1>3, BatchAssumption
  <2>5. RingApart'
    BY <1>1, <1>3, <2>3 DEF RingApart
  <2>6. BatchApart'
    <3>1. \A k \in 1..Len(proc.batch), s \in Slots : buffer'[s] # proc.batch[k]
      BY <1>1, <2>3, <2>4 DEF BatchApart
    <3>2. QED BY <1>1, <1>3, <2>2, <3>1, Zenon DEF BatchApart
  <2>7. WireApart'
    <3>1. \A i \in 1..Len(wire), s \in Slots : buffer'[s] # wire[i]
      BY <1>1, <2>3, <2>4, Zenon DEF WireApart
    <3>2. QED BY <1>1, <1>3, <2>1, <2>2, <3>1, Zenon DEF WireApart
  <2>8. QED BY <1>2, <2>5, <2>6, <2>7 DEF OnceInv
<1>9. CASE Write
  <2> DEFINE w == proc.written + 1
             m == proc.batch[w]
             N == Len(wire)
  <2>1. /\ proc.pc = "send" /\ buffer' = buffer /\ wire' = Append(wire, m)
        /\ proc' = [proc EXCEPT !.written = @ + 1] /\ proc.written # Len(proc.batch)
    BY <1>9, Zenon DEF Write, BatchWritten, ring
  <2>2. w \in 1..Len(proc.batch) /\ m \in Msgs /\ proc.written \in Nat
    BY <1>3, <2>1 DEF ProcOK, Processor
  <2>3. proc'.batch = proc.batch /\ proc'.written = w
    BY <1>3, <2>1 DEF Processor
  <2>4. fate[m] = "accepted" /\ \A s \in Slots : buffer[s] # m
    BY <1>1, <2>1, <2>2 DEF BatchApart
  <2>5. \A i \in 1..N : wire[i] # m
    BY <1>1, <2>2 DEF WireApart
  <2>6. \A k \in 1..Len(proc.batch) : proc.batch[k] = m => k = w
    BY <1>1, <2>2, Zenon DEF BatchApart
  <2> HIDE DEF m
  <2>7. /\ N \in Nat /\ Len(wire') = N + 1 /\ wire'[N + 1] = m
        /\ \A i \in 1..N : wire'[i] = wire[i]
    BY <1>3, <2>1, <2>2
  <2>8. \A i \in 1..Len(wire') : i = N + 1 \/ i \in 1..N
    BY <2>7
  <2>9. \A k \in 1..Len(proc.batch) : k <= proc.written => k <= w
    BY <2>2
  <2>10. w <= w
    BY <2>2
  <2> HIDE DEF w, N
  <2>11. BatchApart' /\ RingApart'
    <3>1. BatchApart'
      BY <1>1, <1>3, <2>1, <2>3 DEF BatchApart
    <3>2. RingApart'
      BY <1>1, <1>3, <2>1 DEF RingApart
    <3>3. QED BY <3>1, <3>2
  <2>12. WireApart'
    <3>1. \A i \in 1..Len(wire') : fate'[wire'[i]] = "accepted"
      BY <1>1, <1>3, <2>4, <2>7, <2>8, Zenon DEF WireApart, N
    <3>2. \A i, j \in 1..Len(wire') : wire'[i] = wire'[j] => i = j
      BY <1>1, <2>5, <2>7, <2>8, Zenon DEF WireApart, N
    <3>3. \A i \in 1..Len(wire'), s \in Slots : buffer[s] # wire'[i]
      BY <1>1, <2>4, <2>7, <2>8, Zenon DEF WireApart, N
    <3>4. \A i \in 1..Len(wire'), k \in 1..Len(proc.batch) : wire'[i] = proc.batch[k] => k <= w
      BY <1>1, <2>6, <2>7, <2>8, <2>9, <2>10, Zenon DEF WireApart, N
    <3>5. QED BY <2>1, <2>3, <3>1, <3>2, <3>3, <3>4 DEF WireApart
  <2>13. QED BY <1>2, <2>11, <2>12 DEF OnceInv
<1>10. CASE WriteFails \/ BatchEnds
  <2>1. UNCHANGED <<buffer, wire>> /\ proc' = AfterBatch
    BY <1>10, Zenon DEF WriteFails, BatchEnds, ring, output
  <2>2. AfterBatch.batch = <<>>
    BY <1>3 DEF AfterBatch, Processor
  <2>3. QED BY <1>5, <2>1, <2>2, Zenon
<1>11. QED BY <1>6, <1>7, <1>8, <1>9, <1>10 DEF Process

LEMMA OnceHolds == Spec => []OnceInv
<1>1. Init => OnceInv
  BY DEF Init, OnceInv, CallsApart, RingApart, BatchApart, WireApart
<1>2. ASSUME TypeInv, OnceInv, [Next]_vars PROVE OnceInv'
  <2>1. CASE UNCHANGED <<buffer, fate, call, proc, wire>>
    BY <1>2, <2>1, Zenon DEF OnceInv, CallsApart, RingApart, BatchApart, WireApart
  <2>2. ASSUME NEW k \in Closers, Close(k) \/ CloseSwap(k)
        PROVE  UNCHANGED <<buffer, fate, call, proc, wire>>
    BY <2>2, Zenon DEF Close, CloseDone, CloseReturn, CloseSwap, ring, sending, output
  <2>3. UNCHANGED vars => UNCHANGED <<buffer, fate, call, proc, wire>>
    BY DEF vars
  <2>4. QED BY <1>2, <2>1, <2>2, <2>3, SendApart, ProcessApart, Zenon DEF Next
<1>3. QED BY <1>1, <1>2, TypeInvariant, PTL DEF Spec

\* No message is written to the socket twice, whatever the producers do at once
\* and wherever the goroutine stands between the load of a slot, its clearing
\* and the move of the tail (collectBatch, sendBatch).
THEOREM NeverTwice == Spec => []WrittenOnce
<1>1. TypeInv /\ OnceInv => WrittenOnce
  <2> SUFFICES ASSUME TypeInv, OnceInv PROVE WrittenOnce
    OBVIOUS
  <2>1. wire \in Seq(Msgs)
    BY Zenon DEF TypeInv, TypeOK
  <2>2. DOMAIN wire = 1..Len(wire)
    BY <2>1
  <2>3. QED BY <2>2, Zenon DEF OnceInv, WireApart, WrittenOnce
<1>2. QED BY <1>1, OnceHolds, TypeInvariant, PTL

-----------------------------------------------------------------------------
(* The ring: slots counted from the tail. *)

\* Head is ahead of tail by this.
Ahead(h, t) == (h + RingSize - t) % RingSize

LEMMA Wrapped ==
    /\ \A t \in Slots, k \in 0..RingSize :
          Succ(t, k) = IF t + k < RingSize THEN t + k ELSE t + k - RingSize
    /\ \A h, t \in Slots : Ahead(h, t) = IF h >= t THEN h - t ELSE h + RingSize - t
<1>1. ASSUME NEW a \in Nat, a < 2 * RingSize
      PROVE  a % RingSize = IF a < RingSize THEN a ELSE a - RingSize
  <2>1. CASE a < RingSize
    BY <1>1, <2>1, BatchAssumption
  <2>2. CASE a >= RingSize
    BY <1>1, <2>2, BatchAssumption
  <2>3. QED BY <2>1, <2>2, BatchAssumption
<1>2. ASSUME NEW t \in Slots, NEW k \in 0..RingSize
      PROVE  Succ(t, k) = IF t + k < RingSize THEN t + k ELSE t + k - RingSize
  <2> DEFINE a == t + k
  <2>1. a \in Nat /\ a < 2 * RingSize
    BY BatchAssumption DEF Slots
  <2>2. Succ(t, k) = a % RingSize
    BY DEF Succ
  <2> HIDE DEF a
  <2>3. Succ(t, k) = IF a < RingSize THEN a ELSE a - RingSize
    BY <1>1, <2>1, <2>2
  <2>4. QED BY <2>3, BatchAssumption DEF a, Slots
<1>3. ASSUME NEW h \in Slots, NEW t \in Slots
      PROVE  Ahead(h, t) = IF h >= t THEN h - t ELSE h + RingSize - t
  <2> DEFINE a == h + RingSize - t
  <2>1. a \in Nat /\ a < 2 * RingSize
    BY BatchAssumption DEF Slots
  <2>2. Ahead(h, t) = a % RingSize
    BY DEF Ahead
  <2> HIDE DEF a
  <2>3. Ahead(h, t) = IF a < RingSize THEN a ELSE a - RingSize
    BY <1>1, <2>1, <2>2
  <2>4. QED BY <2>3, BatchAssumption DEF a, Slots
<1>4. QED BY <1>2, <1>3

\* No two of RingSize slots are one, and two steps along the ring are one.
LEMMA Around ==
    ASSUME NEW t \in Slots
    PROVE  /\ \A j, k \in 0..(RingSize - 1) : Succ(t, j) = Succ(t, k) => j = k
           /\ \A j \in 0..(RingSize - 1), k \in 0..(RingSize - 1) :
                 /\ Succ(t, j) \in Slots
                 /\ j + k < RingSize => Succ(Succ(t, j), k) = Succ(t, j + k)
                 /\ j + k >= RingSize => Succ(Succ(t, j), k) = Succ(t, j + k - RingSize)
<1>1. RingSize \in Nat /\ t \in 0..(RingSize - 1)
  BY BatchAssumption DEF Slots
<1>2. \A s \in Slots, k \in 0..RingSize :
          Succ(s, k) = IF s + k < RingSize THEN s + k ELSE s + k - RingSize
  BY Wrapped
<1>3. ASSUME NEW j \in 0..(RingSize - 1), NEW k \in 0..(RingSize - 1)
      PROVE  /\ Succ(t, j) = Succ(t, k) => j = k
             /\ Succ(t, j) \in Slots
             /\ j + k < RingSize => Succ(Succ(t, j), k) = Succ(t, j + k)
             /\ j + k >= RingSize => Succ(Succ(t, j), k) = Succ(t, j + k - RingSize)
  <2>1. /\ Succ(t, j) = IF t + j < RingSize THEN t + j ELSE t + j - RingSize
        /\ Succ(t, k) = IF t + k < RingSize THEN t + k ELSE t + k - RingSize
    BY <1>1, <1>2
  <2>2. Succ(t, j) \in Slots
    BY <1>1, <2>1 DEF Slots
  <2>3. Succ(Succ(t, j), k) = IF Succ(t, j) + k < RingSize THEN Succ(t, j) + k
                              ELSE Succ(t, j) + k - RingSize
    BY <1>1, <1>2, <2>2
  <2>4. ASSUME j + k < RingSize PROVE Succ(Succ(t, j), k) = Succ(t, j + k)
    <3>1. Succ(t, j + k) = IF t + (j + k) < RingSize THEN t + (j + k) ELSE t + (j + k) - RingSize
      BY <1>1, <1>2, <2>4
    <3>2. QED BY <1>1, <2>1, <2>3, <2>4, <3>1
  <2>5. ASSUME j + k >= RingSize PROVE Succ(Succ(t, j), k) = Succ(t, j + k - RingSize)
    <3>1. Succ(t, j + k - RingSize) = IF t + (j + k - RingSize) < RingSize
                                      THEN t + (j + k - RingSize)
                                      ELSE t + (j + k - RingSize) - RingSize
      BY <1>1, <1>2, <2>5
    <3>2. QED BY <1>1, <2>1, <2>3, <2>5, <3>1
  <2>6. QED BY <1>1, <2>1, <2>2, <2>4, <2>5
<1>4. QED BY <1>3

\* How far head is ahead, as either moves.
LEMMA Distance ==
    ASSUME NEW h \in Slots, NEW t \in Slots
    PROVE  /\ Ahead(h, t) \in 0..(RingSize - 1) /\ Succ(t, Ahead(h, t)) = h
           /\ Succ(h, 1) # t => Ahead(h, t) < RingSize - 1
           /\ Ahead(h, t) < RingSize - 1 => Ahead(Succ(h, 1), t) = Ahead(h, t) + 1
           /\ \A n \in 0..Ahead(h, t) : Ahead(h, Succ(t, n)) = Ahead(h, t) - n
<1>1. RingSize \in Nat /\ 1 < RingSize /\ t \in 0..(RingSize - 1) /\ h \in 0..(RingSize - 1)
  BY BatchAssumption DEF Slots
<1>2. Ahead(h, t) = IF h >= t THEN h - t ELSE h + RingSize - t
  BY Wrapped
<1>3. Ahead(h, t) \in 0..(RingSize - 1)
  BY <1>1, <1>2
<1>4. \A k \in 0..RingSize : Succ(t, k) = IF t + k < RingSize THEN t + k ELSE t + k - RingSize
  BY Wrapped
<1>5. Succ(t, Ahead(h, t)) = h
  BY <1>1, <1>2, <1>3, <1>4
<1>6. Succ(h, 1) = (IF h + 1 < RingSize THEN h + 1 ELSE 0) /\ Succ(h, 1) \in Slots
  BY <1>1, Wrapped DEF Slots
<1>7. Succ(h, 1) # t => Ahead(h, t) < RingSize - 1
  BY <1>1, <1>2, <1>6
<1>8. ASSUME Ahead(h, t) < RingSize - 1 PROVE Ahead(Succ(h, 1), t) = Ahead(h, t) + 1
  <2>1. Ahead(Succ(h, 1), t) = IF Succ(h, 1) >= t THEN Succ(h, 1) - t ELSE Succ(h, 1) + RingSize - t
    BY <1>6, Wrapped
  <2>2. QED BY <1>1, <1>2, <1>6, <1>8, <2>1
<1>9. ASSUME NEW n \in 0..Ahead(h, t) PROVE Ahead(h, Succ(t, n)) = Ahead(h, t) - n
  <2>1. Succ(t, n) = (IF t + n < RingSize THEN t + n ELSE t + n - RingSize) /\ Succ(t, n) \in Slots
    BY <1>1, <1>3, <1>4 DEF Slots
  <2>2. Ahead(h, Succ(t, n)) = IF h >= Succ(t, n) THEN h - Succ(t, n) ELSE h + RingSize - Succ(t, n)
    BY <2>1, Wrapped
  <2>3. QED BY <1>1, <1>2, <1>3, <2>1, <2>2
<1>10. QED BY <1>3, <1>5, <1>7, <1>8, <1>9
-----------------------------------------------------------------------------
(* The ring with a single producer *)

\* The theorem on the order is about a writer with one producer.
OneProducer == \A p, q \in Producers : p = q

Span == Ahead(head, tail)
Claimed == \E p \in Producers : call[p].pc = "store"

\* A producer has read the head that is, has room when it claims, and its
\* claimed slot is the last one before the head.
CallsInRing ==
    \A p \in Producers :
        /\ call[p].pc \in {"tail", "claim"} => call[p].head = head
        /\ call[p].pc = "claim" => Span < RingSize - 1
        /\ call[p].pc = "store" => Span >= 1 /\ call[p].head = Succ(tail, Span - 1)

\* collectBatch takes the slots in their order, and passes over one only when
\* it is the last.
ProcInRing ==
    /\ proc.pc \in {"head", "load", "clear", "advance"} => proc.tail = tail
    /\ proc.pc \in {"load", "clear"} => proc.n <= Span
    /\ proc.pc = "load" => proc.i = Len(proc.batch) \/ proc.i = proc.n
    /\ proc.pc = "clear" => Len(proc.batch) = proc.i + 1
    /\ Loaded <= Stored

\* The slots that hold a message, counted from the tail.
Held(k) == (Loaded <= k /\ k < Stored) \/ (proc.pc = "clear" /\ k = proc.i)

RingHolds == \A k \in 0..(RingSize - 1) : buffer[Succ(tail, k)] # None <=> Held(k)

FifoInv == CallsInRing /\ ProcInRing /\ RingHolds

LEMMA RingFacts ==
    /\ Stored = Span - (IF Claimed THEN 1 ELSE 0)
    /\ TypeInv => /\ Span \in 0..(RingSize - 1) /\ Stored \in Int /\ Stored < RingSize
                  /\ Loaded \in Nat /\ RingSize \in Nat /\ proc \in Processor
                  /\ head \in Slots /\ tail \in Slots
<1>1. Stored = Span - (IF Claimed THEN 1 ELSE 0)
  BY Zenon DEF Stored, Span, Ahead, Claimed
<1>2. ASSUME TypeInv
      PROVE  /\ Span \in 0..(RingSize - 1) /\ Loaded \in Nat /\ proc \in Processor
             /\ head \in Slots /\ tail \in Slots
  <2>1. head \in Slots /\ tail \in Slots /\ proc \in Processor
    BY <1>2 DEF TypeInv, TypeOK
  <2>2. Span \in 0..(RingSize - 1)
    BY <2>1, Distance DEF Span
  <2>3. Len(proc.batch) \in Nat
    BY <2>1 DEF Processor
  <2>4. QED BY <2>1, <2>2, <2>3 DEF Loaded
<1>3. QED BY <1>1, <1>2, BatchAssumption

\* A producer that neither claims nor stores leaves the ring as it is.
LEMMA RingStays ==
    ASSUME OneProducer, TypeInv, FifoInv, NEW p \in Producers, call[p].pc # "store",
           NEW r, call' = [call EXCEPT ![p] = r], r.pc # "store",
           r.pc \in {"tail", "claim"} => r.head = head,
           r.pc = "claim" => Span < RingSize - 1,
           UNCHANGED <<buffer, head, tail, proc>>
    PROVE  FifoInv' /\ UNCHANGED <<Stored, Loaded>>
<1>1. call'[p] = r /\ \A q \in Producers : q = p
  BY DEF OneProducer, TypeInv, TypeOK
<1>2. Span' = Span /\ Claimed' = FALSE /\ Claimed = FALSE /\ Loaded' = Loaded
  BY <1>1 DEF Span, Claimed, Loaded
<1>3. Stored' = Stored
  <2>1. Stored' = Span' - (IF Claimed' THEN 1 ELSE 0)
    BY Zenon DEF Stored, Span, Ahead, Claimed
  <2>2. QED BY <1>2, <2>1, RingFacts
<1>4. CallsInRing'
  BY <1>1, <1>2 DEF CallsInRing
<1>5. ProcInRing' /\ RingHolds'
  BY <1>2, <1>3 DEF FifoInv, ProcInRing, RingHolds, Held
<1>6. QED BY <1>2, <1>3, <1>4, <1>5 DEF FifoInv

LEMMA ClaimFifo ==
    ASSUME OneProducer, TypeInv, FifoInv, NEW p \in Producers, call[p].pc = "claim",
           head' = Succ(head, 1), call' = [call EXCEPT ![p].pc = "store"],
           UNCHANGED <<buffer, tail, proc>>
    PROVE  FifoInv' /\ UNCHANGED <<Stored, Loaded>>
<1>1. /\ call'[p].pc = "store" /\ call'[p].head = call[p].head
      /\ \A q \in Producers : q = p
  BY DEF OneProducer, TypeInv, TypeOK, Call
<1>2. call[p].head = head /\ Span < RingSize - 1
  BY DEF FifoInv, CallsInRing
<1>3. /\ Span \in 0..(RingSize - 1) /\ RingSize \in Nat /\ head \in Slots /\ tail \in Slots
      /\ proc \in Processor
  BY RingFacts
<1>4. Span' = Span + 1 /\ Succ(tail, Span) = head
  BY <1>2, <1>3, Distance DEF Span
<1>5. Claimed' = TRUE /\ Claimed = FALSE /\ Loaded' = Loaded
  BY <1>1 DEF Claimed, Loaded
<1>6. Stored' = Stored
  <2>1. Stored' = Span' - (IF Claimed' THEN 1 ELSE 0)
    BY Zenon DEF Stored, Span, Ahead, Claimed
  <2>2. QED BY <1>3, <1>4, <1>5, <2>1, RingFacts
<1>7. CallsInRing'
  <2>1. Span' - 1 = Span /\ Span' >= 1
    BY <1>3, <1>4
  <2>2. QED BY <1>1, <1>2, <1>4, <2>1 DEF CallsInRing
<1>8. ProcInRing'
  BY <1>3, <1>4, <1>5, <1>6 DEF FifoInv, ProcInRing, Processor
<1>9. RingHolds'
  BY <1>5, <1>6 DEF FifoInv, RingHolds, Held
<1>10. QED BY <1>5, <1>6, <1>7, <1>8, <1>9 DEF FifoInv

LEMMA StoreFifo ==
    ASSUME OneProducer, TypeInv, FifoInv, NEW p \in Producers, call[p].pc = "store",
           NEW r, r.pc = "idle", call' = [call EXCEPT ![p] = r],
           NEW m \in Msgs, buffer' = [buffer EXCEPT ![call[p].head] = m],
           UNCHANGED <<head, tail, proc>>
    PROVE  /\ FifoInv' /\ Stored' = Stored + 1 /\ Loaded' = Loaded
           /\ Stored \in 0..(RingSize - 1) /\ buffer'[Succ(tail, Stored)] = m
           /\ \A k \in 0..(RingSize - 1) : k # Stored => buffer'[Succ(tail, k)] = buffer[Succ(tail, k)]
<1>1. call'[p].pc = "idle" /\ \A q \in Producers : q = p
  BY DEF OneProducer, TypeInv, TypeOK
<1>2. Span >= 1 /\ call[p].head = Succ(tail, Span - 1)
  BY DEF FifoInv, CallsInRing
<1>3. /\ Span \in 0..(RingSize - 1) /\ RingSize \in Nat /\ tail \in Slots /\ Loaded \in Nat
      /\ proc \in Processor
  BY RingFacts
<1>4. Claimed = TRUE /\ Claimed' = FALSE /\ Span' = Span /\ Loaded' = Loaded
  BY <1>1 DEF Claimed, Span, Loaded
<1>5. Stored = Span - 1 /\ Stored' = Span
  <2>1. Stored' = Span' - (IF Claimed' THEN 1 ELSE 0)
    BY Zenon DEF Stored, Span, Ahead, Claimed
  <2>2. QED BY <1>3, <1>4, <2>1, RingFacts
<1>6. Stored \in 0..(RingSize - 1) /\ Stored' = Stored + 1
  BY <1>2, <1>3, <1>5
<1>7. \A k \in 0..(RingSize - 1) :
          buffer'[Succ(tail, k)] = IF k = Stored THEN m ELSE buffer[Succ(tail, k)]
  <2>1. \A k \in 0..(RingSize - 1) :
           Succ(tail, k) \in Slots /\ (Succ(tail, k) = Succ(tail, Stored) => k = Stored)
    BY <1>3, <1>6, Around
  <2>2. call[p].head = Succ(tail, Stored)
    BY <1>2, <1>5
  <2>3. buffer \in [Slots -> Msgs \cup {None}]
    BY DEF TypeInv, TypeOK
  <2>4. QED BY <2>1, <2>2, <2>3
<1>8. CallsInRing'
  BY <1>1 DEF CallsInRing
<1>9. ProcInRing'
  BY <1>3, <1>4, <1>6 DEF FifoInv, ProcInRing
<1>10. RingHolds'
  <2>1. m # None
    BY BatchAssumption
  <2>2. ASSUME NEW k \in 0..(RingSize - 1) PROVE Held(k)' <=> (k = Stored \/ Held(k))
    <3>1. Loaded <= Stored
      BY DEF FifoInv, ProcInRing
    <3>2. (Loaded <= k /\ k < Stored + 1) <=> (k = Stored \/ (Loaded <= k /\ k < Stored))
      BY <1>3, <1>6, <3>1
    <3>3. Held(k)' <=> (Loaded <= k /\ k < Stored + 1) \/ (proc.pc = "clear" /\ k = proc.i)
      BY <1>4, <1>6 DEF Held
    <3>4. QED BY <3>2, <3>3 DEF Held
  <2>3. QED BY <1>7, <2>1, <2>2 DEF FifoInv, RingHolds
<1>11. QED BY <1>4, <1>6, <1>7, <1>8, <1>9, <1>10 DEF FifoInv

LEMMA SelectFifo ==
    ASSUME TypeInv, FifoInv, NEW r, proc' = r, UNCHANGED <<ring, call>>,
           proc.pc \in {"select", "tail", "head", "send"} \/ proc.batch = <<>>,
           proc.pc # "clear",
           \/ r.pc \in {"select", "tail", "exited", "send"}
           \/ r.pc = "head" /\ r.tail = tail
           \/ /\ r.pc = "load" /\ r.tail = tail /\ r.i = 0 /\ r.batch = <<>>
              /\ r.n \in Nat /\ r.n <= Span
    PROVE  FifoInv' /\ Stored' = Stored /\ Loaded' = 0 /\ Loaded = 0
<1>1. UNCHANGED buffer /\ UNCHANGED head /\ UNCHANGED tail
  BY DEF ring
<1>2. Span' = Span /\ Stored' = Stored
  BY <1>1, Zenon DEF Span, Stored
<1>3. Loaded' = 0 /\ Loaded = 0
  BY DEF Loaded
<1>4. CallsInRing'
  BY <1>1, <1>2 DEF FifoInv, CallsInRing
<1>5. ProcInRing'
  BY <1>1, <1>2, <1>3 DEF FifoInv, ProcInRing
<1>6. RingHolds'
  <2>1. proc'.pc # "clear"
    OBVIOUS
  <2>2. \A k \in 0..(RingSize - 1) : Held(k)' <=> Held(k)
    BY <1>2, <1>3, <2>1 DEF Held
  <2>3. QED BY <1>1, <2>2 DEF FifoInv, RingHolds
<1>7. QED BY <1>2, <1>3, <1>4, <1>5, <1>6 DEF FifoInv

\* A slot that holds no message is the last: one is claimed, and none follows.
LEMMA PassFifo ==
    ASSUME TypeInv, FifoInv, proc.pc = "load",
           \/ proc.i = proc.n /\ proc' = [proc EXCEPT !.pc = "advance"]
           \/ /\ proc.i # proc.n /\ buffer[Succ(proc.tail, proc.i)] = None
              /\ proc' = [proc EXCEPT !.i = @ + 1],
           UNCHANGED <<ring, call>>
    PROVE  FifoInv' /\ UNCHANGED <<Stored, Loaded>> /\ proc'.batch = proc.batch
<1>1. UNCHANGED buffer /\ UNCHANGED head /\ UNCHANGED tail
  BY DEF ring
<1>2. Span' = Span /\ Stored' = Stored
  BY <1>1, Zenon DEF Span, Stored
<1>3. /\ proc \in Processor /\ Span \in 0..(RingSize - 1) /\ RingSize \in Nat /\ Loaded \in Nat
      /\ Stored = Span - (IF Claimed THEN 1 ELSE 0) /\ Loaded = Len(proc.batch)
  BY RingFacts DEF Loaded
<1>4. proc.tail = tail /\ proc.n <= Span /\ (proc.i = Loaded \/ proc.i = proc.n) /\ Loaded <= Stored
  BY <1>3 DEF FifoInv, ProcInRing
<1>5. CallsInRing'
  BY <1>1, <1>2 DEF FifoInv, CallsInRing
<1>6. CASE proc.i = proc.n
  <2>1. /\ proc'.pc = "advance" /\ proc'.batch = proc.batch /\ proc'.tail = proc.tail
    BY <1>3, <1>6 DEF Processor
  <2>2. Loaded' = Loaded
    BY <1>3, <2>1 DEF Loaded
  <2>3. ProcInRing'
    BY <1>1, <1>2, <1>4, <2>1, <2>2 DEF ProcInRing
  <2>4. RingHolds'
    BY <1>1, <1>2, <2>1, <2>2 DEF FifoInv, RingHolds, Held
  <2>5. QED BY <1>2, <1>5, <2>1, <2>2, <2>3, <2>4 DEF FifoInv
<1>7. CASE proc.i # proc.n
  <2>1. proc.i <= proc.n /\ proc.i \in Nat /\ proc.n \in Nat
    BY <1>3 DEF TypeInv, ProcOK, Processor
  <2>2. proc.i \in 0..(RingSize - 1) /\ proc.i = Loaded /\ proc.i < proc.n
    BY <1>3, <1>4, <1>7, <2>1
  <2>3. ~Held(proc.i)
    BY <1>4, <1>7, <2>2 DEF FifoInv, RingHolds
  <2>4. Stored = Loaded
    BY <1>3, <1>4, <2>2, <2>3 DEF Held
  <2>5. proc.i + 1 = proc.n
    BY <1>3, <1>4, <2>1, <2>2, <2>4
  <2>6. /\ proc'.pc = "load" /\ proc'.batch = proc.batch /\ proc'.tail = proc.tail
        /\ proc'.i = proc.i + 1 /\ proc'.n = proc.n
    BY <1>3, <1>7 DEF Processor
  <2>7. Loaded' = Loaded
    BY <1>3, <2>6 DEF Loaded
  <2>8. ProcInRing'
    BY <1>1, <1>2, <1>4, <2>5, <2>6, <2>7 DEF ProcInRing
  <2>9. RingHolds'
    BY <1>1, <1>2, <2>6, <2>7 DEF FifoInv, RingHolds, Held
  <2>10. QED BY <1>2, <1>5, <2>6, <2>7, <2>8, <2>9 DEF FifoInv
<1>8. QED BY <1>6, <1>7

\* The message that is loaded is the first of the ring.
LEMMA LoadFifo ==
    ASSUME TypeInv, FifoInv, proc.pc = "load", proc.i # proc.n,
           NEW m \in Msgs, m = buffer[Succ(proc.tail, proc.i)],
           proc' = [proc EXCEPT !.pc = "clear", !.batch = Append(@, m)],
           UNCHANGED <<ring, call>>
    PROVE  /\ FifoInv' /\ Stored' = Stored /\ Loaded' = Loaded + 1 /\ Loaded < Stored
           /\ m = buffer[Succ(tail, Loaded)] /\ Loaded = Len(proc.batch)
           /\ proc'.batch = Append(proc.batch, m) /\ proc'.written = proc.written
<1>1. UNCHANGED buffer /\ UNCHANGED head /\ UNCHANGED tail
  BY DEF ring
<1>2. Span' = Span /\ Stored' = Stored
  BY <1>1, Zenon DEF Span, Stored
<1>3. /\ proc \in Processor /\ Span \in 0..(RingSize - 1) /\ RingSize \in Nat /\ Loaded \in Nat
      /\ Stored \in Int /\ Stored < RingSize /\ Loaded = Len(proc.batch)
  BY RingFacts DEF Loaded
<1>4. proc.tail = tail /\ proc.n <= Span /\ proc.i = Loaded /\ Loaded <= Stored
  BY <1>3 DEF FifoInv, ProcInRing
<1>5. proc.i <= proc.n /\ proc.i \in Nat /\ proc.n \in Nat
  BY <1>3 DEF TypeInv, ProcOK, Processor
<1>6. Loaded < Stored
  <2>1. m # None /\ proc.i \in 0..(RingSize - 1)
    BY <1>3, <1>4, <1>5, BatchAssumption
  <2>2. Held(proc.i)
    BY <1>4, <2>1 DEF FifoInv, RingHolds
  <2>3. QED BY <1>4, <2>2 DEF Held
<1>7. /\ proc'.pc = "clear" /\ proc'.tail = proc.tail /\ proc'.i = proc.i /\ proc'.n = proc.n
      /\ proc'.batch = Append(proc.batch, m) /\ proc'.written = proc.written
  BY <1>3 DEF Processor
<1>8. Len(proc'.batch) = Len(proc.batch) + 1
  BY <1>3, <1>7 DEF Processor
<1>9. Loaded' = Loaded + 1
  BY <1>3, <1>7, <1>8 DEF Loaded
<1>10. CallsInRing'
  BY <1>1, <1>2 DEF FifoInv, CallsInRing
<1>11. ProcInRing'
  BY <1>1, <1>2, <1>3, <1>4, <1>6, <1>7, <1>8, <1>9 DEF FifoInv, ProcInRing
<1>12. RingHolds'
  <2>1. ASSUME NEW k \in 0..(RingSize - 1) PROVE Held(k)' <=> Held(k)
    BY <1>2, <1>3, <1>4, <1>6, <1>7, <1>9 DEF Held
  <2>2. QED BY <1>1, <2>1 DEF FifoInv, RingHolds
<1>13. QED BY <1>2, <1>3, <1>4, <1>6, <1>7, <1>9, <1>10, <1>11, <1>12 DEF FifoInv

LEMMA ClearFifo ==
    ASSUME TypeInv, FifoInv, CollectClear
    PROVE  /\ FifoInv' /\ UNCHANGED <<Stored, Loaded>>
           /\ proc'.batch = proc.batch /\ proc'.written = proc.written
           /\ \A k \in 0..(RingSize - 1) : k >= Loaded => buffer'[Succ(tail, k)] = buffer[Succ(tail, k)]
<1>1. /\ proc.pc = "clear" /\ proc' = [proc EXCEPT !.pc = "load", !.i = @ + 1]
      /\ buffer' = [buffer EXCEPT ![Succ(proc.tail, proc.i)] = None]
      /\ head' = head /\ tail' = tail /\ call' = call
  BY Zenon DEF CollectClear, Cleared, sending
<1>2. Span' = Span /\ Stored' = Stored
  BY <1>1, Zenon DEF Span, Stored
<1>3. /\ proc \in Processor /\ RingSize \in Nat /\ Loaded \in Nat /\ tail \in Slots
      /\ Stored \in Int /\ Stored < RingSize /\ Loaded = Len(proc.batch)
  BY <1>1, RingFacts DEF Loaded
<1>4. proc.tail = tail /\ proc.n <= Span /\ Loaded = proc.i + 1 /\ Loaded <= Stored /\ proc.i \in Nat
  BY <1>1, <1>3 DEF FifoInv, ProcInRing, Processor
<1>5. /\ proc'.pc = "load" /\ proc'.tail = proc.tail /\ proc'.i = proc.i + 1 /\ proc'.n = proc.n
      /\ proc'.batch = proc.batch /\ proc'.written = proc.written
  BY <1>1, <1>3 DEF Processor
<1>6. Loaded' = Loaded
  BY <1>3, <1>5 DEF Loaded
<1>7. \A k \in 0..(RingSize - 1) :
          buffer'[Succ(tail, k)] = IF k = proc.i THEN None ELSE buffer[Succ(tail, k)]
  <2>1. proc.i \in 0..(RingSize - 1)
    BY <1>3, <1>4
  <2>2. \A k \in 0..(RingSize - 1) :
           Succ(tail, k) \in Slots /\ (Succ(tail, k) = Succ(tail, proc.i) => k = proc.i)
    BY <1>3, <2>1, Around
  <2>3. buffer \in [Slots -> Msgs \cup {None}]
    BY DEF TypeInv, TypeOK
  <2>4. QED BY <1>1, <1>4, <2>2, <2>3
<1>8. CallsInRing'
  BY <1>1, <1>2 DEF FifoInv, CallsInRing
<1>9. ProcInRing'
  BY <1>1, <1>2, <1>3, <1>4, <1>5, <1>6 DEF ProcInRing
<1>10. RingHolds'
  <2>1. ASSUME NEW k \in 0..(RingSize - 1) PROVE Held(k)' <=> Held(k) /\ k # proc.i
    BY <1>1, <1>2, <1>3, <1>4, <1>5, <1>6 DEF Held
  <2>2. QED BY <1>1, <1>7, <2>1 DEF FifoInv, RingHolds
<1>11. QED BY <1>2, <1>3, <1>4, <1>5, <1>6, <1>7, <1>8, <1>9, <1>10 DEF FifoInv

\* The tail passes what was loaded; the ring that is left is the same.
LEMMA AdvanceFifo ==
    ASSUME TypeInv, FifoInv, proc.pc = "advance",
           tail' = Succ(proc.tail, Len(proc.batch)),
           proc' = [proc EXCEPT !.pc = "send", !.written = 0],
           UNCHANGED <<buffer, head, call>>
    PROVE  /\ FifoInv' /\ Loaded' = 0 /\ Stored' = Stored - Loaded
           /\ proc'.batch = proc.batch /\ proc'.written = 0
           /\ \A k \in 0..(RingSize - 1) : Loaded + k < RingSize => Succ(tail', k) = Succ(tail, Loaded + k)
<1>1. /\ proc \in Processor /\ Span \in 0..(RingSize - 1) /\ RingSize \in Nat /\ Loaded \in Nat
      /\ head \in Slots /\ tail \in Slots
      /\ Stored = Span - (IF Claimed THEN 1 ELSE 0) /\ Loaded = Len(proc.batch)
  BY RingFacts DEF Loaded
<1>2. proc.tail = tail /\ Loaded <= Stored
  BY DEF FifoInv, ProcInRing
<1>3. tail' = Succ(tail, Loaded) /\ Loaded \in 0..Span
  BY <1>1, <1>2
<1>4. Span' = Span - Loaded
  <2>1. Span' = Ahead(head, Succ(tail, Loaded))
    BY <1>3 DEF Span
  <2>2. QED BY <1>1, <1>3, <2>1, Distance DEF Span
<1>5. /\ proc'.pc = "send" /\ proc'.batch = proc.batch /\ proc'.written = 0
  BY <1>1 DEF Processor
<1>6. Loaded' = 0 /\ Claimed' = Claimed
  BY <1>5 DEF Loaded, Claimed
<1>7. Stored' = Stored - Loaded
  <2>1. Stored' = Span' - (IF Claimed' THEN 1 ELSE 0)
    BY Zenon DEF Stored, Span, Ahead, Claimed
  <2>2. QED BY <1>1, <1>4, <1>6, <2>1
<1>8. \A k \in 0..(RingSize - 1) :
          /\ Loaded + k < RingSize => Succ(tail', k) = Succ(tail, Loaded + k)
          /\ Loaded + k >= RingSize => Succ(tail', k) = Succ(tail, Loaded + k - RingSize)
  <2>1. Loaded \in 0..(RingSize - 1)
    BY <1>1, <1>3
  <2>2. QED BY <1>1, <1>3, <2>1, Around
<1>9. CallsInRing'
  <2>1. ASSUME NEW p \in Producers, call[p].pc = "store"
        PROVE  Span' >= 1 /\ call[p].head = Succ(tail', Span' - 1)
    <3>1. Claimed /\ call[p].head = Succ(tail, Span - 1) /\ Span >= 1
      BY <2>1 DEF Claimed, FifoInv, CallsInRing
    <3>2. Span' >= 1 /\ Span' - 1 \in 0..(RingSize - 1) /\ Loaded + (Span' - 1) = Span - 1
      BY <1>1, <1>2, <1>4, <3>1
    <3>3. Succ(tail', Span' - 1) = Succ(tail, Loaded + (Span' - 1))
      BY <1>1, <1>8, <3>2
    <3>4. QED BY <3>1, <3>2, <3>3
  <2>2. ASSUME NEW p \in Producers, call[p].pc = "claim" PROVE Span' < RingSize - 1
    <3>1. Span < RingSize - 1
      BY <2>2 DEF FifoInv, CallsInRing
    <3>2. QED BY <1>1, <1>4, <3>1
  <2>3. QED BY <2>1, <2>2 DEF FifoInv, CallsInRing
<1>10. ProcInRing'
  BY <1>1, <1>2, <1>5, <1>6, <1>7 DEF ProcInRing
<1>11. RingHolds'
  <2>1. ASSUME NEW k \in 0..(RingSize - 1) PROVE buffer[Succ(tail', k)] # None <=> k < Stored'
    <3>1. CASE Loaded + k < RingSize
      <4>1. Loaded + k \in 0..(RingSize - 1) /\ Succ(tail', k) = Succ(tail, Loaded + k)
        BY <1>1, <1>8, <3>1
      <4>2. buffer[Succ(tail, Loaded + k)] # None <=> Held(Loaded + k)
        BY <4>1 DEF FifoInv, RingHolds
      <4>3. Held(Loaded + k) <=> k < Stored'
        BY <1>1, <1>7 DEF Held
      <4>4. QED BY <4>1, <4>2, <4>3
    <3>2. CASE Loaded + k >= RingSize
      <4> DEFINE j == Loaded + k - RingSize
      <4>1. j \in 0..(RingSize - 1) /\ j < Loaded /\ Succ(tail', k) = Succ(tail, j)
        BY <1>1, <1>3, <1>8, <3>2
      <4>2. ~(k < Stored')
        BY <1>1, <1>7, <3>2
      <4> HIDE DEF j
      <4>3. buffer[Succ(tail, j)] # None <=> Held(j)
        BY <4>1 DEF FifoInv, RingHolds
      <4>4. ~Held(j)
        BY <1>1, <4>1 DEF Held
      <4>5. QED BY <4>1, <4>2, <4>3, <4>4
    <3>3. QED BY <1>1, <3>1, <3>2
  <2>2. ASSUME NEW k \in 0..(RingSize - 1) PROVE Held(k)' <=> k < Stored'
    BY <1>5, <1>6 DEF Held
  <2>3. QED BY <2>1, <2>2 DEF RingHolds
<1>12. QED BY <1>5, <1>6, <1>7, <1>8, <1>9, <1>10, <1>11 DEF FifoInv
-----------------------------------------------------------------------------
(* The queue of FifoWriter *)

Joined(b, w, f) == SubSeq(b, w + 1, Len(b)) \o f

LEMMA JoinedIs ==
    ASSUME NEW b \in Seq(Msgs), NEW w \in 0..Len(b), NEW n \in Nat, NEW f \in [1..n -> Msgs]
    PROVE  /\ Joined(b, w, f) \in Seq(Msgs) /\ Len(Joined(b, w, f)) = Len(b) - w + n
           /\ \A i \in 1..(Len(b) - w + n) :
                 Joined(b, w, f)[i] = IF i <= Len(b) - w THEN b[w + i] ELSE f[i - (Len(b) - w)]
<1> DEFINE q == Joined(b, w, f)
<1>1. f \in Seq(Msgs) /\ Len(f) = n
  OBVIOUS
<1> DEFINE s == SubSeq(b, w + 1, Len(b))
<1>2. Len(b) \in Nat /\ w \in Nat /\ w <= Len(b)
  OBVIOUS
<1>3. \A i \in (w + 1)..Len(b) : b[i] \in Msgs
  BY <1>2
<1>4. /\ s \in Seq(Msgs)
      /\ Len(s) = IF w + 1 <= Len(b) THEN Len(b) - (w + 1) + 1 ELSE 0
      /\ \A i \in 1..(Len(b) - (w + 1) + 1) : s[i] = b[(w + 1) + i - 1]
  BY <1>2, <1>3, SubSeqProperties
<1>5. Len(s) = Len(b) - w /\ \A i \in 1..(Len(b) - w) : s[i] = b[w + i]
  BY <1>2, <1>4
<1> HIDE DEF s
<1>6. /\ s \o f \in Seq(Msgs) /\ Len(s \o f) = Len(s) + Len(f)
      /\ \A i \in 1..(Len(s) + Len(f)) : (s \o f)[i] = IF i <= Len(s) THEN s[i] ELSE f[i - Len(s)]
  BY <1>1, <1>4, ConcatProperties
<1>7. q = s \o f
  BY DEF s, Joined
<1> HIDE DEF q
<1>8. q \in Seq(Msgs) /\ Len(q) = Len(b) - w + n
  BY <1>1, <1>5, <1>6, <1>7
<1>9. ASSUME NEW i \in 1..Len(q)
      PROVE  q[i] = IF i <= Len(b) - w THEN b[w + i] ELSE f[i - (Len(b) - w)]
  <2>1. i \in 1..(Len(s) + Len(f)) /\ q[i] = IF i <= Len(s) THEN s[i] ELSE f[i - Len(s)]
    BY <1>1, <1>2, <1>5, <1>6, <1>7, <1>8
  <2>2. CASE i <= Len(b) - w
    <3>1. i \in 1..(Len(b) - w)
      BY <1>2, <2>1, <2>2
    <3>2. QED BY <1>5, <2>1, <2>2, <3>1
  <2>3. CASE ~(i <= Len(b) - w)
    BY <1>5, <2>1, <2>3
  <2>4. QED BY <2>2, <2>3
<1>10. QED BY <1>8, <1>9 DEF q

\* What the ring and the batch hold, message by message.
Left == Len(proc.batch) - proc.written

QueueIs ==
    /\ proc.batch \in Seq(Msgs) /\ proc.written \in 0..Len(proc.batch)
    /\ Left \in Nat /\ Loaded \in Nat /\ Stored - Loaded \in Nat /\ Stored \in Int
    /\ Stored < RingSize /\ Unwritten \in Seq(Msgs) /\ Len(Unwritten) = Left + (Stored - Loaded)
    /\ \A i \in 1..Left : Unwritten[i] = proc.batch[proc.written + i]
    /\ \A k \in Loaded..(Stored - 1) : Unwritten[Left + 1 + (k - Loaded)] = buffer[Succ(tail, k)]

LEMMA QueueKnown == TypeInv /\ FifoInv => QueueIs
<1> SUFFICES ASSUME TypeInv, FifoInv PROVE QueueIs
  OBVIOUS
<1>1. /\ Span \in 0..(RingSize - 1) /\ RingSize \in Nat /\ Loaded \in Nat /\ tail \in Slots
      /\ Stored \in Int /\ Stored < RingSize /\ proc \in Processor
  BY RingFacts
<1>2. /\ proc.batch \in Seq(Msgs) /\ proc.written \in 0..Len(proc.batch) /\ Left \in Nat
  BY <1>1 DEF TypeInv, ProcOK, Processor, Left
<1>3. Loaded <= Stored
  BY DEF FifoInv, ProcInRing
<1> DEFINE n == Stored - Loaded
<1>4. n \in Nat /\ \A i \in 1..n : Loaded + i - 1 \in 0..(RingSize - 1) /\ Held(Loaded + i - 1)
  BY <1>1, <1>3 DEF Held
<1>5. ASSUME NEW i \in 1..n PROVE buffer[Succ(tail, Loaded + i - 1)] \in Msgs
  <2>1. buffer[Succ(tail, Loaded + i - 1)] # None
    BY <1>4 DEF FifoInv, RingHolds
  <2>2. Succ(tail, Loaded + i - 1) \in Slots
    BY <1>1, <1>4, Around
  <2>3. QED BY <2>1, <2>2 DEF TypeInv, TypeOK
<1>6. /\ InRing \in [1..n -> Msgs]
      /\ \A i \in 1..n : InRing[i] = buffer[Succ(tail, Loaded + i - 1)]
  BY <1>5 DEF InRing
<1>7. Unwritten = SubSeq(proc.batch, proc.written + 1, Len(proc.batch)) \o InRing
  BY DEF Unwritten
<1> HIDE DEF n
<1>8. /\ Unwritten \in Seq(Msgs) /\ Len(Unwritten) = Len(proc.batch) - proc.written + n
      /\ \A i \in 1..(Len(proc.batch) - proc.written + n) :
            Unwritten[i] = IF i <= Len(proc.batch) - proc.written THEN proc.batch[proc.written + i]
                           ELSE InRing[i - (Len(proc.batch) - proc.written)]
  <2>1. PICK b \in Seq(Msgs), w \in Nat, f \in [1..n -> Msgs] :
              b = proc.batch /\ w = proc.written /\ w \in 0..Len(b) /\ f = InRing
    BY <1>2, <1>6
  <2>2. Unwritten = Joined(b, w, f) /\ w \in 0..Len(b) /\ n \in Nat
    BY <1>4, <1>7, <2>1 DEF Joined
  <2>3. /\ Joined(b, w, f) \in Seq(Msgs) /\ Len(Joined(b, w, f)) = Len(b) - w + n
        /\ \A i \in 1..(Len(b) - w + n) :
              Joined(b, w, f)[i] = IF i <= Len(b) - w THEN b[w + i] ELSE f[i - (Len(b) - w)]
    BY <2>2, JoinedIs, Zenon
  <2>4. QED BY <2>1, <2>2, <2>3
<1> USE DEF n
<1>9. ASSUME NEW k \in Loaded..(Stored - 1)
      PROVE  Unwritten[Left + 1 + (k - Loaded)] = buffer[Succ(tail, k)]
  <2> DEFINE i == 1 + (k - Loaded)
             j == Left + i
  <2>1. i \in 1..n /\ j \in 1..(Left + n) /\ ~(j <= Left) /\ j - Left = i /\ Loaded + i - 1 = k
    BY <1>1, <1>2, <1>3
  <2>2. Unwritten[j] = InRing[i]
    BY <1>8, <2>1 DEF Left
  <2>3. InRing[i] = buffer[Succ(tail, k)]
    BY <1>6, <2>1
  <2>4. j = Left + 1 + (k - Loaded)
    BY <1>1, <1>2
  <2>5. QED BY <2>2, <2>3, <2>4
<1>10. ASSUME NEW i \in 1..Left PROVE Unwritten[i] = proc.batch[proc.written + i]
  BY <1>2, <1>4, <1>8, <1>10 DEF Left
<1>11. QED BY <1>1, <1>2, <1>3, <1>4, <1>8, <1>9, <1>10 DEF QueueIs, Left

LEMMA QueueThen == (TypeInv /\ FifoInv)' => QueueIs'
BY QueueKnown, PTL

\* Each place of the queue is of the batch or of the ring.
LEMMA Places ==
    ASSUME QueueIs, NEW i \in 1..Len(Unwritten)
    PROVE  i \in 1..Left \/ \E k \in Loaded..(Stored - 1) : i = Left + 1 + (k - Loaded)
<1>1. /\ Left \in Nat /\ Loaded \in Nat /\ Stored \in Int /\ Stored - Loaded \in Nat
      /\ Len(Unwritten) = Left + (Stored - Loaded)
  BY DEF QueueIs
<1> DEFINE k == Loaded + (i - Left - 1)
<1>2. i \in 1..Left \/ (k \in Loaded..(Stored - 1) /\ i = Left + 1 + (k - Loaded))
  BY <1>1
<1> HIDE DEF k
<1>3. QED BY <1>2

LEMMA SameRing ==
    ASSUME QueueIs, UNCHANGED <<Stored, Loaded>>,
           proc'.batch = proc.batch, proc'.written = proc.written, tail' = tail,
           \A k \in Loaded..(Stored - 1) : buffer'[Succ(tail, k)] = buffer[Succ(tail, k)]
    PROVE  Unwritten' = Unwritten
<1>1. Stored \in Int /\ Loaded \in Nat
  BY DEF QueueIs
<1>2. \A n \in 1..(Stored - Loaded) : Loaded + n - 1 \in Loaded..(Stored - 1)
  BY <1>1
<1>3. InRing' = InRing
  BY <1>2 DEF InRing
<1>4. QED BY <1>3 DEF Unwritten

LEMMA AdvanceQueue ==
    ASSUME QueueIs, proc.written = 0, Loaded' = 0, Stored' = Stored - Loaded,
           proc'.batch = proc.batch, proc'.written = 0, buffer' = buffer, RingSize \in Nat,
           \A k \in 0..(RingSize - 1) : Loaded + k < RingSize => Succ(tail', k) = Succ(tail, Loaded + k)
    PROVE  Unwritten' = Unwritten
<1>1. Stored \in Int /\ Loaded \in Nat /\ Stored < RingSize
  BY DEF QueueIs
<1>2. Stored' - Loaded' = Stored - Loaded
  BY <1>1
<1>3. ASSUME NEW n \in 1..(Stored - Loaded)
      PROVE  buffer'[Succ(tail', Loaded' + n - 1)] = buffer[Succ(tail, Loaded + n - 1)]
  <2>1. /\ n - 1 \in 0..(RingSize - 1) /\ Loaded + (n - 1) < RingSize /\ Loaded' + n - 1 = n - 1
        /\ Loaded + n - 1 = Loaded + (n - 1)
    BY <1>1
  <2>2. QED BY <2>1
<1>4. InRing' = InRing
  BY <1>2, <1>3, Zenon DEF InRing
<1>5. QED BY <1>4 DEF Unwritten

LEMMA LoadQueue ==
    ASSUME QueueIs, QueueIs', UNCHANGED <<Stored, tail, buffer>>, Loaded' = Loaded + 1, Loaded < Stored,
           NEW m \in Msgs, m = buffer[Succ(tail, Loaded)], proc'.written = proc.written,
           proc'.batch = Append(proc.batch, m)
    PROVE  Unwritten' = Unwritten
<1>1. /\ proc.batch \in Seq(Msgs) /\ Len(proc.batch) \in Nat /\ proc.written \in 0..Len(proc.batch)
      /\ Left \in Nat /\ Loaded \in Nat /\ Stored \in Int
      /\ Unwritten \in Seq(Msgs) /\ Unwritten' \in Seq(Msgs)
      /\ Len(Unwritten) = Left + (Stored - Loaded) /\ Len(Unwritten') = Left' + (Stored' - Loaded')
  BY DEF QueueIs
<1>2. Len(proc'.batch) = Len(proc.batch) + 1
  BY <1>1
<1>3. Left = Len(proc.batch) - proc.written /\ Left' = Left + 1
  BY <1>1, <1>2 DEF Left
<1> DEFINE w == proc.written
           z == Len(proc.batch)
<1>0. /\ w \in Nat /\ z \in Nat /\ Left \in Nat /\ Left' = Left + 1 /\ Left = z - w
      /\ Loaded \in Nat /\ Stored \in Int /\ Loaded' = Loaded + 1 /\ Stored' = Stored
  BY <1>1, <1>3
<1> HIDE DEF w, z
<1>4. Len(Unwritten') = Len(Unwritten)
  BY <1>1, <1>3
<1>5. ASSUME NEW i \in 1..Len(Unwritten) PROVE Unwritten'[i] = Unwritten[i]
  <2>1. CASE i \in 1..Left
    <3>1. i \in 1..Left' /\ w + i \in 1..z
      BY <1>0, <2>1
    <3>2. proc'.batch[w + i] = proc.batch[w + i]
      BY <1>1, <3>1 DEF z
    <3>3. QED BY <2>1, <3>1, <3>2 DEF QueueIs, w
  <2>2. CASE i = Left + 1
    <3>1. i \in 1..Left' /\ w + i = z + 1
      BY <1>0, <2>2
    <3>2. proc'.batch[w + i] = m
      BY <1>1, <3>1 DEF z
    <3>3. Unwritten'[i] = m
      BY <3>1, <3>2 DEF QueueIs, w
    <3>4. Loaded \in Loaded..(Stored - 1) /\ i = Left + 1 + (Loaded - Loaded)
      BY <1>1, <2>2
    <3>5. Unwritten[Left + 1 + (Loaded - Loaded)] = buffer[Succ(tail, Loaded)]
      BY <3>4 DEF QueueIs
    <3>6. QED BY <3>3, <3>4, <3>5
  <2>3. ASSUME NEW k \in Loaded..(Stored - 1), i = Left + 1 + (k - Loaded), i # Left + 1
        PROVE  Unwritten'[i] = Unwritten[i]
    <3>1. k \in Loaded'..(Stored' - 1) /\ i = Left' + 1 + (k - Loaded')
      BY <1>0, <2>3
    <3>2. Unwritten'[Left' + 1 + (k - Loaded')] = buffer'[Succ(tail', k)]
      BY <3>1 DEF QueueIs
    <3>3. Unwritten[i] = buffer[Succ(tail, k)]
      BY <2>3 DEF QueueIs
    <3>4. QED BY <3>1, <3>2, <3>3
  <2>4. QED BY <2>1, <2>2, <2>3, Places
<1>6. QED BY <1>1, <1>4, <1>5, SeqEqual

LEMMA StoreQueue ==
    ASSUME QueueIs, QueueIs', Stored' = Stored + 1, Loaded' = Loaded, proc' = proc, tail' = tail,
           NEW m \in Msgs, buffer'[Succ(tail, Stored)] = m,
           \A k \in 0..(RingSize - 1) : k # Stored => buffer'[Succ(tail, k)] = buffer[Succ(tail, k)],
           RingSize \in Nat
    PROVE  Unwritten' = Append(Unwritten, m)
<1>1. /\ Left \in Nat /\ Loaded \in Nat /\ Stored \in Int /\ Stored - Loaded \in Nat /\ Stored < RingSize
      /\ Unwritten \in Seq(Msgs) /\ Unwritten' \in Seq(Msgs)
      /\ Len(Unwritten) = Left + (Stored - Loaded) /\ Len(Unwritten') = Left' + (Stored' - Loaded')
  BY DEF QueueIs
<1>2. Left' = Left
  BY DEF Left
<1> DEFINE q == Append(Unwritten, m)
<1>3. /\ q \in Seq(Msgs) /\ Len(q) = Len(Unwritten) + 1 /\ q[Len(Unwritten) + 1] = m
      /\ \A i \in 1..Len(Unwritten) : q[i] = Unwritten[i]
  BY <1>1, AppendProperties
<1> HIDE DEF q
<1>4. Len(Unwritten') = Len(q)
  BY <1>1, <1>2, <1>3
<1>5. ASSUME NEW i \in 1..Len(Unwritten) PROVE Unwritten'[i] = Unwritten[i]
  <2>1. CASE i \in 1..Left
    BY <1>2, <2>1 DEF QueueIs
  <2>2. ASSUME NEW k \in Loaded..(Stored - 1), i = Left + 1 + (k - Loaded)
        PROVE  Unwritten'[i] = Unwritten[i]
    <3>1. k \in Loaded'..(Stored' - 1) /\ k \in 0..(RingSize - 1) /\ k # Stored
      BY <1>1
    <3>2. Unwritten'[Left' + 1 + (k - Loaded')] = buffer'[Succ(tail', k)]
      BY <3>1 DEF QueueIs
    <3>3. Unwritten[i] = buffer[Succ(tail, k)]
      BY <2>2 DEF QueueIs
    <3>4. QED BY <1>2, <2>2, <3>1, <3>2, <3>3
  <2>3. QED BY <2>1, <2>2, Places
<1>6. Unwritten'[Len(Unwritten) + 1] = m
  <2>1. Stored \in Loaded'..(Stored' - 1) /\ Len(Unwritten) + 1 = Left' + 1 + (Stored - Loaded')
    BY <1>1, <1>2
  <2>2. Unwritten'[Left' + 1 + (Stored - Loaded')] = buffer'[Succ(tail', Stored)]
    BY <2>1 DEF QueueIs
  <2>3. QED BY <2>1, <2>2
<1>7. \A i \in 1..Len(Unwritten') : Unwritten'[i] = q[i]
  <2>1. \A i \in 1..Len(Unwritten') : i \in 1..Len(Unwritten) \/ i = Len(Unwritten) + 1
    BY <1>1, <1>3, <1>4
  <2>2. QED BY <1>3, <1>5, <1>6, <2>1
<1>8. QED BY <1>1, <1>3, <1>4, <1>7, SeqEqual DEF q

LEMMA WriteQueue ==
    ASSUME QueueIs, QueueIs', UNCHANGED <<Stored, Loaded, tail, buffer>>, Left # 0,
           proc'.batch = proc.batch, proc'.written = proc.written + 1
    PROVE  /\ Unwritten # <<>> /\ Head(Unwritten) = proc.batch[proc.written + 1]
           /\ Unwritten' = Tail(Unwritten)
<1>1. /\ Left \in Nat /\ Loaded \in Nat /\ Stored \in Int /\ Stored - Loaded \in Nat
      /\ Unwritten \in Seq(Msgs) /\ Unwritten' \in Seq(Msgs)
      /\ Len(Unwritten) = Left + (Stored - Loaded) /\ Len(Unwritten') = Left' + (Stored' - Loaded')
  BY DEF QueueIs
<1> DEFINE w == proc.written
           z == Len(proc.batch)
<1>2. Left' = Left - 1 /\ proc'.written = w + 1 /\ w \in Nat
  <2>1. Left = z - w /\ Left' = z - (w + 1)
    BY Zenon DEF Left
  <2>2. w \in 0..z /\ proc.batch \in Seq(Msgs)
    BY Zenon DEF QueueIs
  <2>3. z \in Nat
    BY <2>2
  <2> HIDE DEF w, z
  <2>4. QED BY <2>1, <2>2, <2>3 DEF w
<1> HIDE DEF w, z
<1>3. Len(Unwritten) # 0
  BY <1>1
<1>4. Unwritten # <<>>
  BY <1>3
<1> DEFINE q == Tail(Unwritten)
<1>5. /\ q \in Seq(Msgs) /\ Len(q) = Len(Unwritten) - 1
      /\ \A i \in 1..Len(q) : q[i] = Unwritten[i + 1]
  BY <1>1, <1>4, HeadTailProperties
<1> HIDE DEF q
<1>6. Head(Unwritten) = proc.batch[proc.written + 1]
  <2>1. 1 \in 1..Left /\ Head(Unwritten) = Unwritten[1]
    BY <1>1, <1>4
  <2>2. QED BY <2>1 DEF QueueIs
<1>7. Len(Unwritten') = Len(q)
  BY <1>1, <1>2, <1>5
<1>8. ASSUME NEW i \in 1..Len(q) PROVE Unwritten'[i] = Unwritten[i + 1]
  <2>1. i + 1 \in 1..Len(Unwritten)
    BY <1>1, <1>5
  <2>2. CASE i + 1 \in 1..Left
    <3>1. i \in 1..Left' /\ proc'.written + i = w + (i + 1)
      BY <1>1, <1>2, <2>2
    <3>2. Unwritten'[i] = proc'.batch[proc'.written + i]
      BY <3>1 DEF QueueIs
    <3>3. Unwritten[i + 1] = proc.batch[proc.written + (i + 1)]
      BY <2>2 DEF QueueIs
    <3>4. QED BY <3>1, <3>2, <3>3 DEF w
  <2>3. ASSUME NEW k \in Loaded..(Stored - 1), i + 1 = Left + 1 + (k - Loaded)
        PROVE  Unwritten'[i] = Unwritten[i + 1]
    <3>1. Stored' = Stored /\ Loaded' = Loaded
      OBVIOUS
    <3>2. Left \in Nat /\ Left' = Left - 1 /\ i \in Int /\ Loaded \in Nat /\ Stored \in Int
      BY <1>1, <1>2, <1>5
    <3>3. k \in Loaded'..(Stored' - 1) /\ i = Left' + 1 + (k - Loaded')
      BY <2>3, <3>1, <3>2
    <3>4. Unwritten'[Left' + 1 + (k - Loaded')] = buffer'[Succ(tail', k)]
      BY <3>3 DEF QueueIs
    <3>5. Unwritten[i + 1] = buffer[Succ(tail, k)]
      BY <2>3 DEF QueueIs
    <3>6. QED BY <3>3, <3>4, <3>5
  <2>4. QED BY <2>1, <2>2, <2>3, Places
<1>9. \A i \in 1..Len(Unwritten') : Unwritten'[i] = q[i]
  BY <1>5, <1>7, <1>8
<1>10. Unwritten' = q
  BY <1>1, <1>5, <1>7, <1>9, SeqEqual
<1>11. QED BY <1>4, <1>6, <1>10 DEF q

\* The rest of the batch is lost.
LEMMA LoseQueue ==
    ASSUME QueueIs, QueueIs', UNCHANGED <<Stored, Loaded, tail, buffer>>, proc'.batch = <<>>
    PROVE  /\ Left <= Len(Unwritten) /\ Unwritten' = SubSeq(Unwritten, Left + 1, Len(Unwritten))
           /\ Left = 0 => Unwritten' = Unwritten
<1>1. /\ Left \in Nat /\ Loaded \in Nat /\ Stored \in Int /\ Stored - Loaded \in Nat
      /\ Unwritten \in Seq(Msgs) /\ Unwritten' \in Seq(Msgs)
      /\ Len(Unwritten) = Left + (Stored - Loaded) /\ Len(Unwritten') = Left' + (Stored' - Loaded')
  BY DEF QueueIs
<1>2. Left' = 0
  <2>1. Len(proc'.batch) = 0
    OBVIOUS
  <2>2. proc'.written \in 0..Len(proc'.batch)
    BY DEF QueueIs
  <2>3. QED BY <2>1, <2>2 DEF Left
<1> DEFINE q == SubSeq(Unwritten, Left + 1, Len(Unwritten))
           n == Stored - Loaded
<1>3. /\ q \in Seq(Msgs) /\ Len(q) = n /\ \A i \in 1..n : q[i] = Unwritten[Left + i]
  <2>1. \A i \in (Left + 1)..Len(Unwritten) : Unwritten[i] \in Msgs
    BY <1>1
  <2>2. Left + 1 \in Int /\ Len(Unwritten) \in Int
    BY <1>1
  <2>3. /\ q \in Seq(Msgs)
        /\ Len(q) = IF Left + 1 <= Len(Unwritten) THEN Len(Unwritten) - (Left + 1) + 1 ELSE 0
        /\ \A i \in 1..(Len(Unwritten) - (Left + 1) + 1) : q[i] = Unwritten[Left + 1 + i - 1]
    BY <2>1, <2>2, SubSeqProperties
  <2> HIDE DEF q
  <2>4. IF Left + 1 <= Len(Unwritten) THEN Len(Unwritten) - (Left + 1) + 1 = n ELSE n = 0
    BY <1>1
  <2>5. ASSUME NEW i \in 1..n PROVE q[i] = Unwritten[Left + i]
    <3>1. i \in 1..(Len(Unwritten) - (Left + 1) + 1) /\ Left + 1 + i - 1 = Left + i
      BY <1>1
    <3>2. QED BY <2>3, <3>1
  <2>6. QED BY <2>3, <2>4, <2>5
<1> HIDE DEF q, n
<1>4. n \in Nat /\ Len(Unwritten') = n
  BY <1>1, <1>2 DEF n
<1>5. ASSUME NEW i \in 1..n PROVE Unwritten'[i] = Unwritten[Left + i]
  <2>1. PICK k \in Loaded..(Stored - 1) : i = 1 + (k - Loaded)
    <3> DEFINE k == Loaded + (i - 1)
    <3>1. k \in Loaded..(Stored - 1) /\ i = 1 + (k - Loaded)
      BY <1>1, <1>4 DEF n
    <3> HIDE DEF k
    <3>2. QED BY <3>1
  <2>2. i = Left' + 1 + (k - Loaded') /\ Left + i = Left + 1 + (k - Loaded)
    BY <1>1, <1>2, <2>1
  <2>3. Unwritten'[Left' + 1 + (k - Loaded')] = buffer'[Succ(tail', k)]
    BY DEF QueueIs
  <2>4. Unwritten[Left + 1 + (k - Loaded)] = buffer[Succ(tail, k)]
    BY DEF QueueIs
  <2>5. QED BY <2>2, <2>3, <2>4
<1>6. Unwritten' = q
  BY <1>1, <1>3, <1>4, <1>5, SeqEqual
<1>7. Left = 0 => Unwritten' = Unwritten
  <2>1. Left = 0 => Len(Unwritten) = n /\ \A i \in 1..n : Left + i = i
    BY <1>1, <1>4 DEF n
  <2>2. QED BY <1>1, <1>4, <1>5, <2>1, SeqEqual
<1>8. Left <= Len(Unwritten)
  BY <1>1
<1>9. QED BY <1>6, <1>7, <1>8 DEF q
-----------------------------------------------------------------------------
(* The steps of FifoWriter *)

\* The fates as FifoWriter sees them.
Fates == [m \in Msgs |-> IF fate[m] = "new" THEN "pending" ELSE fate[m]]

LEMMA FateMoves ==
    ASSUME TypeInv, NEW m \in Msgs, NEW v \in {"accepted", "refused"},
           fate' = [fate EXCEPT ![m] = v]
    PROVE  Fates' = [Fates EXCEPT ![m] = v]
BY DEF Fates, TypeInv, TypeOK

LEMMA StepIs ==
    /\ UNCHANGED <<Fates, Unwritten, wire>> => [Fifo!Next]_(Fifo!vars)
    /\ \A m \in Msgs :
          /\ Fates[m] = "pending" /\ UNCHANGED <<Unwritten, wire>>
          /\ Fates' = [Fates EXCEPT ![m] = "refused"]
          => [Fifo!Next]_(Fifo!vars)
    /\ \A m \in Msgs :
          /\ Fates[m] = "pending" /\ UNCHANGED wire
          /\ Fates' = [Fates EXCEPT ![m] = "accepted"] /\ Unwritten' = Append(Unwritten, m)
          => [Fifo!Next]_(Fifo!vars)
    /\ /\ Unwritten # <<>> /\ wire' = Append(wire, Head(Unwritten))
       /\ Unwritten' = Tail(Unwritten) /\ UNCHANGED Fates
       => [Fifo!Next]_(Fifo!vars)
    /\ \A n \in 1..BatchSize :
          /\ n <= Len(Unwritten) /\ Unwritten' = SubSeq(Unwritten, n + 1, Len(Unwritten))
          /\ UNCHANGED <<Fates, wire>>
          => [Fifo!Next]_(Fifo!vars)
BY Zenon DEF Fifo!Next, Fifo!vars, Fifo!Accept, Fifo!Refuse, Fifo!Write, Fifo!Lose, Fates

LEMMA SendMapped ==
    ASSUME OneProducer, TypeInv, OnceInv, FifoInv, TypeInv', NEW p \in Producers,
           Send(p) \/ \E m \in Msgs : SendCheck(p, m)
    PROVE  FifoInv' /\ [Fifo!Next]_(Fifo!vars)
<1>1. /\ QueueIs /\ CallsApart /\ call \in [Producers -> Call] /\ call[p] \in Call
      /\ call[p].pc # "idle" => call[p].msg \in Msgs
  BY QueueKnown DEF OnceInv, TypeInv, TypeOK, CallsOK
<1>2. RingSize \in Nat /\ head \in Slots /\ tail \in Slots
  BY RingFacts
\* A producer that moves nothing.
<1>3. ASSUME UNCHANGED <<buffer, head, tail, proc>>, UNCHANGED wire, call[p].pc # "store",
             NEW r, call' = [call EXCEPT ![p] = r], r.pc # "store",
             r.pc \in {"tail", "claim"} => r.head = head, r.pc = "claim" => Span < RingSize - 1
      PROVE  FifoInv' /\ Unwritten' = Unwritten
  <2>1. FifoInv' /\ UNCHANGED <<Stored, Loaded>>
    BY <1>3, RingStays
  <2>2. Unwritten' = Unwritten
    BY <1>1, <1>3, <2>1, SameRing
  <2>3. QED BY <2>1, <2>2
<1>4. ASSUME call[p].pc # "idle", Return(p, "refused"), UNCHANGED <<Unwritten, wire>>
      PROVE  [Fifo!Next]_(Fifo!vars)
  <2> DEFINE m == call[p].msg
  <2>1. m \in Msgs /\ fate[m] = "pending" /\ fate' = [fate EXCEPT ![m] = "refused"]
    BY <1>1, <1>4 DEF CallsApart, Return
  <2> HIDE DEF m
  <2>2. Fates[m] = "pending" /\ Fates' = [Fates EXCEPT ![m] = "refused"]
    BY <2>1, FateMoves DEF Fates
  <2>3. QED BY <1>4, <2>1, <2>2, StepIs
<1>5. ASSUME fate' = fate, UNCHANGED <<Unwritten, wire>> PROVE [Fifo!Next]_(Fifo!vars)
  <2>1. Fates' = Fates
    BY <1>5 DEF Fates
  <2>2. QED BY <1>5, <2>1, StepIs
<1>6. ASSUME NEW m \in Msgs, SendCheck(p, m) PROVE FifoInv' /\ [Fifo!Next]_(Fifo!vars)
  <2>1. /\ call[p].pc = "idle" /\ fate[m] = "new" /\ UNCHANGED <<buffer, head, tail, proc>>
        /\ UNCHANGED wire
    BY <1>6, Zenon DEF SendCheck, ring, output
  <2>2. CASE active
    <3> DEFINE r == [call[p] EXCEPT !.pc = "loop", !.msg = m]
    <3>1. call' = [call EXCEPT ![p] = r] /\ fate' = [fate EXCEPT ![m] = "pending"]
      BY <1>6, <2>2, Zenon DEF SendCheck
    <3>2. r.pc = "loop"
      BY <1>1 DEF Call
    <3> HIDE DEF r
    <3>3. FifoInv' /\ Unwritten' = Unwritten
      BY <1>3, <2>1, <3>1, <3>2
    <3>4. Fates' = Fates
      BY <2>1, <3>1 DEF Fates, TypeInv, TypeOK
    <3>5. QED BY <2>1, <3>3, <3>4, StepIs
  <2>3. CASE ~active
    <3>1. call' = call /\ fate' = [fate EXCEPT ![m] = "refused"]
      BY <1>6, <2>3, Zenon DEF SendCheck
    <3>2. call' = [call EXCEPT ![p] = call[p]]
      BY <1>1, <3>1
    <3>3. FifoInv' /\ Unwritten' = Unwritten
      BY <1>3, <2>1, <3>2
    <3>4. Fates[m] = "pending" /\ Fates' = [Fates EXCEPT ![m] = "refused"]
      BY <2>1, <3>1, FateMoves DEF Fates
    <3>5. QED BY <2>1, <3>3, <3>4, StepIs
  <2>4. QED BY <2>2, <2>3
<1>7. CASE SendHead(p)
  <2> DEFINE r == [call[p] EXCEPT !.pc = "tail", !.head = head]
  <2>1. r.pc = "tail" /\ r.head = head
    BY <1>1 DEF Call
  <2>2. /\ call[p].pc = "loop" /\ call' = [call EXCEPT ![p] = r] /\ fate' = fate
        /\ UNCHANGED <<buffer, head, tail, proc>> /\ UNCHANGED wire
    BY <1>7, Zenon DEF SendHead, ring, output
  <2> HIDE DEF r
  <2>3. FifoInv' /\ Unwritten' = Unwritten
    BY <1>3, <2>1, <2>2
  <2>4. QED BY <1>5, <2>2, <2>3
<1>8. ASSUME call[p].pc \in {"tail", "claim"}, UNCHANGED <<buffer, head, tail, proc>>, UNCHANGED wire,
             \/ Return(p, "refused")
             \/ call' = [call EXCEPT ![p].pc = "loop"] /\ fate' = fate
             \/ call' = [call EXCEPT ![p].pc = "claim"] /\ fate' = fate /\ ~Full(p)
      PROVE  FifoInv' /\ [Fifo!Next]_(Fifo!vars)
  <2>1. CASE Return(p, "refused")
    <3> DEFINE r == [pc |-> "idle", msg |-> None, head |-> 0]
    <3>1. call' = [call EXCEPT ![p] = r] /\ r.pc = "idle" /\ call[p].pc \notin {"idle", "store"}
      BY <1>8, <2>1 DEF Return
    <3> HIDE DEF r
    <3>2. FifoInv' /\ Unwritten' = Unwritten
      BY <1>3, <1>8, <3>1
    <3>3. QED BY <1>4, <1>8, <2>1, <3>1, <3>2
  <2>2. CASE call' = [call EXCEPT ![p].pc = "loop"] /\ fate' = fate
    <3> DEFINE r == [call[p] EXCEPT !.pc = "loop"]
    <3>1. call' = [call EXCEPT ![p] = r]
      BY <2>2, Zenon
    <3>2. r.pc = "loop" /\ call[p].pc # "store"
      BY <1>1, <1>8 DEF Call
    <3> HIDE DEF r
    <3>3. FifoInv' /\ Unwritten' = Unwritten
      BY <1>3, <1>8, <3>1, <3>2
    <3>4. QED BY <1>5, <1>8, <2>2, <3>3
  <2>3. CASE call' = [call EXCEPT ![p].pc = "claim"] /\ fate' = fate /\ ~Full(p)
    <3> DEFINE r == [call[p] EXCEPT !.pc = "claim"]
    <3>1. call' = [call EXCEPT ![p] = r]
      BY <2>3, Zenon
    <3>2. r.pc = "claim" /\ r.head = call[p].head /\ call[p].pc # "store"
      BY <1>1, <1>8 DEF Call
    <3> HIDE DEF r
    <3>3. call[p].head = head
      BY <1>8 DEF FifoInv, CallsInRing
    <3>4. Span < RingSize - 1
      BY <1>2, <2>3, <3>3, Distance DEF Full, Span
    <3>5. FifoInv' /\ Unwritten' = Unwritten
      BY <1>3, <1>8, <3>1, <3>2, <3>3, <3>4
    <3>6. QED BY <1>5, <1>8, <2>3, <3>5
  <2>4. QED BY <1>8, <2>1, <2>2, <2>3
<1>9. CASE SendTail(p)
  <2>1. /\ call[p].pc = "tail" /\ UNCHANGED <<buffer, head, tail, proc>> /\ UNCHANGED wire
        /\ \/ Return(p, "refused")
           \/ call' = [call EXCEPT ![p].pc = "loop"] /\ fate' = fate
           \/ call' = [call EXCEPT ![p].pc = "claim"] /\ fate' = fate /\ ~Full(p)
    BY <1>9, Zenon DEF SendTail, ring, output
  <2>2. call[p].pc \in {"tail", "claim"}
    BY <2>1
  <2>3. QED BY <1>8, <2>1, <2>2
<1>10. CASE SendClaim(p)
  <2>1. call[p].pc = "claim" /\ UNCHANGED buffer /\ UNCHANGED tail /\ UNCHANGED proc /\ UNCHANGED wire
    BY <1>10, Zenon DEF SendClaim, output
  <2>2. \/ /\ head' = Succ(head, 1) /\ call' = [call EXCEPT ![p].pc = "store"] /\ fate' = fate
        \/ /\ UNCHANGED head
           /\ \/ Return(p, "refused")
              \/ call' = [call EXCEPT ![p].pc = "loop"] /\ fate' = fate
    BY <1>10, Zenon DEF SendClaim
  <2>3. CASE head' = Succ(head, 1) /\ call' = [call EXCEPT ![p].pc = "store"] /\ fate' = fate
    <3>1. FifoInv' /\ UNCHANGED <<Stored, Loaded>>
      BY <2>1, <2>3, ClaimFifo
    <3>2. Unwritten' = Unwritten
      BY <1>1, <2>1, <3>1, SameRing
    <3>3. QED BY <1>5, <2>1, <2>3, <3>1, <3>2
  <2>4. CASE /\ UNCHANGED head
             /\ \/ Return(p, "refused")
                \/ call' = [call EXCEPT ![p].pc = "loop"] /\ fate' = fate
    BY <1>8, <2>1, <2>4
  <2>5. QED BY <2>2, <2>3, <2>4
<1>11. CASE SendStore(p)
  <2> DEFINE m == call[p].msg
             r == [pc |-> "idle", msg |-> None, head |-> 0]
  <2>1. /\ call[p].pc = "store" /\ call' = [call EXCEPT ![p] = r]
        /\ fate' = [fate EXCEPT ![m] = "accepted"] /\ buffer' = [buffer EXCEPT ![call[p].head] = m]
        /\ head' = head /\ tail' = tail /\ proc' = proc /\ wire' = wire
    BY <1>11, Zenon DEF SendStore, Return, output
  <2>2. m \in Msgs /\ fate[m] = "pending" /\ r.pc = "idle"
    BY <1>1, <2>1 DEF CallsApart
  <2> HIDE DEF m, r
  <2>3. /\ FifoInv' /\ Stored' = Stored + 1 /\ Loaded' = Loaded
        /\ buffer'[Succ(tail, Stored)] = m
        /\ \A k \in 0..(RingSize - 1) : k # Stored => buffer'[Succ(tail, k)] = buffer[Succ(tail, k)]
    BY <2>1, <2>2, StoreFifo
  <2>4. QueueIs'
    BY <2>3, QueueThen
  <2>5. Unwritten' = Append(Unwritten, m)
    BY <1>1, <1>2, <2>1, <2>2, <2>3, <2>4, StoreQueue
  <2>6. Fates[m] = "pending" /\ Fates' = [Fates EXCEPT ![m] = "accepted"]
    BY <2>1, <2>2, FateMoves DEF Fates
  <2>7. QED BY <2>1, <2>2, <2>3, <2>5, <2>6, StepIs
<1>12. QED BY <1>6, <1>7, <1>9, <1>10, <1>11, Zenon DEF Send

LEMMA ProcessMapped ==
    ASSUME TypeInv, FifoInv, TypeInv', Process
    PROVE  FifoInv' /\ [Fifo!Next]_(Fifo!vars)
<1>1. /\ QueueIs /\ ProcOK(proc) /\ proc \in Processor /\ proc.batch \in Seq(Msgs)
      /\ RingSize \in Nat /\ head \in Slots /\ tail \in Slots /\ Span \in 0..(RingSize - 1)
  BY QueueKnown, RingFacts DEF TypeInv, Processor
<1>2. fate' = fate /\ call' = call /\ head' = head
  BY Zenon DEF Process, Select, CollectTail, CollectHead, CollectLoad, CollectClear, CollectAdvance,
               Write, WriteFails, BatchEnds, ring, sending
<1>3. Fates' = Fates
  BY <1>2 DEF Fates
<1>4. ASSUME UNCHANGED Unwritten, UNCHANGED wire PROVE [Fifo!Next]_(Fifo!vars)
  BY <1>3, <1>4, StepIs
\* The goroutine between two batches, or as it begins one.
<1>5. ASSUME UNCHANGED ring, UNCHANGED wire, NEW r, proc' = r,
             proc.pc \in {"select", "tail", "head"} \/ (proc.pc = "advance" /\ proc.batch = <<>>),
             r.batch = proc.batch, r.written = proc.written,
             \/ r.pc \in {"select", "tail", "exited", "send"}
             \/ r.pc = "head" /\ r.tail = tail
             \/ /\ r.pc = "load" /\ r.tail = tail /\ r.i = 0
                /\ r.n \in Nat /\ r.n <= Span
      PROVE  FifoInv' /\ [Fifo!Next]_(Fifo!vars)
  <2>1. proc.batch = <<>>
    BY <1>1, <1>5 DEF ProcOK
  <2>2. FifoInv' /\ Stored' = Stored /\ Loaded' = 0 /\ Loaded = 0
    BY <1>2, <1>5, <2>1, SelectFifo
  <2>3. Unwritten' = Unwritten
    BY <1>1, <1>5, <2>2, SameRing DEF ring
  <2>4. QED BY <1>4, <1>5, <2>2, <2>3
<1>6. CASE Select
  <2> DEFINE r == [proc EXCEPT !.pc = "tail", !.draining = (done > 0)]
  <2>1. proc.pc = "select" /\ proc' = r /\ UNCHANGED ring /\ UNCHANGED wire
    BY <1>6, Zenon DEF Select, output
  <2>2. r.pc = "tail" /\ r.batch = proc.batch /\ r.written = proc.written
    BY <1>1 DEF Processor
  <2> HIDE DEF r
  <2>3. proc.pc \in {"select", "tail", "head"} /\ r.pc \in {"select", "tail", "head"}
    BY <2>1, <2>2
  <2>4. QED BY <1>5, <2>1, <2>2, <2>3, Zenon
<1>7. CASE CollectTail
  <2> DEFINE r == [proc EXCEPT !.pc = "head", !.tail = tail]
  <2>1. proc.pc = "tail" /\ proc' = r /\ UNCHANGED ring /\ UNCHANGED wire
    BY <1>7, Zenon DEF CollectTail, output
  <2>2. r.pc = "head" /\ r.tail = tail /\ r.batch = proc.batch /\ r.written = proc.written
    BY <1>1 DEF Processor
  <2> HIDE DEF r
  <2>3. proc.pc \in {"select", "tail", "head"} /\ r.pc \in {"select", "tail", "head"}
    BY <2>1, <2>2
  <2>4. QED BY <1>5, <2>1, <2>2, <2>3, Zenon
<1>8. CASE CollectHead
  <2> DEFINE pc == IF Available = 0 THEN NothingCollected ELSE "load"
             r == [proc EXCEPT !.pc = pc, !.i = 0, !.n = Available]
  <2>1. proc.pc = "head" /\ proc' = r /\ UNCHANGED ring /\ UNCHANGED wire
    BY <1>8, Zenon DEF CollectHead, output
  <2>2. proc.tail = tail
    BY <2>1 DEF FifoInv, ProcInRing
  <2>3. Available \in Nat /\ Available <= Span
    <3>1. Available = IF Span > BatchSize THEN BatchSize ELSE Span
      BY <2>2, Zenon DEF Available, Span, Ahead
    <3>2. QED BY <1>1, <3>1, BatchAssumption
  <2>4. pc \in {"exited", "select", "load"}
    BY DEF NothingCollected
  <2> HIDE DEF pc
  <2>5. /\ r.pc = pc /\ r.i = 0 /\ r.n = Available /\ r.tail = proc.tail
        /\ r.batch = proc.batch /\ r.written = proc.written
    BY <1>1 DEF Processor
  <2> HIDE DEF r
  <2>6. /\ proc.pc \in {"select", "tail", "head"}
        /\ r.pc \in {"select", "tail", "exited", "send"} \/ r.pc = "load"
    BY <2>1, <2>4, <2>5
  <2>7. r.n \in Nat /\ r.n <= Span /\ r.tail = tail
    BY <2>2, <2>3, <2>5
  <2>8. QED BY <1>5, <2>1, <2>5, <2>6, <2>7, Zenon
<1>9. CASE CollectLoad
  <2> DEFINE m == buffer[Succ(proc.tail, proc.i)]
  <2>1. proc.pc = "load" /\ UNCHANGED ring /\ UNCHANGED wire
    BY <1>9, Zenon DEF CollectLoad, output
  <2>2. UNCHANGED buffer /\ UNCHANGED head /\ UNCHANGED tail
    BY <2>1 DEF ring
  <2>3. CASE proc.i = proc.n \/ m = None
    <3>1. \/ proc.i = proc.n /\ proc' = [proc EXCEPT !.pc = "advance"]
          \/ proc.i # proc.n /\ m = None /\ proc' = [proc EXCEPT !.i = @ + 1]
      BY <1>9, <2>3, Zenon DEF CollectLoad
    <3>2. FifoInv' /\ UNCHANGED <<Stored, Loaded>> /\ proc'.batch = proc.batch
      BY <1>2, <2>1, <3>1, PassFifo
    <3>3. proc'.written = proc.written
      BY <1>1, <3>1 DEF Processor
    <3>4. Unwritten' = Unwritten
      BY <1>1, <2>2, <3>2, <3>3, SameRing
    <3>5. QED BY <1>4, <2>1, <3>2, <3>4
  <2>4. CASE proc.i # proc.n /\ m # None
    <3>1. proc' = [proc EXCEPT !.pc = "clear", !.batch = Append(@, m)]
      BY <1>9, <2>4, Zenon DEF CollectLoad
    <3>2. m \in Msgs
      BY <1>1, <2>4, SlotType DEF Processor, TypeInv, TypeOK
    <3> HIDE DEF m
    <3>3. /\ FifoInv' /\ Stored' = Stored /\ Loaded' = Loaded + 1 /\ Loaded < Stored
          /\ m = buffer[Succ(tail, Loaded)]
          /\ proc'.batch = Append(proc.batch, m) /\ proc'.written = proc.written
      BY <1>2, <2>1, <2>4, <3>1, <3>2, LoadFifo DEF m
    <3>4. QueueIs'
      BY <3>3, QueueThen
    <3>5. Unwritten' = Unwritten
      BY <1>1, <2>2, <3>2, <3>3, <3>4, LoadQueue
    <3>6. QED BY <1>4, <2>1, <3>3, <3>5
  <2>5. QED BY <2>3, <2>4
<1>10. CASE CollectClear
  <2>1. /\ FifoInv' /\ UNCHANGED <<Stored, Loaded>>
        /\ proc'.batch = proc.batch /\ proc'.written = proc.written
        /\ \A k \in 0..(RingSize - 1) : k >= Loaded => buffer'[Succ(tail, k)] = buffer[Succ(tail, k)]
    BY <1>10, ClearFifo
  <2>2. tail' = tail /\ wire' = wire
    BY <1>10, Zenon DEF CollectClear, output
  <2>3. \A k \in Loaded..(Stored - 1) : k \in 0..(RingSize - 1) /\ k >= Loaded
    BY <1>1 DEF QueueIs
  <2>4. Unwritten' = Unwritten
    BY <1>1, <2>1, <2>2, <2>3, SameRing
  <2>5. QED BY <1>4, <2>1, <2>2, <2>4
<1>11. CASE CollectAdvance
  <2>1. proc.pc = "advance" /\ buffer' = buffer /\ wire' = wire /\ proc.written = 0
    BY <1>1, <1>11 DEF CollectAdvance, output, ProcOK
  <2>2. CASE proc.batch = <<>>
    <3> DEFINE pc == NothingCollected
               r == [proc EXCEPT !.pc = pc]
    <3>1. proc' = r /\ tail' = tail
      BY <1>11, <2>2, Zenon DEF CollectAdvance
    <3>2. pc \in {"exited", "select"}
      BY DEF NothingCollected
    <3> HIDE DEF pc
    <3>3. r.pc = pc /\ r.batch = proc.batch /\ r.written = proc.written
      BY <1>1 DEF Processor
    <3> HIDE DEF r
    <3>4. UNCHANGED ring
      BY <1>2, <2>1, <3>1 DEF ring
    <3>5. QED BY <1>5, <2>1, <2>2, <3>1, <3>2, <3>3, <3>4
  <2>3. CASE proc.batch # <<>>
    <3>1. /\ tail' = Succ(proc.tail, Len(proc.batch))
          /\ proc' = [proc EXCEPT !.pc = "send", !.written = 0]
      BY <1>11, <2>3, Zenon DEF CollectAdvance
    <3>2. /\ FifoInv' /\ Loaded' = 0 /\ Stored' = Stored - Loaded
          /\ proc'.batch = proc.batch /\ proc'.written = 0
          /\ \A k \in 0..(RingSize - 1) : Loaded + k < RingSize => Succ(tail', k) = Succ(tail, Loaded + k)
      BY <1>2, <2>1, <3>1, AdvanceFifo
    <3>3. Unwritten' = Unwritten
      BY <1>1, <2>1, <3>2, AdvanceQueue
    <3>4. QED BY <1>4, <2>1, <3>2, <3>3
  <2>4. QED BY <2>2, <2>3
\* sendBatch
<1>12. ASSUME proc.pc = "send", UNCHANGED ring, NEW r, proc' = r, r.pc \in {"send", "tail", "select"}
       PROVE  FifoInv' /\ UNCHANGED <<Stored, Loaded, tail, buffer>> /\ QueueIs'
  <2>1. FifoInv' /\ Stored' = Stored /\ Loaded' = 0 /\ Loaded = 0
    BY <1>2, <1>12, SelectFifo
  <2>2. QueueIs'
    BY <2>1, QueueThen
  <2>3. QED BY <1>12, <2>1, <2>2 DEF ring
<1>13. CASE Write
  <2> DEFINE w == proc.written + 1
             r == [proc EXCEPT !.written = w]
  <2>1. /\ proc.pc = "send" /\ UNCHANGED ring /\ proc' = r /\ wire' = Append(wire, proc.batch[w])
        /\ proc.written # Len(proc.batch)
    BY <1>13, Zenon DEF Write, BatchWritten
  <2>2. w \in Nat
    BY <1>1 DEF Processor
  <2> HIDE DEF w
  <2>3. r.pc = "send" /\ r.batch = proc.batch /\ r.written = w
    BY <1>1, <2>1, <2>2 DEF Processor
  <2> HIDE DEF r
  <2>4. FifoInv' /\ UNCHANGED <<Stored, Loaded, tail, buffer>> /\ QueueIs'
    BY <1>12, <2>1, <2>3
  <2>5. Left # 0
    BY <1>1, <2>1 DEF Left, Processor
  <2>6. /\ Unwritten # <<>> /\ Head(Unwritten) = proc.batch[w] /\ Unwritten' = Tail(Unwritten)
    BY <1>1, <2>1, <2>3, <2>4, <2>5, WriteQueue DEF w
  <2>7. QED BY <1>3, <2>1, <2>4, <2>6, StepIs
<1>14. CASE WriteFails \/ BatchEnds
  <2>1. proc.pc = "send" /\ UNCHANGED ring /\ UNCHANGED wire /\ proc' = AfterBatch
    BY <1>14, Zenon DEF WriteFails, BatchEnds, output
  <2>2. AfterBatch.pc \in {"tail", "select"} /\ AfterBatch.batch = <<>>
    BY <1>1 DEF AfterBatch, Processor
  <2>3. FifoInv' /\ UNCHANGED <<Stored, Loaded, tail, buffer>> /\ QueueIs'
    BY <1>12, <2>1, <2>2
  <2>4. /\ Left <= Len(Unwritten) /\ Unwritten' = SubSeq(Unwritten, Left + 1, Len(Unwritten))
        /\ Left = 0 => Unwritten' = Unwritten
    BY <1>1, <2>1, <2>2, <2>3, LoseQueue
  <2>5. Left \in 0..BatchSize
    BY <1>1, BatchAssumption DEF ProcOK, Processor, Left
  <2>6. CASE Left = 0
    BY <1>4, <2>1, <2>3, <2>4, <2>6
  <2>7. CASE Left # 0
    <3>1. Left \in 1..BatchSize
      BY <2>5, <2>7, BatchAssumption
    <3>2. QED BY <1>3, <2>1, <2>3, <2>4, <3>1, StepIs
  <2>8. QED BY <2>6, <2>7
<1>15. QED BY <1>6, <1>7, <1>8, <1>9, <1>10, <1>11, <1>13, <1>14, Zenon DEF Process

LEMMA StepMapped ==
    OneProducer => (TypeInv /\ OnceInv /\ FifoInv /\ TypeInv' /\ [Next]_vars
                    => FifoInv' /\ [Fifo!Next]_(Fifo!vars))
<1> SUFFICES ASSUME OneProducer, TypeInv, OnceInv, FifoInv, TypeInv', [Next]_vars
             PROVE  FifoInv' /\ [Fifo!Next]_(Fifo!vars)
  OBVIOUS
<1>1. ASSUME UNCHANGED ring, UNCHANGED fate, UNCHANGED call, UNCHANGED proc, UNCHANGED wire
      PROVE  FifoInv' /\ [Fifo!Next]_(Fifo!vars)
  <2>1. UNCHANGED buffer /\ UNCHANGED head /\ UNCHANGED tail
    BY <1>1 DEF ring
  <2>2. Span' = Span /\ Stored' = Stored /\ Loaded' = Loaded
    BY <1>1, <2>1, Zenon DEF Span, Stored, Loaded
  <2>3. CallsInRing' /\ ProcInRing' /\ RingHolds'
    BY <1>1, <2>1, <2>2, Zenon DEF FifoInv, CallsInRing, ProcInRing, RingHolds, Held
  <2>4. Fates' = Fates /\ Unwritten' = Unwritten
    BY <1>1, <2>1, <2>2, Zenon DEF Fates, Unwritten, InRing
  <2>5. QED BY <1>1, <2>3, <2>4, StepIs DEF FifoInv
<1>2. ASSUME NEW k \in Closers, Close(k) \/ CloseSwap(k)
      PROVE  FifoInv' /\ [Fifo!Next]_(Fifo!vars)
  <2>1. UNCHANGED ring /\ UNCHANGED fate /\ UNCHANGED call /\ UNCHANGED proc /\ UNCHANGED wire
    BY <1>2, Zenon DEF Close, CloseDone, CloseReturn, CloseSwap, sending, output
  <2>2. QED BY <1>1, <2>1, Zenon
<1>3. CASE UNCHANGED vars
  <2>1. UNCHANGED ring /\ UNCHANGED fate /\ UNCHANGED call /\ UNCHANGED proc /\ UNCHANGED wire
    BY <1>3 DEF vars, ring
  <2>2. QED BY <1>1, <2>1, Zenon
<1>4. QED BY <1>2, <1>3, SendMapped, ProcessMapped, Zenon DEF Next

LEMMA InitMapped == Init => FifoInv /\ Fifo!Init
<1> SUFFICES ASSUME Init PROVE FifoInv /\ Fifo!Init
  OBVIOUS
<1>1. /\ head = 0 /\ tail = 0 /\ 0 \in Slots /\ RingSize \in Nat /\ proc.pc = "select"
      /\ proc.batch = <<>> /\ proc.written = 0 /\ wire = <<>>
      /\ \A p \in Producers : call[p].pc = "idle"
      /\ \A m \in Msgs : fate[m] = "new" /\ \A s \in Slots : buffer[s] = None
  BY SlotType, BatchAssumption DEF Init
<1>2. Span = 0 /\ Stored = 0 /\ Loaded = 0
  <2>1. Ahead(0, 0) = 0
    BY <1>1, Wrapped
  <2>2. ~Claimed
    BY <1>1 DEF Claimed
  <2>3. QED BY <1>1, <2>1, <2>2, RingFacts DEF Span, Loaded
<1>3. FifoInv
  <2>1. CallsInRing /\ ProcInRing
    BY <1>1, <1>2 DEF CallsInRing, ProcInRing
  <2>2. ASSUME NEW k \in 0..(RingSize - 1) PROVE ~Held(k) /\ buffer[Succ(tail, k)] = None
    <3>1. ~Held(k)
      BY <1>1, <1>2 DEF Held
    <3>2. Succ(tail, k) \in Slots
      BY <1>1, Around
    <3>3. buffer = [i \in Slots |-> None]
      BY DEF Init
    <3>4. QED BY <3>1, <3>2, <3>3
  <2>3. QED BY <2>1, <2>2 DEF FifoInv, RingHolds
<1>4. Unwritten = <<>>
  <2>1. SubSeq(<<>>, 1, 0) = <<>> /\ Len(<<>>) = 0
    BY SubSeqEmpty
  <2>2. InRing = <<>>
    BY <1>2 DEF InRing
  <2>3. QED BY <1>1, <2>1, <2>2 DEF Unwritten
<1>5. [m \in Msgs |-> IF fate[m] = "new" THEN "pending" ELSE fate[m]] = [m \in Msgs |-> "pending"]
  BY <1>1 DEF Init
<1>6. QED BY <1>1, <1>3, <1>4, <1>5 DEF Fifo!Init

\* The writer with a single producer is a FIFO queue, for any size of the ring
\* and of a batch, however often both wrap around, whatever writes fail and
\* whenever the writer is closed: it implements FifoWriter.
THEOREM KeepsOrder == OneProducer => (Spec => FifoKept)
<1> SUFFICES ASSUME OneProducer PROVE Spec => FifoKept
  OBVIOUS
<1>1. TypeInv /\ OnceInv /\ FifoInv /\ TypeInv' /\ [Next]_vars => FifoInv' /\ [Fifo!Next]_(Fifo!vars)
  BY StepMapped
<1>2. QED BY <1>1, InitMapped, TypeInvariant, OnceHolds, PTL DEF Spec, FifoKept, Fifo!Spec
=============================================================================
