---------------------------- MODULE BatchWriter ----------------------------
(***************************************************************************)
(* The batched writer of a WebSocket connection (src/ksps/batch.go): the   *)
(* lock-free ring that Send and TrySend fill, the one goroutine that       *)
(* empties it in batches (processBatches, collectBatch, sendBatch,         *)
(* drainAndSend), and Close.                                               *)
(*                                                                         *)
(* Every atomic load, store and compare-and-swap is an action: the code    *)
(* has no lock.  The producers are the goroutines that call Send, the      *)
(* workers of the bus; the closers those that call Close.                  *)
(***************************************************************************)
EXTENDS Integers, Sequences

CONSTANTS Producers, (* goroutines that send                                 *)
          Closers,   (* goroutines that close the writer                     *)
          Msgs,      (* messages: one per call of Send or TrySend            *)
          RingSize,  (* slots of the ring (16384 in the code)                *)
          BatchSize, (* the most messages of a batch (64 in the code)        *)
          MayFail,   (* whether writes to the socket fail                    *)
          None       (* nil                                                  *)

ASSUME BatchAssumption ==
    /\ RingSize \in Nat \ {0, 1}
    /\ BatchSize \in Nat \ {0}
    /\ MayFail \in BOOLEAN
    /\ None \notin Msgs

VARIABLES
    buffer,   (* the slots                                                    *)
    head,     (* the slot the next message goes to                            *)
    tail,     (* the slot the next batch begins with                          *)
    active,   (* whether Send accepts messages                                *)
    done,     (* how often the done channel was closed                        *)
    fate,     (* fate[m]: "new", "pending" in a call, "accepted", "refused"   *)
    call,     (* the call of Send a producer is in, and its local variables   *)
    closer,   (* where a call of Close stands                                 *)
    proc,     (* the goroutine processBatches, and its local variables        *)
    wire,     (* what was written to the socket                               *)
    released  (* released[m]: how often m's pooled copy went back to the pool *)

vars == <<buffer, head, tail, active, done, fate, call, closer, proc, wire, released>>
ring == <<buffer, head, tail>>
sending == <<fate, call>>
closing == <<active, done, closer>>
output == <<wire, released>>

Slots == 0..(RingSize - 1)
Succ(i, n) == (i + n) % RingSize

Call == [pc : {"idle", "loop", "tail", "claim", "store"}, msg : Msgs \cup {None}, head : Slots]

\* i: the slots of the batch looked at; n: how many there are; written: the
\* messages of the batch written so far.
Processor ==
    [pc : {"select", "tail", "head", "load", "clear", "advance", "send", "exited"},
     tail : Slots, i : Nat, n : Nat, batch : Seq(Msgs), written : Nat, draining : BOOLEAN]

\* Types, and the size of a batch.
TypeOK ==
    /\ buffer \in [Slots -> Msgs \cup {None}]
    /\ head \in Slots /\ tail \in Slots
    /\ active \in BOOLEAN
    /\ done \in Nat
    /\ fate \in [Msgs -> {"new", "pending", "accepted", "refused"}]
    /\ call \in [Producers -> Call]
    /\ closer \in [Closers -> {"idle", "swapped", "waiting", "returned"}]
    /\ proc \in Processor
    /\ Len(proc.batch) <= BatchSize /\ proc.written <= Len(proc.batch)
    /\ wire \in Seq(Msgs)
    /\ released \in [Msgs -> Nat]

Init ==
    /\ buffer = [i \in Slots |-> None]
    /\ head = 0 /\ tail = 0
    /\ active = TRUE
    /\ done = 0
    /\ fate = [m \in Msgs |-> "new"]
    /\ call = [p \in Producers |-> [pc |-> "idle", msg |-> None, head |-> 0]]
    /\ closer = [k \in Closers |-> "idle"]
    /\ proc = [pc |-> "select", tail |-> 0, i |-> 0, n |-> 0, batch |-> <<>>, written |-> 0,
               draining |-> FALSE]
    /\ wire = <<>>
    /\ released = [m \in Msgs |-> 0]

-----------------------------------------------------------------------------
(* Send and TrySend. *)

Return(p, verdict) ==
    /\ fate' = [fate EXCEPT ![call[p].msg] = verdict]
    /\ call' = [call EXCEPT ![p] = [pc |-> "idle", msg |-> None, head |-> 0]]

SendCheck(p, m) ==
    /\ call[p].pc = "idle"
    /\ fate[m] = "new"
    /\ IF active
       THEN /\ fate' = [fate EXCEPT ![m] = "pending"]
            /\ call' = [call EXCEPT ![p].pc = "loop", ![p].msg = m]
       ELSE fate' = [fate EXCEPT ![m] = "refused"] /\ UNCHANGED call
    /\ UNCHANGED <<ring, closing, proc, output>>

SendHead(p) ==
    /\ call[p].pc = "loop"
    /\ call' = [call EXCEPT ![p].pc = "tail", ![p].head = head]
    /\ UNCHANGED <<ring, fate, closing, proc, output>>

\* Mutant: every slot is used, so that a full ring looks like an empty one.
FullWhenAllUsed(p) == FALSE

Full(p) == Succ(call[p].head, 1) = tail

\* A full ring is tried again, at most 120 times by Send and not by TrySend.
SendTail(p) ==
    /\ call[p].pc = "tail"
    /\ \/ ~Full(p) /\ call' = [call EXCEPT ![p].pc = "claim"] /\ UNCHANGED fate
       \/ Full(p) /\ call' = [call EXCEPT ![p].pc = "loop"] /\ UNCHANGED fate
       \/ Full(p) /\ Return(p, "refused")
    /\ UNCHANGED <<ring, closing, proc, output>>

\* The compare-and-swap; when it fails, Send tries again and TrySend gives up.
SendClaim(p) ==
    /\ call[p].pc = "claim"
    /\ \/ /\ head = call[p].head
          /\ head' = Succ(head, 1)
          /\ call' = [call EXCEPT ![p].pc = "store"]
          /\ UNCHANGED fate
       \/ /\ head # call[p].head
          /\ call' = [call EXCEPT ![p].pc = "loop"]
          /\ UNCHANGED <<head, fate>>
       \/ /\ head # call[p].head
          /\ Return(p, "refused")
          /\ UNCHANGED head
    /\ UNCHANGED <<buffer, tail, closing, proc, output>>

SendStore(p) ==
    /\ call[p].pc = "store"
    /\ buffer' = [buffer EXCEPT ![call[p].head] = call[p].msg]
    /\ Return(p, "accepted")
    /\ UNCHANGED <<head, tail, closing, proc, output>>

-----------------------------------------------------------------------------
(* processBatches and collectBatch. *)

Select ==
    /\ proc.pc = "select"
    /\ proc' = [proc EXCEPT !.pc = "tail", !.draining = (done > 0)]
    /\ UNCHANGED <<ring, sending, closing, output>>

CollectTail ==
    /\ proc.pc = "tail"
    /\ proc' = [proc EXCEPT !.pc = "head", !.tail = tail]
    /\ UNCHANGED <<ring, sending, closing, output>>

\* Nothing was collected: the final drain is over, the loop goes on.
NothingCollected == IF proc.draining THEN "exited" ELSE "select"

\* Mutant: no limit.
AvailableUnlimited == (head + RingSize - proc.tail) % RingSize

Available ==
    LET n == (head + RingSize - proc.tail) % RingSize
    IN  IF n > BatchSize THEN BatchSize ELSE n

CollectHead ==
    /\ proc.pc = "head"
    /\ proc' = [proc EXCEPT !.pc = IF Available = 0 THEN NothingCollected ELSE "load",
                            !.i = 0, !.n = Available]
    /\ UNCHANGED <<ring, sending, closing, output>>

\* A slot that was claimed but not filled yet is passed over.
CollectLoad ==
    /\ proc.pc = "load"
    /\ proc' = IF proc.i = proc.n THEN [proc EXCEPT !.pc = "advance"]
               ELSE IF buffer[Succ(proc.tail, proc.i)] = None THEN [proc EXCEPT !.i = @ + 1]
               ELSE [proc EXCEPT !.pc = "clear",
                                 !.batch = Append(@, buffer[Succ(proc.tail, proc.i)])]
    /\ UNCHANGED <<ring, sending, closing, output>>

\* Mutant: the slot keeps its message.
Kept(slots) == slots

Cleared(slots) == [slots EXCEPT ![Succ(proc.tail, proc.i)] = None]

CollectClear ==
    /\ proc.pc = "clear"
    /\ buffer' = Cleared(buffer)
    /\ proc' = [proc EXCEPT !.pc = "load", !.i = @ + 1]
    /\ UNCHANGED <<head, tail, sending, closing, output>>

\* The tail moves by the number of messages found, not of slots looked at.
CollectAdvance ==
    /\ proc.pc = "advance"
    /\ IF proc.batch = <<>>
       THEN proc' = [proc EXCEPT !.pc = NothingCollected] /\ UNCHANGED tail
       ELSE /\ tail' = Succ(proc.tail, Len(proc.batch))
            /\ proc' = [proc EXCEPT !.pc = "send", !.written = 0]
    /\ UNCHANGED <<buffer, head, sending, closing, output>>

-----------------------------------------------------------------------------
(* sendBatch *)

\* What follows a batch: the drain loop or the select.
AfterBatch ==
    [proc EXCEPT !.pc = IF proc.draining THEN "tail" ELSE "select",
                 !.batch = <<>>, !.written = 0]

BatchWritten == proc.written = Len(proc.batch)

Write ==
    /\ proc.pc = "send" /\ ~BatchWritten
    /\ LET m == proc.batch[proc.written + 1] IN
       /\ wire' = Append(wire, m)
       /\ released' = [released EXCEPT ![m] = @ + 1]
    /\ proc' = [proc EXCEPT !.written = @ + 1]
    /\ UNCHANGED <<ring, sending, closing>>

\* A write fails: the rest of the batch is given up, and the whole batch is
\* put back into the pool.
WriteFails ==
    /\ proc.pc = "send" /\ ~BatchWritten
    /\ MayFail
    /\ released' = [m \in Msgs |-> IF \E k \in DOMAIN proc.batch : proc.batch[k] = m
                                   THEN released[m] + 1 ELSE released[m]]
    /\ proc' = AfterBatch
    /\ UNCHANGED <<ring, sending, closing, wire>>

BatchEnds ==
    /\ proc.pc = "send" /\ BatchWritten
    /\ proc' = AfterBatch
    /\ UNCHANGED <<ring, sending, closing, output>>

-----------------------------------------------------------------------------
(* Close: active is swapped, done closed, and the goroutine waited for. *)

\* Mutant: active is read here and cleared by the next step.
LoadActive(k) ==
    /\ closer[k] = "idle"
    /\ closer' = [closer EXCEPT ![k] = IF active THEN "swapped" ELSE "returned"]
    /\ UNCHANGED <<ring, sending, active, done, proc, output>>

CloseSwap(k) ==
    /\ closer[k] = "idle"
    /\ closer' = [closer EXCEPT ![k] = IF active THEN "swapped" ELSE "returned"]
    /\ active' = FALSE
    /\ UNCHANGED <<ring, sending, done, proc, output>>

\* Mutant: only active is cleared, the goroutine is not told.
TellNobody == done

Tell == done + 1

CloseDone(k) ==
    /\ closer[k] = "swapped"
    /\ closer' = [closer EXCEPT ![k] = "waiting"]
    /\ done' = Tell
    /\ UNCHANGED <<ring, sending, active, proc, output>>

CloseReturn(k) ==
    /\ closer[k] = "waiting" /\ proc.pc = "exited"
    /\ closer' = [closer EXCEPT ![k] = "returned"]
    /\ UNCHANGED <<ring, sending, active, done, proc, output>>

-----------------------------------------------------------------------------
Send(p) == SendHead(p) \/ SendTail(p) \/ SendClaim(p) \/ SendStore(p)
Process ==
    \/ Select \/ CollectTail \/ CollectHead \/ CollectLoad \/ CollectClear \/ CollectAdvance
    \/ Write \/ WriteFails \/ BatchEnds
Close(k) == CloseDone(k) \/ CloseReturn(k)

Next ==
    \/ \E p \in Producers : Send(p) \/ \E m \in Msgs : SendCheck(p, m)
    \/ Process
    \/ \E k \in Closers : Close(k) \/ CloseSwap(k)

Spec == Init /\ [][Next]_vars

\* Goroutines run: the processor, and a Send or a Close that has begun.
FairSpec ==
    /\ Spec
    /\ WF_vars(Process)
    /\ \A p \in Producers : WF_vars(Send(p))
    /\ \A k \in Closers : WF_vars(Close(k))

-----------------------------------------------------------------------------
(* Safety. *)

\* Nothing is written twice, with any number of producers.
WrittenOnce == \A i, j \in DOMAIN wire : wire[i] = wire[j] => i = j

\* done is closed once, however many goroutines close the writer: a second
\* close would panic.
DoneClosedOnce == done <= 1

\* With a single producer the writer is a FIFO queue.  Stored: the slots from
\* the tail on that were filled; Loaded: how many of them are in the batch and
\* the tail has not passed them yet.  What is left of the batch comes first.
Stored ==
    ((head + RingSize - tail) % RingSize)
        - (IF \E p \in Producers : call[p].pc = "store" THEN 1 ELSE 0)

Loaded == IF proc.pc \in {"load", "clear", "advance"} THEN Len(proc.batch) ELSE 0

InRing == [n \in 1..(Stored - Loaded) |-> buffer[Succ(tail, Loaded + n - 1)]]

Unwritten == SubSeq(proc.batch, proc.written + 1, Len(proc.batch)) \o InRing

Fifo ==
    INSTANCE FifoWriter WITH
        queue <- Unwritten,
        fate <- [m \in Msgs |-> IF fate[m] = "new" THEN "pending" ELSE fate[m]]

FifoKept == Fifo!Spec

-----------------------------------------------------------------------------
(* Liveness, under FairSpec. *)

\* With a single producer, what was accepted before the writer was closed
\* does not stay in the ring: it is written, or given up with its batch when
\* a write fails, and its copy goes back to the pool.
AcceptedIsHandled == \A m \in Msgs : (fate[m] = "accepted" /\ active) ~> (released[m] > 0)

\* Close returns: the processor ends its drain.
CloseReturns == \A k \in Closers : (closer[k] # "idle") ~> (closer[k] = "returned")

-----------------------------------------------------------------------------
(* What comments claim and the code does not do. *)

\* "Returns true if queued", and bus.go: "ne drop pas les messages": what was
\* accepted is written, as long as no write fails.  Under FairSpec.
AcceptedIsWritten ==
    \A m \in Msgs : (fate[m] = "accepted") ~> (\E i \in DOMAIN wire : wire[i] = m)

\* "release any remaining pooled messages": a pooled message goes back to the
\* pool once; twice, and two later messages share one object.
ReleasedOnce == \A m \in Msgs : released[m] <= 1
=============================================================================
