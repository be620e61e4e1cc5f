----------------------------- MODULE FifoWriter -----------------------------
(***************************************************************************)
(* What a BatchWriter promises to one goroutine that sends: every message  *)
(* is accepted or refused once, and the accepted ones go to the socket in  *)
(* the order of their acceptance, each at most once.  A failed write loses *)
(* the rest of its batch; what is accepted after the writer has ended is   *)
(* never written.  BatchWriter with a single producer implements this.     *)
(***************************************************************************)
EXTENDS Naturals, Sequences

CONSTANTS Msgs,      (* messages: one per call of Send                      *)
          BatchSize  (* the most a failed write loses                       *)

VARIABLES fate,  (* fate[m]: "pending", "accepted" or "refused"             *)
          queue, (* the accepted messages that were neither written nor lost *)
          wire   (* what was written to the socket                          *)

vars == <<fate, queue, wire>>

Init ==
    /\ fate = [m \in Msgs |-> "pending"]
    /\ queue = <<>>
    /\ wire = <<>>

Accept(m) ==
    /\ fate[m] = "pending"
    /\ fate' = [fate EXCEPT ![m] = "accepted"]
    /\ queue' = Append(queue, m)
    /\ UNCHANGED wire

Refuse(m) ==
    /\ fate[m] = "pending"
    /\ fate' = [fate EXCEPT ![m] = "refused"]
    /\ UNCHANGED <<queue, wire>>

Write ==
    /\ queue # <<>>
    /\ wire' = Append(wire, Head(queue))
    /\ queue' = Tail(queue)
    /\ UNCHANGED fate

Lose(n) ==
    /\ n <= Len(queue)
    /\ queue' = SubSeq(queue, n + 1, Len(queue))
    /\ UNCHANGED <<fate, wire>>

Next ==
    \/ \E m \in Msgs : Accept(m) \/ Refuse(m)
    \/ Write
    \/ \E n \in 1..BatchSize : Lose(n)

Spec == Init /\ [][Next]_vars
=============================================================================
