--------------------------- MODULE MCBatchWriter ---------------------------
(* Instances of BatchWriter for TLC. *)
EXTENDS BatchWriter, TLC

\* Messages, producers and closers are interchangeable in the runs that check
\* no liveness.
WriterSymmetry == Permutations(Msgs) \cup Permutations(Producers) \cup Permutations(Closers)
=============================================================================
