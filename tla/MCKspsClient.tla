---------------------------- MODULE MCKspsClient ----------------------------
(* Instances of KspsClient for TLC. *)
EXTENDS KspsClient, TLC

CONSTANTS t1, t2

Program(topics, leaves, publishes, closes) ==
    [topics |-> topics, leaves |-> leaves, publishes |-> publishes, closes |-> closes]

\* Programs that subscribe; that also leave, publish, or close; and mixtures.
Subscribing == {Program({t1}, {}, FALSE, FALSE)}
Publishing  == {Program({t1}, {}, TRUE, FALSE)}
Closing     == {Program({t1}, {}, FALSE, TRUE)}
Leaving     == {Program({t2}, {t2}, FALSE, FALSE)}
LeavingOrClosing == Leaving \cup {Program({}, {}, FALSE, TRUE)}
Busy        == {Program({t1, t2}, {t2}, TRUE, FALSE)}
OneCallEach == Publishing \cup Leaving \cup Closing

\* Goroutines and connections are interchangeable in the runs that check no liveness.
ClientSymmetry == Permutations(Sessions) \cup Permutations(Reconnectors)
=============================================================================
