----------------------------- MODULE MCTopicBus -----------------------------
(* Instances of TopicBus for TLC. *)
EXTENDS TopicBus, TLC

\* Subscribers, messages and addresses are interchangeable in the runs whose
\* configuration singles none of them out and that check no liveness.
BusSymmetry == Permutations(Subs) \cup Permutations(Msgs) \cup Permutations(TopicDatas)
MessageSymmetry == Permutations(Msgs) \cup Permutations(TopicDatas)
AddressSymmetry == Permutations(TopicDatas)
=============================================================================
