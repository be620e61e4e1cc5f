---------------------------- MODULE MCWsRegistry ----------------------------
(* Instances of WsRegistry for TLC. *)
EXTENDS WsRegistry, TLC

CONSTANTS s1, s2, c1, c2

\* Every session has an id of its own; both have the same; one changes ids.
OwnIds == s1 :> {c1} @@ s2 :> {c2}
SharedIds == s1 :> {c1} @@ s2 :> {c1}
ChangingIds == s1 :> {c1, c2} @@ s2 :> {c2}
TwoIds == s1 :> {c1, c2}

\* Addresses are interchangeable.
AddressSymmetry == Permutations(Conns) \cup Permutations(WsTopicDatas)
=============================================================================
