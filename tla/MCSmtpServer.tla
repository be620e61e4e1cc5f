---------------------------- MODULE MCSmtpServer ----------------------------
(* Instances of SmtpServer for TLC. *)
EXTENDS SmtpServer, TLC

CONSTANTS inside, outside, mx1, mx2

\* An address of the domain has no server elsewhere, the other one has two.
TwoServers == inside :> <<>> @@ outside :> <<mx1, mx2>>
=============================================================================
