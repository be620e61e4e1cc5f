---------------------------- MODULE MCMailboxes ----------------------------
(* A store for the model checker: two users without mails in the beginning,  *)
(* of whom the POP3 server learns through AddUser.                           *)
EXTENDS Mailboxes

CONSTANTS u1, u2, m1, m2

TwoUsers == {u1, u2}
TwoMails == {m1, m2}

\* Each mail has an ID of its own.
OwnIds == [m \in Mails |-> m]

NoMails == [u \in Users |-> <<>>]

ImapUsers == ("POP3" :> {}) @@ ("IMAP" :> Users)

Pop3Plain == {<<"POP3", "plain">>}
ImapBoth == {<<"IMAP", "plain">>, <<"IMAP", "tls">>}

ArrivalSymmetry ==
    {f @@ g @@ h : f \in Permutations(Adders), g \in Permutations(Mails), h \in Permutations(Users)}
=============================================================================
