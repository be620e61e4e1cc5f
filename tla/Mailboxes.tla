----------------------------- MODULE Mailboxes -----------------------------
(***************************************************************************)
(* The mailboxes of src/ksmtp: the store (mock_store.go), the sessions of  *)
(* POP3 (pop3.go) and IMAP (imap.go) that read and change it, and the      *)
(* loops of the two servers that accept connections until Stop.            *)
(*                                                                         *)
(* A command of a session is one step, but for QUIT, whose deletions are   *)
(* one each.  Commands that only answer (STAT, LIST, UIDL, RETR, TOP,      *)
(* NOOP, CAPA; STATUS, SEARCH, the placeholders of IMAP) and those that    *)
(* are refused change nothing and are no actions.  The store has no lock:  *)
(* AddEmail reads a box and writes it back.  (Where it meets another       *)
(* access to the map of boxes, the runtime may also end the program: a     *)
(* behaviour that stops there.)                                            *)
(***************************************************************************)
EXTENDS Integers, Sequences, FiniteSets, SequencesExt

CONSTANTS Users, Mails, Ids,
          IdOf,          (* the ID of each mail                              *)
          TestEmails,    (* the boxes of NewMockEmailStore                   *)
          FirstUsers,    (* the users each server is configured with         *)
          Pops, Imaps,   (* connections to the two servers                   *)
          Folders,       (* the folders of IMAP                              *)
          Adders,        (* goroutines that call AddEmail                    *)
          Ports,         (* the addresses whose loops are modelled:          *)
                         (* <<server, "plain" | "tls">>; to a server with    *)
                         (* none of them, connections come at any moment     *)
          MayFail,       (* whether GetEmails of the store may fail: the     *)
                         (* mock's does not, that of another store may       *)
          None

Servers == {"POP3", "IMAP"}
Inbox == "INBOX"

ASSUME MailboxAssumption ==
    /\ IdOf \in [Mails -> Ids]
    /\ TestEmails \in [Users -> Seq(Mails)]
    /\ FirstUsers \in [Servers -> SUBSET Users]
    /\ Inbox \in Folders
    /\ Ports \subseteq Servers \X {"plain", "tls"}
    /\ MayFail \in BOOLEAN
    /\ None \notin Users \cup Mails \cup Folders
    /\ None \notin Seq(Servers \X {"done", "plain", "tls"})

VARIABLES
    box,         (* emails: user -> mails, in their order                      *)
    deleted,     (* the mails whose Deleted is set                             *)
    users,       (* the users each server knows                                *)
    pop, imap,   (* the sessions                                               *)
    adder,       (* the calls of AddEmail                                      *)
    port,        (* the loop of each address                                   *)
    done,        (* the servers whose done is closed                           *)
    stopping,    (* what the call of Stop of each server has yet to close, or  *)
                 (* None before the call                                       *)
    proved,      (* history: the users each POP3 session has logged in as      *)
    added,       (* history: the AddEmails that returned: <<user, mail>>       *)
    overlapped   (* history: users two AddEmails dealt with at the same time   *)

store == <<box, deleted>>
sessions == <<pop, imap, proved>>
loops == <<port, done, stopping>>
adding == <<adder, added, overlapped>>
vars == <<store, users, sessions, adding, loops>>

Pop == [pc : {"closed", "commands", "quit", "signed off"},
        authenticated : BOOLEAN, username : Users \cup {None},
        emails : SUBSET Mails,         \* a message number is the mail it stands for
        marked : SUBSET Ids,           \* deletedEmails
        todo : SUBSET Ids]             \* those QUIT has yet to delete

Imap == [state : {"closed", "NOT_AUTHENTICATED", "AUTHENTICATED", "SELECTED"},
         authenticated : BOOLEAN, username : Users \cup {None},
         selectedFolder : Folders \cup {None},
         inboxOf : Users \cup {None}]  \* whose mails INBOX has; the other folders stay empty

NoPop == [pc |-> "closed", authenticated |-> FALSE, username |-> None, emails |-> {},
          marked |-> {}, todo |-> {}]

NoImap == [state |-> "closed", authenticated |-> FALSE, username |-> None,
           selectedFolder |-> None, inboxOf |-> None]

NoAdd == [user |-> None, mail |-> None, read |-> <<>>]

TypeOK ==
    /\ box \in [Users -> Seq(Mails)]
    /\ deleted \subseteq Mails
    /\ users \in [Servers -> SUBSET Users]
    /\ pop \in [Pops -> Pop] /\ imap \in [Imaps -> Imap]
    /\ adder \in [Adders -> [user : Users \cup {None}, mail : Mails \cup {None}, read : Seq(Mails)]]
    /\ port \in [Ports -> [pc : {"off", "check", "accept", "ended"},
                           listener : {"nil", "open", "closed"}]]
    /\ \A p \in Ports : port[p].pc = "ended" => port[p].listener # "open"
    /\ done \subseteq Servers
    /\ stopping \in [Servers -> Seq(Servers \X {"done", "plain", "tls"}) \cup {None}]
    /\ proved \in [Pops -> SUBSET Users]
    /\ added \subseteq Users \X Mails /\ overlapped \subseteq Users

Init ==
    /\ box = TestEmails /\ deleted = {}
    /\ users = FirstUsers
    /\ pop = [s \in Pops |-> NoPop] /\ proved = [s \in Pops |-> {}]
    /\ imap = [s \in Imaps |-> NoImap]
    /\ adder = [a \in Adders |-> NoAdd] /\ added = {} /\ overlapped = {}
    /\ port = [p \in Ports |-> [pc |-> "off", listener |-> "nil"]]
    /\ done = {} /\ stopping = [server \in Servers |-> None]

-----------------------------------------------------------------------------
(* The store *)

GetEmails(u) == ToSet(box[u]) \ deleted

\* DeleteEmail sets Deleted of the first mail with that ID, deleted or not;
\* with none it returns an error.
Deletable(u, id) ==
    LET places == {k \in DOMAIN box[u] : IdOf[box[u][k]] = id}
    IN  {box[u][k] : k \in {j \in places : \A i \in places : j <= i}}

DeleteEmail(u, id) ==
    /\ deleted' = deleted \cup Deletable(u, id)
    /\ UNCHANGED box

\* AddEmail reads the box of the user.  Each mail is an object of its own.
AddRead(a, u, m) ==
    /\ adder[a].user = None
    /\ m \notin (UNION {ToSet(TestEmails[v]) : v \in Users}) \cup {x[2] : x \in added}
    /\ \A b \in Adders : adder[b].mail # m
    /\ adder' = [adder EXCEPT ![a] = [user |-> u, mail |-> m, read |-> box[u]]]
    /\ overlapped' = overlapped \cup {v \in {u} : \E b \in Adders : adder[b].user = u}
    /\ UNCHANGED <<store, users, sessions, added, loops>>

\* Mutant: a box that exists is taken for one that does not.
ExtendedAnew(a) == <<adder[a].mail>>

Extended(a) == Append(adder[a].read, adder[a].mail)

AddWrite(a) ==
    /\ adder[a].user # None
    /\ box' = [box EXCEPT ![adder[a].user] = Extended(a)]
    /\ added' = added \cup {<<adder[a].user, adder[a].mail>>}
    /\ adder' = [adder EXCEPT ![a] = NoAdd]
    /\ UNCHANGED <<deleted, users, sessions, overlapped, loops>>

-----------------------------------------------------------------------------
(* POP3 *)

PopReady(s) == pop[s].pc = "commands"

\* USER is accepted at any time, and leaves authenticated as it is.
USER(s, u) ==
    /\ PopReady(s)
    /\ pop' = [pop EXCEPT ![s].username = u]
    /\ UNCHANGED <<store, users, imap, proved, adding, loops>>

\* Mutant: the mails of before stay when the store fails, as in IMAP.
LoadedOrOld(s, failed) == IF failed THEN pop[s].emails ELSE GetEmails(pop[s].username)

Loaded(s, failed) == IF failed THEN {} ELSE GetEmails(pop[s].username)

\* Mutant: the mails are loaded before the password is looked at.
LetInLoaded(s, failed) ==
    IF pop[s].username \in users["POP3"]
    THEN /\ pop' = [pop EXCEPT ![s].authenticated = TRUE, ![s].emails = Loaded(s, failed)]
         /\ proved' = [proved EXCEPT ![s] = @ \cup {pop[s].username}]
    ELSE pop' = [pop EXCEPT ![s].emails = Loaded(s, failed)] /\ UNCHANGED proved

LetIn(s, failed) ==
    /\ pop[s].username \in users["POP3"]
    /\ pop' = [pop EXCEPT ![s].authenticated = TRUE, ![s].emails = Loaded(s, failed)]
    /\ proved' = [proved EXCEPT ![s] = @ \cup {pop[s].username}]

\* PASS with the right password; what was marked before stays marked.
PASS(s) ==
    /\ PopReady(s) /\ pop[s].username # None
    /\ \E failed \in {FALSE, MayFail} : LetIn(s, failed)
    /\ UNCHANGED <<store, users, imap, adding, loops>>

DELE(s, m) ==
    /\ PopReady(s) /\ pop[s].authenticated /\ IdOf[m] \notin pop[s].marked
    /\ pop' = [pop EXCEPT ![s].marked = @ \cup {IdOf[m]}]
    /\ UNCHANGED <<store, users, imap, proved, adding, loops>>

RSET(s) ==
    /\ PopReady(s) /\ pop[s].authenticated
    /\ pop' = [pop EXCEPT ![s].marked = {}]
    /\ UNCHANGED <<store, users, imap, proved, adding, loops>>

QUIT(s) ==
    /\ PopReady(s)
    /\ pop' = [pop EXCEPT ![s].pc = IF @ = "commands" /\ pop[s].authenticated
                                    THEN "quit" ELSE "signed off",
                          ![s].todo = IF pop[s].authenticated THEN pop[s].marked ELSE {}]
    /\ UNCHANGED <<store, users, imap, proved, adding, loops>>

\* Mutant: the first error ends the deletions.
RemainingUntilError(s, id) ==
    IF Deletable(pop[s].username, id) = {} THEN {} ELSE pop[s].todo \ {id}

Remaining(s, id) == pop[s].todo \ {id}

\* The order is that of a Go map: any.  An error is only logged.
QuitDeletes(s, id) ==
    /\ pop[s].pc = "quit" /\ id \in pop[s].todo
    /\ DeleteEmail(pop[s].username, id)
    /\ pop' = [pop EXCEPT ![s].todo = Remaining(s, id)]
    /\ UNCHANGED <<users, imap, proved, adding, loops>>

QuitEnds(s) ==
    /\ pop[s].pc = "quit" /\ pop[s].todo = {}
    /\ pop' = [pop EXCEPT ![s].pc = "signed off"]
    /\ UNCHANGED <<store, users, imap, proved, adding, loops>>

\* After QUIT, or because the peer is gone or silent for ten minutes.
PopCloses(s) ==
    /\ pop[s].pc \in {"commands", "signed off"}
    /\ pop' = [pop EXCEPT ![s] = NoPop] /\ proved' = [proved EXCEPT ![s] = {}]
    /\ UNCHANGED <<store, users, imap, adding, loops>>

-----------------------------------------------------------------------------
(* IMAP *)

ImapReady(s) == imap[s].state # "closed"

\* LOGIN with the right password, at any time; the folder stays selected in
\* selectedFolder, and with a failing store the mails of before in INBOX.
LOGIN(s, u) ==
    /\ ImapReady(s) /\ u \in users["IMAP"]
    /\ \E failed \in {FALSE, MayFail} :
          imap' = [imap EXCEPT ![s].authenticated = TRUE, ![s].username = u,
                               ![s].state = "AUTHENTICATED",
                               ![s].inboxOf = IF failed THEN @ ELSE u]
    /\ UNCHANGED <<store, users, pop, proved, adding, loops>>

\* SELECT and EXAMINE
SELECT(s, f) ==
    /\ ImapReady(s) /\ imap[s].authenticated
    /\ imap' = [imap EXCEPT ![s].selectedFolder = f, ![s].state = "SELECTED"]
    /\ UNCHANGED <<store, users, pop, proved, adding, loops>>

\* Mutant: the state is not set back.
FolderClosedOnly(s) == [imap[s] EXCEPT !.selectedFolder = None]

FolderClosed(s) == [imap[s] EXCEPT !.selectedFolder = None, !.state = "AUTHENTICATED"]

\* CLOSE asks for no login.
CLOSE(s) ==
    /\ ImapReady(s)
    /\ imap' = [imap EXCEPT ![s] = FolderClosed(s)]
    /\ UNCHANGED <<store, users, pop, proved, adding, loops>>

\* LOGOUT, a failed handshake of STARTTLS, a peer that is gone.
ImapCloses(s) ==
    /\ ImapReady(s)
    /\ imap' = [imap EXCEPT ![s] = NoImap]
    /\ UNCHANGED <<store, users, pop, proved, adding, loops>>

-----------------------------------------------------------------------------
(* The servers *)

AddUser(server, u) ==
    /\ u \notin users[server]
    /\ users' = [users EXCEPT ![server] = @ \cup {u}]
    /\ UNCHANGED <<store, sessions, adding, loops>>

\* startServer and startServerTLS: the listener is opened and kept in a field
\* for Stop, or cannot be opened.
Listen(p) ==
    /\ port[p].pc = "off"
    /\ \/ port' = [port EXCEPT ![p] = [pc |-> "check", listener |-> "open"]]
       \/ port' = [port EXCEPT ![p].pc = "ended"]
    /\ UNCHANGED <<store, users, sessions, adding, done, stopping>>

\* Mutant: the loop returns and leaves its listener open.
LoopLeft(p) == [port[p] EXCEPT !.pc = "ended"]

\* The loop returns, and its deferred Close closes the listener.
LoopEnded(p) == [pc |-> "ended", listener |-> "closed"]

CheckDone(p) ==
    /\ port[p].pc = "check"
    /\ port' = [port EXCEPT ![p] = IF p[1] \in done THEN LoopEnded(p)
                                   ELSE [port[p] EXCEPT !.pc = "accept"]]
    /\ UNCHANGED <<store, users, sessions, adding, done, stopping>>

\* The loops of the server are modelled.
Looped(server) == \E p \in Ports : p[1] = server

\* A session starts.
Connect(server) ==
    \/ \E s \in Pops : /\ server = "POP3" /\ pop[s].pc = "closed"
                       /\ pop' = [pop EXCEPT ![s] = [NoPop EXCEPT !.pc = "commands"]]
                       /\ UNCHANGED imap
    \/ \E s \in Imaps : /\ server = "IMAP" /\ imap[s].state = "closed"
                        /\ imap' = [imap EXCEPT ![s] = [NoImap EXCEPT !.state = "NOT_AUTHENTICATED"]]
                        /\ UNCHANGED pop

\* Accept returns: with a connection, because its deadline has passed (TLS
\* listeners have none), or because the listener is closed.
Accept(p) ==
    /\ port[p].pc = "accept" /\ port[p].listener = "open"
    /\ port' = [port EXCEPT ![p].pc = "check"]
    /\ Connect(p[1]) \/ (p[2] = "plain" /\ UNCHANGED <<pop, imap>>)
    /\ UNCHANGED <<store, users, proved, adding, done, stopping>>

AcceptElsewhere(server) ==
    /\ ~Looped(server) /\ Connect(server)
    /\ UNCHANGED <<store, users, proved, adding, loops>>

AcceptFails(p) ==
    /\ port[p].pc = "accept" /\ port[p].listener = "closed"
    /\ port' = [port EXCEPT ![p].pc = IF p[1] \in done THEN "ended" ELSE "check"]
    /\ UNCHANGED <<store, users, sessions, adding, done, stopping>>

\* Mutant: Stop closes the listeners, and then done.
StopOrderSwapped(server) == <<<<server, "plain">>, <<server, "tls">>, <<server, "done">>>>

\* Stop closes done, and then the listeners that are there.
StopOrder(server) == <<<<server, "done">>, <<server, "plain">>, <<server, "tls">>>>

Stop(server) ==
    /\ stopping[server] = None /\ Looped(server)
    /\ stopping' = [stopping EXCEPT ![server] = StopOrder(server)]
    /\ UNCHANGED <<store, users, sessions, adding, port, done>>

StopStep(server) ==
    /\ stopping[server] \notin {None, <<>>}
    /\ stopping' = [stopping EXCEPT ![server] = Tail(@)]
    /\ done' = done \cup {srv \in {server} : Head(stopping[server])[2] = "done"}
    /\ port' = [p \in Ports |-> IF p = Head(stopping[server]) /\ port[p].listener = "open"
                                THEN [port[p] EXCEPT !.listener = "closed"] ELSE port[p]]
    /\ UNCHANGED <<store, users, sessions, adding>>

-----------------------------------------------------------------------------
PopStep(s) ==
    \/ \E u \in Users : USER(s, u)
    \/ PASS(s) \/ RSET(s) \/ QUIT(s) \/ QuitEnds(s) \/ PopCloses(s)
    \/ \E m \in pop[s].emails : DELE(s, m)
    \/ \E id \in pop[s].todo : QuitDeletes(s, id)

ImapStep(s) ==
    \/ \E u \in Users : LOGIN(s, u)
    \/ \E f \in Folders : SELECT(s, f)
    \/ CLOSE(s) \/ ImapCloses(s)

ServerStep ==
    \/ \E p \in Ports : Listen(p) \/ CheckDone(p) \/ Accept(p) \/ AcceptFails(p)
    \/ \E server \in Servers :
          \/ AcceptElsewhere(server) \/ Stop(server) \/ StopStep(server)
          \/ \E u \in Users : AddUser(server, u)

Next ==
    \/ \E s \in Pops : PopStep(s)
    \/ \E s \in Imaps : ImapStep(s)
    \/ \E a \in Adders : AddWrite(a) \/ \E u \in Users, m \in Mails : AddRead(a, u, m)
    \/ ServerStep

Spec == Init /\ [][Next]_vars

-----------------------------------------------------------------------------
(* Properties *)

\* A mail is deleted by a QUIT only: for a session that has logged in with
\* PASS as the user whose box holds the mail, and that marked it.  USER alone,
\* which changes the name of a session that is logged in, deletes nothing of
\* the new name's.
DeletionsAreOfTheOwner ==
    [][\A m \in deleted' \ deleted :
          \E s \in Pops : /\ pop[s].pc = "quit" /\ IdOf[m] \in pop[s].marked
                          /\ pop[s].username \in proved[s] /\ m \in ToSet(box[pop[s].username])]_vars

\* When QUIT has answered, everything that was marked in the box of the
\* session's user is deleted, whatever errors came in between (from mails that
\* were marked for an earlier user of the session).  Where AddEmails of the user
\* overlapped, one may have taken a mail out of the box before QUIT looked for
\* it, and another may bring it back.
QuitDeletesMarked ==
    \A s \in Pops :
        /\ pop[s].pc = "signed off" /\ pop[s].authenticated
        /\ pop[s].username \notin overlapped
        => \A m \in ToSet(box[pop[s].username]) : IdOf[m] \in pop[s].marked => m \in deleted

\* The list that the message numbers of a POP3 session refer to is that of one
\* user, as who the session has logged in: also after a second login, and
\* when the store fails (AddEmails that overlap may take mails out of a box).
ListIsOfOneLogin ==
    \A s \in Pops : pop[s].emails # {} =>
        \E u \in proved[s] : u \in overlapped \/ pop[s].emails \subseteq ToSet(box[u])

\* In the state SELECTED a session is logged in and has a folder: FETCH asks
\* only for the state and dereferences the folder, and a nil would end the
\* program.
SelectedIsUsable ==
    \A s \in Imaps : imap[s].state = "SELECTED" =>
        imap[s].authenticated /\ imap[s].selectedFolder \in Folders

\* A mail whose AddEmail has returned stays in its box, as long as no two
\* AddEmails for one user overlap.
AddedStays == \A x \in added : x[1] \notin overlapped => x[2] \in ToSet(box[x[1]])

\* When Stop has returned, no loop waits in Accept at a listener that is
\* still open, whether Stop came before the listener, after it or in between:
\* a TLS listener has no deadline that would wake the loop up.
StopReachesEveryListener ==
    \A server \in Servers : stopping[server] = <<>> =>
        \A p \in Ports : p[1] = server /\ port[p].pc = "accept" => port[p].listener = "closed"

-----------------------------------------------------------------------------
(* What comments claim and the code does not do. *)

\* "QUIT : Fermer et appliquer suppressions": what was marked is deleted.
QuitAppliesMarks ==
    \A s \in Pops : pop[s].pc = "signed off" =>
        \A m \in pop[s].emails : IdOf[m] \in pop[s].marked => m \in deleted

\* "Load emails into INBOX": they are those of the user who has logged in.
InboxIsOwn == \A s \in Imaps : imap[s].inboxOf \in {imap[s].username, None}

\* "ÉTATS DE SESSION: AUTHENTICATED : Authentifié"
StateMeansLogin == \A s \in Imaps : imap[s].state = "AUTHENTICATED" => imap[s].authenticated

\* "AddEmail adds a new email to the store", for every call.
AddedAlwaysStays == \A x \in added : x[2] \in ToSet(box[x[1]])
=============================================================================
