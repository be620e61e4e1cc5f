----------------------------- MODULE SmtpServer -----------------------------
(***************************************************************************)
(* The SMTP server (src/ksmtp/server.go): Start with its accept loop, Stop *)
(* and OnRecv, the commands of a session, what becomes of a message        *)
(* (processEmail: parsed, checked, handed to the program, or relayed), and *)
(* the program's own SendEmail and SendEmailViaTunnel.  The servers a      *)
(* message is relayed to refuse, break, or lose their last answer.         *)
(*                                                                         *)
(* The filter is that of SpamFilter, of which only the verdict is seen.    *)
(* The commands that only answer (EHLO, HELO, NOOP, HELP, VRFY, EXPN, what *)
(* is not a command, and AUTH that fails) change nothing and are no steps. *)
(***************************************************************************)
EXTENDS Naturals, Sequences, FiniteSets

CONSTANTS Sessions,   (* bound: connections at one time                           *)
          Callers,    (* bound: goroutines of the program in SendEmail            *)
          Mails,      (* bound: messages; each is sent once by its client         *)
          Senders,    (* addresses of MAIL FROM                                   *)
          Locals,     (* addresses that contain ss.Domain                         *)
          Remotes,    (* others, with one "@"                                     *)
          Odd,        (* others, without                                          *)
          Servers,    (* the servers that messages are relayed to                 *)
          Mx,         (* the servers of an address, in the order of LookupMX      *)
          DevRelay,   (* the server of the development mode, None without it      *)
          Tunnel,     (* localhost:25                                             *)
          HasTls, HasUsers, requireAuthForRelay, requireAuthForLocal,
          Endless,    (* the mails whose multipart body is cut off: NextPart has  *)
                      (* an error that is not EOF, and ParseRawEmail never ends   *)
          None        (* "" and nil                                               *)

Addresses == Locals \cup Remotes \cup Odd

ASSUME SmtpAssumption ==
    /\ Mx \in [Locals \cup Remotes -> Seq(Servers)]
    /\ Tunnel \in Servers /\ DevRelay \in Servers \cup {None}
    /\ {HasTls, HasUsers, requireAuthForRelay, requireAuthForLocal} \subseteq BOOLEAN
    /\ Endless \subseteq Mails
    /\ Sessions \cap Callers = {}
    /\ None \notin Senders \cup Addresses \cup Servers \cup Mails
    /\ None \notin {"ACCEPT", "QUARANTINE", "REJECT", "unheard", "success", "failure"}

VARIABLES
    done,      (* ss.done is closed                                               *)
    socket,    (* the listening socket                                            *)
    listener,  (* ss.listener is set                                              *)
    loop,      (* the goroutine of Start                                          *)
    stop,      (* the call of Stop                                                *)
    onRecv,    (* ss.onRecv is set                                                *)
    at,        (* where each session and each caller stands                       *)
    session,   (* mailFrom, rcptTo and authenticated                              *)
    letter,    (* the message a session or caller is about, and the servers left  *)
    fate       (* history: what became of each message                            *)

server == <<done, socket, listener, loop, stop, onRecv>>
vars == <<done, socket, listener, loop, stop, onRecv, at, session, letter, fate>>

Parties == Sessions \cup Callers

\* agreed is history: whether the last RCPT was answered 250.
Session == [from : Senders \cup {None}, to : Addresses \cup {None}, agreed : BOOLEAN,
            authenticated : BOOLEAN]
Letter == [mail : Mails \cup {None}, todo : Seq(Servers)]

\* route: the servers that are to be tried; refused: those that were; copies:
\* how many took it; handed: how often onRecv got it; outcome: what relayEmail
\* or SendEmail found.
Fate == [sent : BOOLEAN, route : SUBSET Servers, refused : SUBSET Servers, copies : Nat,
         handed : Nat, verdict : {None, "ACCEPT", "QUARANTINE", "REJECT", "unheard"},
         outcome : {None, "success", "failure"}, answered : BOOLEAN]

NewSession == [from |-> None, to |-> None, agreed |-> FALSE, authenticated |-> FALSE]
NoLetter == [mail |-> None, todo |-> <<>>]
Unsent == [sent |-> FALSE, route |-> {}, refused |-> {}, copies |-> 0, handed |-> 0,
           verdict |-> None, outcome |-> None, answered |-> FALSE]

TypeOK ==
    /\ {done, listener, onRecv} \subseteq BOOLEAN
    /\ socket \in {"none", "open", "closed"}
    /\ loop \in {"off", "assign", "select", "accept", "over"}
    /\ stop \in {"idle", "close", "over"}
    /\ at \in [Parties -> {"off", "command", "login", "data", "parse", "check", "hand",
                           "server", "end", "answer"}]
    /\ session \in [Sessions -> Session]
    /\ letter \in [Parties -> Letter]
    /\ fate \in [Mails -> Fate]

Init ==
    /\ done = FALSE /\ socket = "none" /\ listener = FALSE /\ loop = "off" /\ stop = "idle"
    /\ onRecv = FALSE
    /\ at = [w \in Parties |-> "off"]
    /\ session = [s \in Sessions |-> NewSession]
    /\ letter = [w \in Parties |-> NoLetter]
    /\ fate = [m \in Mails |-> Unsent]

-----------------------------------------------------------------------------
(* Start, Stop and OnRecv.  Nothing orders the assignment of ss.listener and *)
(* its use by Stop.                                                         *)

Listen ==
    /\ loop = "off"
    /\ \/ socket' = "open" /\ loop' = "assign"
       \/ socket' = "none" /\ loop' = "over"
    /\ UNCHANGED <<done, listener, stop, onRecv, at, session, letter, fate>>

Assign ==
    /\ loop = "assign"
    /\ listener' = TRUE /\ loop' = "select"
    /\ UNCHANGED <<done, socket, stop, onRecv, at, session, letter, fate>>

\* The goroutine returns, and closes the socket; or it waits in Accept.
Returns == loop' = "over" /\ socket' = "closed"

Select ==
    /\ loop = "select"
    /\ IF done THEN Returns ELSE loop' = "accept" /\ UNCHANGED socket
    /\ UNCHANGED <<done, listener, stop, onRecv, at, session, letter, fate>>

Accept(s) ==
    /\ loop = "accept" /\ socket = "open" /\ at[s] = "off"
    /\ at' = [at EXCEPT ![s] = "command"]
    /\ session' = [session EXCEPT ![s] = NewSession]
    /\ loop' = "select"
    /\ UNCHANGED <<done, socket, listener, stop, onRecv, letter, fate>>

\* Mutant: Accept has no deadline.
AcceptWithoutDeadline == loop = "accept" /\ socket = "open" /\ UNCHANGED vars

\* The deadline of one second.
AcceptTimeout ==
    /\ loop = "accept" /\ socket = "open"
    /\ loop' = "select"
    /\ UNCHANGED <<done, socket, listener, stop, onRecv, at, session, letter, fate>>

\* Stop closed the socket.
AcceptClosed ==
    /\ loop = "accept" /\ socket = "closed"
    /\ IF done THEN Returns ELSE loop' = "select" /\ UNCHANGED socket
    /\ UNCHANGED <<done, listener, stop, onRecv, at, session, letter, fate>>

Stop ==
    /\ stop = "idle"
    /\ done' = TRUE /\ stop' = "close"
    /\ UNCHANGED <<socket, listener, loop, onRecv, at, session, letter, fate>>

StopListener ==
    /\ stop = "close"
    /\ socket' = IF listener THEN "closed" ELSE socket
    /\ stop' = "over"
    /\ UNCHANGED <<done, listener, loop, onRecv, at, session, letter, fate>>

OnRecv ==
    /\ ~onRecv
    /\ onRecv' = TRUE
    /\ UNCHANGED <<done, socket, listener, loop, stop, at, session, letter, fate>>

-----------------------------------------------------------------------------
(* The commands of a session *)

Goto(w, label) == at' = [at EXCEPT ![w] = label]

\* A command is read, or the connection ends: an error, thirty seconds without
\* a line, QUIT, a message above MaxEmailSize, a handshake that fails.
Leaves(s) ==
    /\ at[s] \in {"command", "login", "data"}
    /\ Goto(s, "off")
    /\ letter' = [letter EXCEPT ![s] = NoLetter]
    /\ UNCHANGED <<server, session, fate>>

MailFrom(s) ==
    /\ at[s] = "command"
    /\ \E a \in Senders : session' = [session EXCEPT ![s].from = a]
    /\ UNCHANGED <<server, at, letter, fate>>

requiresAuthentication(to) ==
    IF to \in Locals THEN requireAuthForLocal ELSE requireAuthForRelay

\* The recipient is set before it is answered 250 or 530, and stays.
RcptTo(s, a) ==
    /\ at[s] = "command"
    /\ session' = [session EXCEPT ![s].to = a,
              ![s].agreed = requiresAuthentication(a) => session[s].authenticated]
    /\ UNCHANGED <<server, at, letter, fate>>

\* Nothing asks for MAIL and RCPT first.
Data(s, m) ==
    /\ at[s] = "command" /\ ~fate[m].sent
    /\ Goto(s, "data")
    /\ letter' = [letter EXCEPT ![s].mail = m]
    /\ fate' = [fate EXCEPT ![m].sent = TRUE]
    /\ UNCHANGED <<server, session>>

\* mailFrom and rcptTo are forgotten.
Forgets(s) ==
    session' = [session EXCEPT ![s].from = None, ![s].to = None, ![s].agreed = FALSE]

Rset(s) ==
    /\ at[s] = "command"
    /\ Forgets(s)
    /\ UNCHANGED <<server, at, letter, fate>>

\* AUTH LOGIN, and AUTH PLAIN without its data, read more lines.
Auth(s) ==
    /\ at[s] = "command"
    /\ Goto(s, "login")
    /\ UNCHANGED <<server, session, letter, fate>>

\* AUTH PLAIN with its data, and the last line of the dialog.
AuthEnds(s) ==
    /\ at[s] \in {"command", "login"}
    /\ Goto(s, "command")
    /\ \E known \in {FALSE, HasUsers} :
          session' = [session EXCEPT ![s].authenticated = @ \/ known]
    /\ UNCHANGED <<server, letter, fate>>

StartTls(s) ==
    /\ HasTls /\ at[s] = "command"
    /\ session' = [session EXCEPT ![s] = NewSession]
    /\ UNCHANGED <<server, at, letter, fate>>

-----------------------------------------------------------------------------
(* What becomes of a message *)

\* Where a session or a caller goes when the message is dealt with.
After(w) == IF w \in Sessions THEN "answer" ELSE "off"

Mail(w) == letter[w].mail

\* relayEmail and relayEmailData give up: the address is odd, there is no MX.
GivesUp(w, m) ==
    /\ Goto(w, After(w))
    /\ letter' = [letter EXCEPT ![w] = [mail |-> IF w \in Sessions THEN m ELSE None,
                                        todo |-> <<>>]]

Tries(w, m, servers) ==
    /\ Goto(w, "server")
    /\ letter' = [letter EXCEPT ![w] = [mail |-> m, todo |-> servers]]

\* The end of the data: processEmail.
DataEnds(s) ==
    LET m == Mail(s)  to == session[s].to IN
    /\ at[s] = "data"
    /\ \/ /\ to \in Locals /\ onRecv
          /\ Goto(s, "parse") /\ UNCHANGED <<letter, fate>>
       \/ /\ to \in Locals /\ ~onRecv
          /\ Goto(s, "answer")
          /\ fate' = [fate EXCEPT ![m].verdict = "unheard"] /\ UNCHANGED letter
       \/ /\ to \notin Locals
          /\ GivesUp(s, m)
          /\ fate' = [fate EXCEPT ![m].outcome = "failure"]
       \/ /\ to \in Remotes /\ Mx[to] # <<>>
          /\ Tries(s, m, Mx[to])
          /\ fate' = [fate EXCEPT ![m].route = {Mx[to][i] : i \in DOMAIN Mx[to]}]
    /\ UNCHANGED <<server, session>>

ParseRawEmail(s) ==
    /\ at[s] = "parse" /\ Mail(s) \notin Endless
    /\ Goto(s, "check")
    /\ UNCHANGED <<server, session, letter, fate>>

\* Mutant: a rejected message is handed over as well.
HandsAnything(verdict) == "hand"

\* The switch on the action of the filter.
AfterCheck(verdict) == IF verdict = "REJECT" THEN "answer" ELSE "hand"

CheckEmail(s) ==
    /\ at[s] = "check"
    /\ \E v \in {"ACCEPT", "QUARANTINE", "REJECT"} :
          /\ fate' = [fate EXCEPT ![Mail(s)].verdict = v]
          /\ Goto(s, AfterCheck(v))
    /\ UNCHANGED <<server, session, letter>>

Hand(s) ==
    /\ at[s] = "hand"
    /\ fate' = [fate EXCEPT ![Mail(s)].handed = @ + 1]
    /\ Goto(s, "answer")
    /\ UNCHANGED <<server, session, letter>>

\* 250 OK: Message accepted for delivery.
Answer(s) ==
    /\ at[s] = "answer"
    /\ Goto(s, "command")
    /\ fate' = [fate EXCEPT ![Mail(s)].answered = TRUE]
    /\ letter' = [letter EXCEPT ![s] = NoLetter]
    /\ Forgets(s)
    /\ UNCHANGED server

\* The program sends: through the relay of the development mode, the servers of
\* the address, or the tunnel.
Calls(c, m, servers) ==
    /\ at[c] = "off" /\ ~fate[m].sent
    /\ fate' = [fate EXCEPT ![m].sent = TRUE,
                            ![m].route = {servers[i] : i \in DOMAIN servers},
                            ![m].outcome = IF servers = <<>> THEN "failure" ELSE None]
    /\ IF servers = <<>> THEN GivesUp(c, m) ELSE Tries(c, m, servers)
    /\ UNCHANGED <<server, session>>

SendEmail(c, m) ==
    \E to \in Addresses :
        IF DevRelay # None THEN Calls(c, m, <<DevRelay>>)
        ELSE \/ Calls(c, m, <<>>)
             \/ to \notin Odd /\ Calls(c, m, Mx[to])

SendEmailViaTunnel(c, m) == Calls(c, m, <<Tunnel>>)

-----------------------------------------------------------------------------
(* The loop over the servers *)

Refuses(w) == [fate EXCEPT ![Mail(w)].refused = @ \cup {Head(letter[w].todo)}]

\* Mutant: the first refusal is the answer.
ServerFailsForGood(w) ==
    /\ at[w] = "server"
    /\ fate' = [Refuses(w) EXCEPT ![Mail(w)].outcome = "failure"]
    /\ GivesUp(w, Mail(w))
    /\ UNCHANGED <<server, session>>

\* Mutant: a server that failed is tried again after the others.
ServerFailsForNow(w) ==
    /\ at[w] = "server"
    /\ fate' = Refuses(w)
    /\ Tries(w, Mail(w), Append(Tail(letter[w].todo), Head(letter[w].todo)))
    /\ UNCHANGED <<server, session>>

\* Dial, Hello, Mail, Rcpt, Data or Write fails: the next server, if there is one.
ServerFails(w) ==
    LET rest == Tail(letter[w].todo) IN
    /\ at[w] = "server"
    /\ IF rest = <<>>
       THEN /\ fate' = [Refuses(w) EXCEPT ![Mail(w)].outcome = "failure"]
            /\ GivesUp(w, Mail(w))
       ELSE /\ fate' = Refuses(w)
            /\ Tries(w, Mail(w), rest)
    /\ UNCHANGED <<server, session>>

\* All of them succeed.
ServerListens(w) ==
    /\ at[w] = "server"
    /\ Goto(w, "end")
    /\ UNCHANGED <<server, session, letter, fate>>

\* Mutant: an error of Close is taken for a refusal.
ServerEndsChecked(w) ==
    /\ at[w] = "end"
    /\ \E took, told \in BOOLEAN :
          LET f == [fate EXCEPT ![Mail(w)].copies = @ + IF took THEN 1 ELSE 0]
              rest == Tail(letter[w].todo)
          IN
          /\ told => took
          /\ \/ /\ told \/ rest = <<>>
                /\ fate' = [f EXCEPT ![Mail(w)].outcome = IF told THEN "success" ELSE "failure"]
                /\ GivesUp(w, Mail(w))
             \/ ~told /\ rest # <<>> /\ fate' = f /\ Tries(w, Mail(w), rest)
    /\ UNCHANGED <<server, session>>

\* Close sends the final dot.  The server takes the message or not, and its
\* answer may be lost; the error of Close is not looked at.
ServerEnds(w) ==
    /\ at[w] = "end"
    /\ \E took \in BOOLEAN :
          fate' = [fate EXCEPT ![Mail(w)].copies = @ + IF took THEN 1 ELSE 0,
                               ![Mail(w)].outcome = "success"]
    /\ GivesUp(w, Mail(w))
    /\ UNCHANGED <<server, session>>

Relay(w) == ServerFails(w) \/ ServerListens(w) \/ ServerEnds(w)

Process(s) == ParseRawEmail(s) \/ CheckEmail(s) \/ Hand(s) \/ Answer(s)

Next ==
    \/ Listen \/ Assign \/ Select \/ AcceptTimeout \/ AcceptClosed
    \/ Stop \/ StopListener \/ OnRecv
    \/ \E s \in Sessions :
          \/ Accept(s) \/ Leaves(s) \/ MailFrom(s) \/ Rset(s) \/ Auth(s) \/ AuthEnds(s)
          \/ StartTls(s) \/ DataEnds(s) \/ Process(s)
          \/ \E a \in Addresses : RcptTo(s, a)
          \/ \E m \in Mails : Data(s, m)
    \/ \E c \in Callers, m \in Mails : SendEmail(c, m) \/ SendEmailViaTunnel(c, m)
    \/ \E w \in Parties : Relay(w)

Spec == Init /\ [][Next]_vars

\* Goroutines go on, the servers and the callback of the program return.
FairSpec ==
    /\ Spec
    /\ WF_vars(Assign) /\ WF_vars(Select) /\ WF_vars(AcceptTimeout) /\ WF_vars(AcceptClosed)
    /\ \A s \in Sessions : WF_vars(Process(s))
    /\ \A w \in Parties : WF_vars(Relay(w))

-----------------------------------------------------------------------------
(* Properties *)

\* However servers fail, and whatever answers are lost, no message is taken by
\* two servers.
TakenAtMostOnce == \A m \in Mails : fate[m].copies <= 1

\* A relay that reports a failure has tried every server, and none took it.
GivenUpMeansRefused ==
    \A m \in Mails : fate[m].outcome = "failure" =>
        fate[m].copies = 0 /\ fate[m].refused = fate[m].route

\* A message whose DATA was answered has been dealt with: relayed or given up,
\* dropped as nobody listens, or handed to the program exactly once if the
\* filter did not reject it, and never if it did.
AnsweredIsSettled ==
    \A m \in Mails : fate[m].answered /\ fate[m].outcome = None =>
        /\ fate[m].verdict # None
        /\ fate[m].handed = IF fate[m].verdict \in {"ACCEPT", "QUARANTINE"} THEN 1 ELSE 0

\* Under FairSpec.  A message that was received is answered, or given up.
DataIsAnswered ==
    \A s \in Sessions : at[s] \in {"parse", "check", "hand", "server", "end", "answer"}
                           ~> at[s] = "command"

\* Under FairSpec.  Start returns after Stop, whether Stop saw the listener or
\* came before ss.listener was assigned.
StopEndsStart == done /\ loop # "off" ~> loop = "over"

-----------------------------------------------------------------------------
(* What comments claim and the code does not do. *)

\* "Email successfully sent": what is reported as sent was taken by a server.
SentMeansTaken == \A m \in Mails : fate[m].outcome = "success" => fate[m].copies = 1

\* "Enable development mode (skip MX lookup, use relay)".
DevModeUsesTheRelay ==
    DevRelay # None => \A m \in Mails : fate[m].route \subseteq {DevRelay, Tunnel}

\* "RCPT TO    : Destinataire", answered "250 OK" each time: a recipient stays
\* one until the message is sent or the session starts again.
RecipientsStay ==
    [][\A s \in Sessions : session[s].to # None => session'[s].to \in {session[s].to, None}]_vars

\* "530 Authentication required": nothing is done for a recipient that was
\* answered so.
RefusedIsNotServed ==
    [][\A s \in Sessions :
          at[s] = "data" /\ at'[s] \in {"parse", "server"} => session[s].agreed]_vars
=============================================================================
