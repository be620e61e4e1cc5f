--------------------------- MODULE MailboxesProofs ---------------------------
(***************************************************************************)
(* Proofs about Mailboxes, for any number of users, mails, sessions,       *)
(* AddEmails and listeners.                                                *)
(***************************************************************************)
EXTENDS Mailboxes, FiniteSetTheorems, TLAPS

\* The box of a user has the mail, or had it before an AddEmail lost it.
Owns(u, m) == m \in ToSet(TestEmails[u]) \/ <<u, m>> \in added

\* What the store gives for granted, and its test mails meet: a mail is in the
\* box of one user, and no other mail has its ID.
OneBoxEach == \A u, v \in Users : u # v => ToSet(TestEmails[u]) \cap ToSet(TestEmails[v]) = {}
OneIdEach == \A m, n \in Mails : IdOf[m] = IdOf[n] => m = n

-----------------------------------------------------------------------------
(* Sequences *)

\* A set of places has a first one: the places up to a later one are more.
LEMMA FirstPlace ==
    ASSUME NEW n \in Nat, NEW P, P \subseteq 1..n, P # {}
    PROVE  \E j \in P : \A i \in P : j <= i
<1> DEFINE upTo(e) == {h \in P : h <= e}
           T == {upTo(j) : j \in P}
           R == StrictSubsetOrdering(1..n)
<1>1. IsFiniteSet(1..n)
  BY FS_Interval
<1>2. IsWellFoundedOn(R, SUBSET (1..n))
  BY <1>1, FS_FiniteSubsetsOfFinite, FS_StrictSubsetOrderingWellFounded
<1>3. T \subseteq SUBSET (1..n) /\ T # {}
  OBVIOUS
<1>4. \E x \in T : \A y \in T : ~(<<y, x>> \in R)
  <2> HIDE DEF T, R
  <2>1. QED BY <1>2, <1>3, WFMin
<1>5. PICK j \in P : \A i \in P : ~(<<upTo(i), upTo(j)>> \in R)
  BY <1>4
<1>6. ASSUME NEW i \in P, ~(j <= i) PROVE FALSE
  <2>0. P \subseteq Int /\ i \in Int /\ j \in Int
    OBVIOUS
  <2>1. upTo(i) \subseteq upTo(j) /\ j \in upTo(j) /\ j \notin upTo(i)
    <3>1. i < j
      BY <1>6, <2>0
    <3>2. ASSUME NEW k \in P, k <= i PROVE k <= j
      BY <2>0, <3>1, <3>2
    <3>3. upTo(i) \subseteq upTo(j)
      BY <3>2
    <3>4. j \in upTo(j) /\ j \notin upTo(i)
      BY <1>6, <2>0
    <3>5. QED BY <3>3, <3>4
  <2>2. upTo(i) \in SUBSET (1..n) /\ upTo(j) \in SUBSET (1..n)
    OBVIOUS
  <2> HIDE DEF upTo
  <2>3. <<upTo(i), upTo(j)>> \in R
    BY <2>1, <2>2 DEF StrictSubsetOrdering
  <2>4. QED BY <1>5, <2>3
<1>7. QED BY <1>6

LEMMA Extending ==
    ASSUME NEW S, NEW s \in Seq(S), NEW x \in S
    PROVE  Append(s, x) \in Seq(S) /\ ToSet(Append(s, x)) = ToSet(s) \cup {x}
<1>1. ToSet(Append(s, x)) \subseteq ToSet(s) \cup {x}
  BY DEF ToSet
<1>2. ToSet(s) \subseteq ToSet(Append(s, x))
  BY DEF ToSet
<1>3. x \in ToSet(Append(s, x))
  <2>1. Append(s, x)[Len(s) + 1] = x /\ Len(s) + 1 \in DOMAIN Append(s, x)
    OBVIOUS
  <2>2. QED BY <2>1 DEF ToSet
<1>4. QED BY <1>1, <1>2, <1>3

\* DeleteEmail finds a mail in the box with the ID, if there is one.
LEMMA DeletableIs ==
    ASSUME box \in [Users -> Seq(Mails)], NEW u \in Users, NEW id
    PROVE  /\ \A m \in Deletable(u, id) : m \in ToSet(box[u]) /\ m \in Mails /\ IdOf[m] = id
           /\ (\E m \in ToSet(box[u]) : IdOf[m] = id) => Deletable(u, id) # {}
<1> DEFINE places == {k \in DOMAIN box[u] : IdOf[box[u][k]] = id}
           first == {j \in places : \A i \in places : j <= i}
<1>1. box[u] \in Seq(Mails)
  OBVIOUS
<1>2. Deletable(u, id) = {box[u][k] : k \in first}
  BY DEF Deletable
<1>3. ASSUME NEW m \in Deletable(u, id)
      PROVE  m \in ToSet(box[u]) /\ m \in Mails /\ IdOf[m] = id
  <2>1. PICK k \in first : m = box[u][k]
    BY <1>2, <1>3
  <2>2. k \in DOMAIN box[u] /\ IdOf[box[u][k]] = id
    OBVIOUS
  <2>3. QED BY <1>1, <2>1, <2>2 DEF ToSet
<1>4. ASSUME NEW m \in ToSet(box[u]), IdOf[m] = id
      PROVE  Deletable(u, id) # {}
  <2>1. PICK k \in DOMAIN box[u] : m = box[u][k]
    BY DEF ToSet
  <2>2. Len(box[u]) \in Nat /\ places \subseteq 1..Len(box[u]) /\ k \in places
    BY <1>1, <1>4, <2>1
  <2> HIDE DEF places
  <2>3. PICK j \in places : \A i \in places : j <= i
    BY <2>2, FirstPlace
  <2>4. j \in first
    BY <2>3
  <2>5. QED BY <1>2, <2>4
<1>5. QED BY <1>3, <1>4

-----------------------------------------------------------------------------
(* IMAP *)

ImapInv ==
    /\ users \in [Servers -> SUBSET Users]
    /\ imap \in [Imaps -> Imap]
    /\ SelectedIsUsable

\* What the connections of IMAP go through.
LEMMA ImapKept == ImapInv /\ [Next]_vars => ImapInv'
<1> SUFFICES ASSUME ImapInv, [Next]_vars PROVE ImapInv'
  OBVIOUS
<1> USE DEF ImapInv
<1>0. NoImap \in Imap /\ NoImap.state = "closed"
  BY DEF NoImap, Imap
<1>1. ASSUME NEW s \in Imaps, NEW k, imap' = [imap EXCEPT ![s] = k], UNCHANGED users, k \in Imap,
             k.state = "SELECTED" => k.authenticated /\ k.selectedFolder \in Folders
      PROVE  ImapInv'
  BY <1>1 DEF SelectedIsUsable
<1>2. ASSUME UNCHANGED imap, users' \in [Servers -> SUBSET Users] PROVE ImapInv'
  BY <1>2 DEF SelectedIsUsable
<1>3. ASSUME NEW s \in Imaps, ImapStep(s) PROVE ImapInv'
  <2>1. imap[s] \in Imap
    OBVIOUS
  <2>2. ASSUME NEW u \in Users, LOGIN(s, u) PROVE ImapInv'
    <3>1. PICK v \in Users \cup {None} :
             imap' = [imap EXCEPT ![s].authenticated = TRUE, ![s].username = u,
                                  ![s].state = "AUTHENTICATED", ![s].inboxOf = v]
      BY <2>1, <2>2 DEF LOGIN, Imap
    <3> DEFINE k == [imap[s] EXCEPT !.authenticated = TRUE, !.username = u,
                                    !.state = "AUTHENTICATED", !.inboxOf = v]
    <3>2. imap' = [imap EXCEPT ![s] = k] /\ UNCHANGED users
      BY <2>2, <3>1 DEF LOGIN
    <3>3. k \in Imap /\ k.state = "AUTHENTICATED"
      BY <2>1 DEF Imap
    <3> HIDE DEF k
    <3>4. QED BY <1>1, <3>2, <3>3
  <2>3. ASSUME NEW f \in Folders, SELECT(s, f) PROVE ImapInv'
    <3> DEFINE k == [imap[s] EXCEPT !.selectedFolder = f, !.state = "SELECTED"]
    <3>1. imap' = [imap EXCEPT ![s] = k] /\ UNCHANGED users /\ imap[s].authenticated
      BY <2>3 DEF SELECT
    <3>2. k \in Imap /\ k.selectedFolder \in Folders /\ k.authenticated = imap[s].authenticated
      BY <2>1 DEF Imap
    <3> HIDE DEF k
    <3>3. QED BY <1>1, <3>1, <3>2
  <2>4. CASE CLOSE(s)
    <3>1. FolderClosed(s) \in Imap /\ FolderClosed(s).state = "AUTHENTICATED"
      BY <2>1 DEF FolderClosed, Imap
    <3>2. QED BY <1>1, <2>4, <3>1 DEF CLOSE
  <2>5. CASE ImapCloses(s)
    BY <1>0, <1>1, <2>5 DEF ImapCloses
  <2>6. QED BY <1>3, <2>2, <2>3, <2>4, <2>5 DEF ImapStep
<1>4. ASSUME NEW server \in Servers, Connect(server), UNCHANGED users PROVE ImapInv'
  <2>1. CASE UNCHANGED imap
    BY <1>2, <1>4, <2>1
  <2>2. ASSUME NEW s \in Imaps,
               imap' = [imap EXCEPT ![s] = [NoImap EXCEPT !.state = "NOT_AUTHENTICATED"]]
        PROVE  ImapInv'
    <3> DEFINE k == [NoImap EXCEPT !.state = "NOT_AUTHENTICATED"]
    <3>1. k \in Imap /\ k.state = "NOT_AUTHENTICATED"
      BY <1>0 DEF Imap
    <3> HIDE DEF k
    <3>2. QED BY <1>1, <1>4, <2>2, <3>1 DEF k
  <2>3. QED BY <1>4, <2>1, <2>2 DEF Connect
<1>5. CASE ServerStep
  <2>1. ASSUME NEW p \in Ports, Accept(p) PROVE ImapInv'
    BY <1>2, <1>4, <2>1, MailboxAssumption DEF Accept
  <2>2. ASSUME NEW p \in Ports, Listen(p) \/ CheckDone(p) \/ AcceptFails(p) PROVE ImapInv'
    BY <1>2, <2>2 DEF Listen, CheckDone, AcceptFails, sessions
  <2>3. ASSUME NEW server \in Servers, AcceptElsewhere(server) PROVE ImapInv'
    BY <1>4, <2>3 DEF AcceptElsewhere
  <2>4. ASSUME NEW server \in Servers, Stop(server) \/ StopStep(server) PROVE ImapInv'
    BY <1>2, <2>4 DEF Stop, StopStep, sessions
  <2>5. ASSUME NEW server \in Servers, NEW u \in Users, AddUser(server, u) PROVE ImapInv'
    BY <1>2, <2>5 DEF AddUser, sessions
  <2>6. QED BY <1>5, <2>1, <2>2, <2>3, <2>4, <2>5 DEF ServerStep
<1>6. ASSUME NEW s \in Pops, PopStep(s) PROVE ImapInv'
  <2>1. UNCHANGED <<imap, users>>
    BY <1>6 DEF PopStep, USER, PASS, RSET, QUIT, QuitEnds, PopCloses, DELE, QuitDeletes
  <2>2. QED BY <1>2, <2>1
<1>7. ASSUME NEW a \in Adders, AddWrite(a) \/ \E u \in Users, m \in Mails : AddRead(a, u, m)
      PROVE  ImapInv'
  BY <1>2, <1>7 DEF AddWrite, AddRead, sessions
<1>8. CASE UNCHANGED vars
  BY <1>2, <1>8 DEF vars, sessions
<1>9. QED BY <1>3, <1>5, <1>6, <1>7, <1>8 DEF Next

-----------------------------------------------------------------------------
(* The listeners *)

Ordered(server) ==
    {StopOrder(server), Tail(StopOrder(server)), Tail(Tail(StopOrder(server))), <<>>}

\* Stop has come past the listener of the kind.
Past(server, kind) ==
    \/ stopping[server] = <<>>
    \/ kind = "plain" /\ stopping[server] = Tail(Tail(StopOrder(server)))

\* What Stop has closed stays closed: a loop that finds done closed does not
\* wait, and one that already waits has its listener in the field Stop reads.
StopInv ==
    /\ port \in [Ports -> [pc : {"off", "check", "accept", "ended"},
                           listener : {"nil", "open", "closed"}]]
    /\ done \subseteq Servers
    /\ stopping \in [Servers -> Seq(Servers \X {"done", "plain", "tls"}) \cup {None}]
    /\ \A server \in Servers :
          /\ stopping[server] \in Ordered(server) \cup {None}
          /\ stopping[server] \notin {None, StopOrder(server)} => server \in done
    /\ \A p \in Ports :
          /\ port[p].pc \in {"off", "ended"} => port[p].listener # "open"
          /\ port[p].pc \in {"check", "accept"} => port[p].listener # "nil"
          /\ Past(p[1], p[2]) /\ port[p].pc = "accept" => port[p].listener = "closed"

\* The order in which Stop closes.
LEMMA OrderIs ==
    ASSUME NEW server
    PROVE  /\ Head(StopOrder(server)) = <<server, "done">>
           /\ Tail(StopOrder(server)) = <<<<server, "plain">>, <<server, "tls">>>>
           /\ Head(Tail(StopOrder(server))) = <<server, "plain">>
           /\ Tail(Tail(StopOrder(server))) = <<<<server, "tls">>>>
           /\ Head(Tail(Tail(StopOrder(server)))) = <<server, "tls">>
           /\ Tail(Tail(Tail(StopOrder(server)))) = <<>>
           /\ StopOrder(server) # <<>>
           /\ Tail(StopOrder(server)) \notin {<<>>, StopOrder(server), Tail(Tail(StopOrder(server)))}
           /\ Tail(Tail(StopOrder(server))) \notin {<<>>, StopOrder(server)}
<1> DEFINE a == <<server, "done">>  b == <<server, "plain">>  d == <<server, "tls">>
<1>1. StopOrder(server) = <<a, b, d>>
  BY DEF StopOrder
<1> HIDE DEF a, b, d
<1>2. /\ Head(<<a, b, d>>) = a /\ Tail(<<a, b, d>>) = <<b, d>>
      /\ Head(<<b, d>>) = b /\ Tail(<<b, d>>) = <<d>> /\ Head(<<d>>) = d /\ Tail(<<d>>) = <<>>
  OBVIOUS
<1>3. /\ <<a, b, d>> # <<>> /\ <<b, d>> # <<>> /\ <<d>> # <<>>
      /\ <<a, b, d>> # <<b, d>> /\ <<a, b, d>> # <<d>> /\ <<b, d>> # <<d>>
  <2>1. Len(<<a, b, d>>) = 3 /\ Len(<<b, d>>) = 2 /\ Len(<<d>>) = 1 /\ Len(<<>>) = 0
    OBVIOUS
  <2>2. QED BY <2>1
<1>4. QED BY <1>1, <1>2, <1>3 DEF a, b, d

\* None of what is left to close is taken for a Stop that was not called.
LEMMA OrderTyped ==
    ASSUME NEW server \in Servers
    PROVE  /\ Ordered(server) \subseteq Seq(Servers \X {"done", "plain", "tls"})
           /\ None \notin Ordered(server)
<1>1. Ordered(server) \subseteq Seq(Servers \X {"done", "plain", "tls"})
  BY OrderIs DEF Ordered, StopOrder
<1>2. QED BY <1>1, MailboxAssumption

LEMMA StopKept == StopInv /\ [Next]_vars => StopInv'
<1> SUFFICES ASSUME StopInv, [Next]_vars PROVE StopInv'
  OBVIOUS
<1> DEFINE Port == [pc : {"off", "check", "accept", "ended"}, listener : {"nil", "open", "closed"}]
           OK(k, p) == /\ k \in Port
                       /\ k.pc \in {"off", "ended"} => k.listener # "open"
                       /\ k.pc \in {"check", "accept"} => k.listener # "nil"
<1>0. \A p \in Ports : p[1] \in Servers /\ p[2] \in {"plain", "tls"} /\ p = <<p[1], p[2]>>
  BY MailboxAssumption
<1>1. ASSUME NEW p \in Ports, NEW k, port' = [port EXCEPT ![p] = k], UNCHANGED <<done, stopping>>,
             OK(k, p), k.pc = "accept" /\ Past(p[1], p[2]) => k.listener = "closed"
      PROVE  StopInv'
  BY <1>0, <1>1 DEF StopInv, Past
<1>2. ASSUME UNCHANGED <<port, done, stopping>> PROVE StopInv'
  BY <1>2 DEF StopInv, Past
<1>3. ASSUME NEW p \in Ports, Listen(p) \/ CheckDone(p) \/ Accept(p) \/ AcceptFails(p) PROVE StopInv'
  <2>0. /\ port[p] \in Port /\ UNCHANGED <<done, stopping>>
        /\ port[p].pc \in {"off", "ended"} => port[p].listener # "open"
        /\ port[p].pc \in {"check", "accept"} => port[p].listener # "nil"
        /\ Past(p[1], p[2]) => p[1] \in done
    <3>1. port[p] \in Port /\ UNCHANGED <<done, stopping>>
      BY <1>3 DEF StopInv, Listen, CheckDone, Accept, AcceptFails
    <3>2. Past(p[1], p[2]) => p[1] \in done
      <4>1. p[1] \in Servers /\ <<>> \in Ordered(p[1]) /\ Tail(Tail(StopOrder(p[1]))) \in Ordered(p[1])
        BY <1>0 DEF Ordered
      <4>2. stopping[p[1]] = <<>> => stopping[p[1]] \notin {None, StopOrder(p[1])}
        BY <4>1, OrderIs, OrderTyped
      <4>3. stopping[p[1]] = Tail(Tail(StopOrder(p[1]))) => stopping[p[1]] \notin {None, StopOrder(p[1])}
        BY <4>1, OrderIs, OrderTyped
      <4>4. QED BY <4>1, <4>2, <4>3 DEF StopInv, Past
    <3>3. QED BY <3>1, <3>2 DEF StopInv
  <2>1. ASSUME NEW pc \in {"check", "accept", "ended"}, NEW listener \in {"open", "closed", "nil"},
               port' = [port EXCEPT ![p] = [pc |-> pc, listener |-> listener]],
               pc = "ended" => listener # "open",
               pc \in {"check", "accept"} => listener # "nil",
               pc = "accept" => ~Past(p[1], p[2])
        PROVE  StopInv'
    <3> DEFINE k == [pc |-> pc, listener |-> listener]
    <3>1. OK(k, p) /\ k.pc = pc
      BY <2>1
    <3> HIDE DEF k, OK
    <3>2. QED BY <1>1, <2>0, <2>1, <3>1 DEF k
  <2>2. ASSUME NEW pc \in {"check", "accept", "ended"}, port' = [port EXCEPT ![p].pc = pc],
               pc = "ended" => port[p].listener # "open",
               pc \in {"check", "accept"} => port[p].listener # "nil",
               pc = "accept" => ~Past(p[1], p[2])
        PROVE  StopInv'
    <3>1. PICK listener \in {"open", "closed", "nil"} : listener = port[p].listener
      BY <2>0
    <3>2. [port[p] EXCEPT !.pc = pc] = [pc |-> pc, listener |-> listener]
      BY <2>0, <3>1
    <3>3. port' = [port EXCEPT ![p] = [pc |-> pc, listener |-> listener]]
      BY <2>2, <3>2
    <3>4. QED BY <2>1, <2>2, <3>1, <3>3
  <2>3. CASE Listen(p)
    <3>1. CASE port' = [port EXCEPT ![p] = [pc |-> "check", listener |-> "open"]]
      BY <2>1, <3>1
    <3>2. CASE port' = [port EXCEPT ![p].pc = "ended"] /\ port[p].listener # "open"
      BY <2>2, <3>2
    <3>3. QED BY <2>0, <2>3, <3>1, <3>2 DEF Listen
  <2>4. CASE CheckDone(p)
    <3>1. CASE p[1] \in done
      <4>1. port' = [port EXCEPT ![p] = [pc |-> "ended", listener |-> "closed"]]
        BY <2>4, <3>1 DEF CheckDone, LoopEnded
      <4>2. QED BY <2>1, <4>1
    <3>2. CASE p[1] \notin done
      <4>1. port' = [port EXCEPT ![p].pc = "accept"] /\ port[p].pc = "check"
        BY <2>4, <3>2 DEF CheckDone
      <4>2. QED BY <2>0, <2>2, <3>2, <4>1
    <3>3. QED BY <3>1, <3>2
  <2>5. CASE Accept(p)
    <3>1. port' = [port EXCEPT ![p].pc = "check"] /\ port[p].pc = "accept"
      BY <2>5 DEF Accept
    <3>2. QED BY <2>0, <2>2, <3>1
  <2>6. CASE AcceptFails(p)
    <3>1. PICK pc \in {"ended", "check"} : port' = [port EXCEPT ![p].pc = pc]
      BY <2>6 DEF AcceptFails
    <3>2. port[p].listener = "closed"
      BY <2>6 DEF AcceptFails
    <3>3. QED BY <2>2, <3>1, <3>2
  <2>7. QED BY <1>3, <2>3, <2>4, <2>5, <2>6
<1>4. ASSUME NEW server \in Servers, Stop(server) PROVE StopInv'
  <2>1. /\ stopping[server] = None /\ UNCHANGED <<port, done>>
        /\ stopping' = [stopping EXCEPT ![server] = StopOrder(server)]
    BY <1>4 DEF Stop
  <2>2. StopOrder(server) \in Ordered(server)
    BY DEF Ordered
  <2>3. /\ stopping'[server] = StopOrder(server)
        /\ \A srv \in Servers \ {server} : stopping'[srv] = stopping[srv]
        /\ stopping' \in [Servers -> Seq(Servers \X {"done", "plain", "tls"}) \cup {None}]
    BY <2>1, <2>2, OrderTyped DEF StopInv
  <2>4. ASSUME NEW p \in Ports, NEW kind, Past(p[1], kind)' PROVE Past(p[1], kind)
    <3>1. p[1] # server
      BY <2>3, <2>4, OrderIs DEF Past
    <3>2. QED BY <1>0, <2>3, <2>4, <3>1 DEF Past
  <2>5. QED BY <2>1, <2>2, <2>3, <2>4 DEF StopInv
<1>5. ASSUME NEW server \in Servers, StopStep(server) PROVE StopInv'
  <2>1. PICK order \in Ordered(server) : order = stopping[server] /\ order # <<>>
    BY <1>5 DEF StopStep, StopInv
  <2>2. /\ stopping' = [stopping EXCEPT ![server] = Tail(order)]
        /\ done' = done \cup {srv \in {server} : Head(order)[2] = "done"}
        /\ port' = [p \in Ports |-> IF p = Head(order) /\ port[p].listener = "open"
                                    THEN [port[p] EXCEPT !.listener = "closed"] ELSE port[p]]
    BY <1>5, <2>1 DEF StopStep, StopInv
  <2>3. Tail(order) \in Ordered(server) /\ Tail(order) # StopOrder(server)
    BY <2>1, OrderIs DEF Ordered
  <2>4. /\ stopping'[server] = Tail(order)
        /\ \A srv \in Servers \ {server} : stopping'[srv] = stopping[srv]
        /\ stopping' \in [Servers -> Seq(Servers \X {"done", "plain", "tls"}) \cup {None}]
    BY <2>2, <2>3, OrderTyped DEF StopInv
  <2>5. server \in done' /\ done \subseteq done' /\ done' \subseteq Servers
    <3>1. order = StopOrder(server) => Head(order)[2] = "done"
      BY OrderIs
    <3>2. order # StopOrder(server) => server \in done
      BY <2>1, OrderTyped DEF StopInv
    <3>3. QED BY <2>2, <3>1, <3>2 DEF StopInv
  <2>6. ASSUME NEW p \in Ports
        PROVE  /\ OK(port'[p], p)
               /\ (Past(p[1], p[2])' /\ port'[p].pc = "accept" => port'[p].listener = "closed")
    <3>1. port[p] \in Port /\ OK(port[p], p)
      BY DEF StopInv
    <3>2. CASE p = Head(order) /\ port[p].listener = "open"
      <4>1. port'[p] = [port[p] EXCEPT !.listener = "closed"]
        BY <2>2, <3>2
      <4>2. QED BY <3>1, <4>1
    <3>3. CASE ~(p = Head(order) /\ port[p].listener = "open")
      <4>1. port'[p] = port[p]
        BY <2>2, <3>3
      <4>2. CASE p = Head(order)
        BY <3>1, <3>3, <4>1, <4>2
      <4>3. CASE p # Head(order)
        <5>1. Past(p[1], p[2])' => Past(p[1], p[2])
          <6>1. CASE p[1] # server
            BY <1>0, <2>4, <6>1 DEF Past
          <6>2. CASE p[1] = server
            <7>1. p = <<server, p[2]>> /\ p[2] \in {"plain", "tls"}
              BY <1>0, <6>2
            <7>2. CASE order = StopOrder(server)
              BY <2>4, <6>2, <7>2, OrderIs DEF Past
            <7>3. CASE order = Tail(StopOrder(server))
              BY <2>4, <4>3, <6>2, <7>1, <7>3, OrderIs DEF Past
            <7>4. CASE order = Tail(Tail(StopOrder(server)))
              BY <2>1, <2>4, <4>3, <6>2, <7>1, <7>4, OrderIs DEF Past
            <7>5. QED BY <2>1, <7>2, <7>3, <7>4 DEF Ordered
          <6>3. QED BY <6>1, <6>2
        <5>2. QED BY <3>1, <4>1, <5>1 DEF StopInv
      <4>4. QED BY <4>2, <4>3
    <3>4. QED BY <3>2, <3>3
  <2>7. port' \in [Ports -> Port]
    BY <2>2, <2>6
  <2>8. QED BY <2>3, <2>4, <2>5, <2>6, <2>7 DEF StopInv
<1>6. CASE ServerStep
  <2>1. ASSUME NEW server \in Servers, AcceptElsewhere(server) \/ \E u \in Users : AddUser(server, u)
        PROVE  StopInv'
    BY <1>2, <2>1 DEF AcceptElsewhere, AddUser, loops
  <2>2. QED BY <1>3, <1>4, <1>5, <1>6, <2>1 DEF ServerStep
<1>7. ASSUME NEW s \in Pops, PopStep(s) PROVE StopInv'
  BY <1>2, <1>7 DEF PopStep, USER, PASS, RSET, QUIT, QuitEnds, PopCloses, DELE, QuitDeletes, loops
<1>8. ASSUME NEW s \in Imaps, ImapStep(s) PROVE StopInv'
  BY <1>2, <1>8 DEF ImapStep, LOGIN, SELECT, CLOSE, ImapCloses, loops
<1>9. ASSUME NEW a \in Adders, AddWrite(a) \/ \E u \in Users, m \in Mails : AddRead(a, u, m)
      PROVE  StopInv'
  BY <1>2, <1>9 DEF AddWrite, AddRead, loops
<1>10. CASE UNCHANGED vars
  BY <1>2, <1>10 DEF vars, loops
<1>11. QED BY <1>6, <1>7, <1>8, <1>9, <1>10 DEF Next

-----------------------------------------------------------------------------
(* The store and POP3: types *)

Adder == [user : Users \cup {None}, mail : Mails \cup {None}, read : Seq(Mails)]

\* A session of POP3.
PopTyped(k) ==
    /\ k \in Pop
    /\ k.authenticated => k.username \in Users
    /\ k.pc = "quit" => k.authenticated
    /\ k.pc # "quit" => k.todo = {}
    /\ k.todo \subseteq k.marked

StoreTypes ==
    /\ box \in [Users -> Seq(Mails)] /\ deleted \subseteq Mails
    /\ adder \in [Adders -> Adder]
    /\ \A a \in Adders : adder[a].user # None => adder[a].mail # None
    /\ added \subseteq Users \X Mails /\ overlapped \subseteq Users

PopTypes ==
    /\ pop \in [Pops -> Pop] /\ proved \in [Pops -> SUBSET Users]
    /\ \A s \in Pops : PopTyped(pop[s])

\* What AddEmail does to the types.
LEMMA StoreTypesKept ==
    ASSUME StoreTypes, NEW a \in Adders,
           AddWrite(a) \/ \E u \in Users, m \in Mails : AddRead(a, u, m)
    PROVE  StoreTypes'
<1>1. CASE AddWrite(a)
  <2>1. adder[a] \in Adder /\ adder[a].user \in Users /\ adder[a].mail \in Mails
    BY <1>1 DEF StoreTypes, AddWrite, Adder
  <2>2. PICK u \in Users, m \in Mails, read \in Seq(Mails) :
             u = adder[a].user /\ m = adder[a].mail /\ read = adder[a].read
    BY <2>1 DEF Adder
  <2>3. Append(read, m) \in Seq(Mails)
    BY Extending
  <2>4. box' = [box EXCEPT ![u] = Append(read, m)] /\ added' = added \cup {<<u, m>>}
    BY <1>1, <2>2 DEF AddWrite, Extended
  <2>5. NoAdd \in Adder /\ NoAdd.user = None
    BY DEF NoAdd, Adder
  <2>6. adder' = [adder EXCEPT ![a] = NoAdd] /\ UNCHANGED <<deleted, overlapped>>
    BY <1>1 DEF AddWrite
  <2>7. box' \in [Users -> Seq(Mails)] /\ added' \subseteq Users \X Mails
    BY <2>3, <2>4 DEF StoreTypes
  <2>8. adder' \in [Adders -> Adder] /\ \A b \in Adders : adder'[b].user # None => adder'[b].mail # None
    BY <2>5, <2>6 DEF StoreTypes
  <2>9. QED BY <2>6, <2>7, <2>8 DEF StoreTypes
<1>2. ASSUME NEW u \in Users, NEW m \in Mails, AddRead(a, u, m) PROVE StoreTypes'
  <2> DEFINE k == [user |-> u, mail |-> m, read |-> box[u]]
  <2>1. k \in Adder /\ k.mail # None
    BY MailboxAssumption DEF StoreTypes, Adder
  <2>2. adder' = [adder EXCEPT ![a] = k] /\ UNCHANGED <<box, deleted, added>>
        /\ overlapped' \subseteq overlapped \cup {u}
    BY <1>2 DEF AddRead, store
  <2> HIDE DEF k
  <2>3. QED BY <2>1, <2>2 DEF StoreTypes
<1>3. QED BY <1>1, <1>2

-----------------------------------------------------------------------------
(* Whose a mail is *)

\* A call of AddEmail: its mail is new, and what it has read is of its user; as
\* long as no other call for the user is under way, the box is what it has read.
AddOwns(a) ==
    adder[a].user # None =>
        /\ \A m \in ToSet(adder[a].read) : Owns(adder[a].user, m)
        /\ \A u \in Users : ~Owns(u, adder[a].mail)
        /\ \A b \in Adders \ {a} : adder[b].user # None => adder[b].mail # adder[a].mail
        /\ adder[a].user \notin overlapped =>
              /\ adder[a].read = box[adder[a].user]
              /\ \A b \in Adders \ {a} : adder[b].user # adder[a].user

\* What a session lists and marks is of the users it has logged in as.
PopOwns(k, names) ==
    /\ \A m \in k.emails : \E u \in names : Owns(u, m)
    /\ \A id \in k.marked : \E u \in names, m \in Mails : Owns(u, m) /\ IdOf[m] = id

\* QUIT has deleted what is not to be deleted any more.
Deleting(k) ==
    k.pc \in {"quit", "signed off"} /\ k.authenticated /\ k.username \notin overlapped =>
        \A m \in ToSet(box[k.username]) : IdOf[m] \in k.marked \ k.todo => m \in deleted

OwnInv ==
    /\ \A u, v \in Users, m \in Mails : Owns(u, m) /\ Owns(v, m) => u = v
    /\ \A u \in Users : \A m \in ToSet(box[u]) : Owns(u, m)
    /\ \A a \in Adders : AddOwns(a)
    /\ \A s \in Pops : PopOwns(pop[s], proved[s]) /\ Deleting(pop[s])

MailInv == StoreTypes /\ PopTypes /\ users \in [Servers -> SUBSET Users]

\* A session goes on, and leaves the store alone.
LEMMA PopMoves ==
    ASSUME PopTypes, OwnInv, NEW s \in Pops, NEW k, NEW names \in SUBSET Users,
           PopTyped(k), PopOwns(k, names), Deleting(k),
           pop' = [pop EXCEPT ![s] = k], proved' = [proved EXCEPT ![s] = names],
           UNCHANGED <<box, deleted, adder, added, overlapped>>
    PROVE  PopTypes' /\ OwnInv'
<1>1. k \in Pop /\ pop'[s] = k /\ proved'[s] = names
      /\ \A r \in Pops \ {s} : pop'[r] = pop[r] /\ proved'[r] = proved[r]
  BY DEF PopTypes, PopTyped
<1>2. PopTypes'
  BY <1>1 DEF PopTypes
<1>3. \A r \in Pops : PopOwns(pop[r], proved[r])' /\ Deleting(pop[r])'
  <2>1. \A r \in Pops : PopOwns(pop'[r], proved'[r]) /\ Deleting(pop'[r])
    BY <1>1 DEF OwnInv
  <2>2. \A r \in Pops : PopOwns(pop[r], proved[r])'
    BY <2>1 DEF PopOwns, Owns
  <2>3. \A r \in Pops : Deleting(pop[r])'
    BY <2>1 DEF Deleting
  <2>4. QED BY <2>2, <2>3
<1>4. QED BY <1>2, <1>3 DEF OwnInv, AddOwns, Owns

\* A session goes on, in a way that does not touch ownership: used where only
\* types matter.
LEMMA PopTypesMove ==
    ASSUME PopTypes, NEW s \in Pops, NEW k, NEW names \in SUBSET Users, PopTyped(k),
           pop' = [pop EXCEPT ![s] = k], proved' = [proved EXCEPT ![s] = names]
    PROVE  PopTypes'
<1>1. k \in Pop /\ pop'[s] = k /\ proved'[s] = names
      /\ \A r \in Pops \ {s} : pop'[r] = pop[r] /\ proved'[r] = proved[r]
  BY DEF PopTypes, PopTyped
<1>2. QED BY <1>1 DEF PopTypes

\* One command of POP3: the record it leaves in the place of the session's.
LEMMA PopCommand ==
    ASSUME MailInv, NEW s \in Pops,
           \/ \E u \in Users : USER(s, u)
           \/ PASS(s) \/ RSET(s) \/ QUIT(s) \/ QuitEnds(s) \/ PopCloses(s)
           \/ \E m \in pop[s].emails : DELE(s, m)
    PROVE  \E k : \E names \in SUBSET Users :
              /\ PopTyped(k)
              /\ OwnInv => PopOwns(k, names) /\ Deleting(k)
              /\ pop' = [pop EXCEPT ![s] = k] /\ proved' = [proved EXCEPT ![s] = names]
              /\ UNCHANGED <<box, deleted, adder, added, overlapped, users>>
<1>0. /\ pop \in [Pops -> Pop] /\ proved \in [Pops -> SUBSET Users] /\ pop[s] \in Pop
      /\ PopTyped(pop[s])
      /\ OwnInv => PopOwns(pop[s], proved[s]) /\ Deleting(pop[s])
  BY DEF MailInv, PopTypes, OwnInv
<1>1. proved' = proved => proved' = [proved EXCEPT ![s] = proved[s]] /\ proved[s] \in SUBSET Users
  BY <1>0
<1>2. UNCHANGED <<box, deleted, adder, added, overlapped, users>>
  BY DEF USER, PASS, LetIn, RSET, QUIT, QuitEnds, PopCloses, DELE, store, adding
<1> DEFINE Goes == \E k : \E names \in SUBSET Users :
              /\ PopTyped(k)
              /\ OwnInv => PopOwns(k, names) /\ Deleting(k)
              /\ pop' = [pop EXCEPT ![s] = k] /\ proved' = [proved EXCEPT ![s] = names]
              /\ UNCHANGED <<box, deleted, adder, added, overlapped, users>>
<1> SUFFICES Goes
  OBVIOUS
<1>3. ASSUME NEW k, NEW names \in SUBSET Users, PopTyped(k),
             OwnInv => PopOwns(k, names) /\ Deleting(k),
             pop' = [pop EXCEPT ![s] = k], proved' = [proved EXCEPT ![s] = names]
      PROVE  Goes
  BY <1>2, <1>3
<1>4. ASSUME NEW u \in Users, USER(s, u) PROVE Goes
  <2> DEFINE k == [pop[s] EXCEPT !.username = u]
  <2>1. pop' = [pop EXCEPT ![s] = k] /\ proved' = proved /\ pop[s].pc = "commands"
    BY <1>4 DEF USER, PopReady
  <2>2. /\ k \in Pop /\ k.username = u /\ k.pc = "commands" /\ k.todo = pop[s].todo
        /\ k.emails = pop[s].emails /\ k.marked = pop[s].marked
    BY <1>0, <2>1 DEF Pop
  <2> HIDE DEF k
  <2>3. PopTyped(k)
    BY <1>0, <2>1, <2>2 DEF PopTyped
  <2>4. OwnInv => PopOwns(k, proved[s]) /\ Deleting(k)
    BY <1>0, <2>2 DEF PopOwns, Deleting
  <2> HIDE DEF Goes
  <2>5. QED BY <1>1, <1>3, <2>1, <2>3, <2>4
<1>5. CASE PASS(s)
  <2>1. PICK u \in Users : u = pop[s].username
    BY <1>0, <1>5 DEF PASS, Pop
  <2>2. PICK failed \in BOOLEAN : LetIn(s, failed) /\ pop[s].pc = "commands"
    BY <1>5, MailboxAssumption DEF PASS, PopReady
  <2>3. PICK emails : emails = Loaded(s, failed)
    OBVIOUS
  <2> DEFINE k == [pop[s] EXCEPT !.authenticated = TRUE, !.emails = emails]
             names == proved[s] \cup {u}
  <2>4. pop' = [pop EXCEPT ![s] = k] /\ proved' = [proved EXCEPT ![s] = names]
    BY <1>0, <2>1, <2>2, <2>3 DEF LetIn
  <2>5. emails \subseteq ToSet(box[u]) /\ emails \subseteq Mails
    BY <2>1, <2>3 DEF Loaded, GetEmails, ToSet, MailInv, StoreTypes
  <2>6. /\ k \in Pop /\ k.username = u /\ k.pc = "commands" /\ k.todo = pop[s].todo
        /\ k.emails = emails /\ k.marked = pop[s].marked
    BY <1>0, <2>1, <2>2, <2>5 DEF Pop
  <2>7. names \in SUBSET Users
    BY <1>0
  <2> HIDE DEF k
  <2>8. PopTyped(k)
    BY <1>0, <2>2, <2>6 DEF PopTyped
  <2>9. OwnInv => PopOwns(k, names) /\ Deleting(k)
    <3>1. Deleting(k)
      BY <2>6 DEF Deleting
    <3>2. ASSUME OwnInv, NEW m \in emails PROVE \E v \in names : Owns(v, m)
      <4>1. m \in ToSet(box[u]) /\ u \in names
        BY <2>5
      <4>2. Owns(u, m)
        BY <3>2, <4>1 DEF OwnInv
      <4>3. QED BY <4>1, <4>2
    <3>3. ASSUME OwnInv, NEW id \in pop[s].marked
          PROVE  \E v \in names, m \in Mails : Owns(v, m) /\ IdOf[m] = id
      BY <1>0, <3>3 DEF PopOwns
    <3> HIDE DEF names
    <3>4. QED BY <2>6, <3>1, <3>2, <3>3 DEF PopOwns
  <2> HIDE DEF Goes, names
  <2>10. QED BY <1>3, <2>4, <2>7, <2>8, <2>9
<1>6. ASSUME NEW m \in pop[s].emails, DELE(s, m) PROVE Goes
  <2>1. m \in Mails /\ IdOf[m] \in Ids
    BY <1>0, MailboxAssumption DEF Pop
  <2> DEFINE marked == pop[s].marked \cup {IdOf[m]}
             k == [pop[s] EXCEPT !.marked = marked]
  <2>2. pop' = [pop EXCEPT ![s] = k] /\ proved' = proved /\ pop[s].pc = "commands"
    BY <1>0, <1>6 DEF DELE, PopReady
  <2>3. marked \in SUBSET Ids
    BY <1>0, <2>1 DEF Pop
  <2>4. pop[s].todo = {} /\ pop[s].marked \subseteq marked
    BY <1>0, <2>2 DEF PopTyped
  <2> HIDE DEF marked
  <2>5. /\ k \in Pop /\ k.username = pop[s].username /\ k.pc = "commands" /\ k.todo = pop[s].todo
        /\ k.emails = pop[s].emails /\ k.marked = marked /\ k.authenticated = pop[s].authenticated
    BY <1>0, <2>2, <2>3 DEF Pop
  <2> HIDE DEF k
  <2>6. PopTyped(k)
    BY <1>0, <2>4, <2>5 DEF PopTyped
  <2>7. OwnInv => PopOwns(k, proved[s]) /\ Deleting(k)
    BY <1>0, <2>1, <2>5 DEF PopOwns, Deleting, marked
  <2> HIDE DEF Goes
  <2>8. QED BY <1>1, <1>3, <2>2, <2>6, <2>7
<1>7. CASE RSET(s)
  <2> DEFINE k == [pop[s] EXCEPT !.marked = {}]
  <2>1. pop' = [pop EXCEPT ![s] = k] /\ proved' = proved /\ pop[s].pc = "commands"
    BY <1>7 DEF RSET, PopReady
  <2>2. /\ k \in Pop /\ k.username = pop[s].username /\ k.pc = "commands" /\ k.todo = pop[s].todo
        /\ k.emails = pop[s].emails /\ k.marked = {} /\ k.authenticated = pop[s].authenticated
    BY <1>0, <2>1 DEF Pop
  <2> HIDE DEF k
  <2>3. PopTyped(k)
    BY <1>0, <2>1, <2>2 DEF PopTyped
  <2>4. OwnInv => PopOwns(k, proved[s]) /\ Deleting(k)
    BY <1>0, <2>2 DEF PopOwns, Deleting
  <2> HIDE DEF Goes
  <2>5. QED BY <1>1, <1>3, <2>1, <2>3, <2>4
<1>8. CASE QUIT(s)
  <2>1. PICK pc \in {"quit", "signed off"}, todo \in SUBSET Ids :
           /\ pop' = [pop EXCEPT ![s].pc = pc, ![s].todo = todo]
           /\ pc = "quit" <=> pop[s].authenticated
           /\ todo = IF pop[s].authenticated THEN pop[s].marked ELSE {}
    <3>1. pop[s].marked \in SUBSET Ids /\ pop[s].authenticated \in BOOLEAN
      BY <1>0 DEF Pop
    <3>2. CASE pop[s].authenticated
      BY <1>0, <1>8, <3>1, <3>2 DEF QUIT, PopReady
    <3>3. CASE ~pop[s].authenticated
      BY <1>0, <1>8, <3>1, <3>3 DEF QUIT, PopReady
    <3>4. QED BY <3>2, <3>3
  <2> DEFINE k == [pop[s] EXCEPT !.pc = pc, !.todo = todo]
  <2>2. pop' = [pop EXCEPT ![s] = k] /\ proved' = proved
    BY <1>8, <2>1 DEF QUIT
  <2>3. /\ k \in Pop /\ k.username = pop[s].username /\ k.pc = pc /\ k.todo = todo
        /\ k.emails = pop[s].emails /\ k.marked = pop[s].marked
        /\ k.authenticated = pop[s].authenticated
    BY <1>0, <2>1 DEF Pop
  <2> HIDE DEF k
  <2>4. PopTyped(k)
    BY <1>0, <2>1, <2>3 DEF PopTyped
  <2>5. OwnInv => PopOwns(k, proved[s]) /\ Deleting(k)
    BY <1>0, <2>1, <2>3 DEF PopOwns, Deleting
  <2> HIDE DEF Goes
  <2>6. QED BY <1>1, <1>3, <2>2, <2>4, <2>5
<1>9. CASE QuitEnds(s)
  <2> DEFINE k == [pop[s] EXCEPT !.pc = "signed off"]
  <2>1. /\ pop' = [pop EXCEPT ![s] = k] /\ proved' = proved
        /\ pop[s].pc = "quit" /\ pop[s].todo = {}
    BY <1>9 DEF QuitEnds
  <2>2. /\ k \in Pop /\ k.username = pop[s].username /\ k.pc = "signed off" /\ k.todo = pop[s].todo
        /\ k.emails = pop[s].emails /\ k.marked = pop[s].marked
        /\ k.authenticated = pop[s].authenticated
    BY <1>0, <2>1 DEF Pop
  <2> HIDE DEF k
  <2>3. PopTyped(k)
    BY <1>0, <2>1, <2>2 DEF PopTyped
  <2>4. OwnInv => PopOwns(k, proved[s]) /\ Deleting(k)
    BY <1>0, <2>1, <2>2 DEF PopOwns, Deleting
  <2> HIDE DEF Goes
  <2>5. QED BY <1>1, <1>3, <2>1, <2>3, <2>4
<1>10. CASE PopCloses(s)
  <2>1. NoPop \in Pop /\ PopTyped(NoPop) /\ PopOwns(NoPop, {}) /\ Deleting(NoPop)
    BY DEF NoPop, Pop, PopTyped, PopOwns, Deleting
  <2>2. pop' = [pop EXCEPT ![s] = NoPop] /\ proved' = [proved EXCEPT ![s] = {}] /\ {} \in SUBSET Users
    BY <1>10 DEF PopCloses
  <2> HIDE DEF Goes
  <2>3. QED BY <1>3, <2>1, <2>2
<1>11. QED BY <1>4, <1>5, <1>6, <1>7, <1>8, <1>9, <1>10

\* What a QUIT deletes is of a user the session has logged in as.
LEMMA QuitDeletesOwn ==
    ASSUME OneIdEach, MailInv, OwnInv, NEW s \in Pops, NEW id \in pop[s].todo,
           pop[s].pc = "quit", NEW m \in Deletable(pop[s].username, id)
    PROVE  /\ IdOf[m] = id /\ id \in pop[s].marked
           /\ pop[s].username \in proved[s] /\ m \in ToSet(box[pop[s].username])
<1>1. PopTyped(pop[s]) /\ PopOwns(pop[s], proved[s]) /\ box \in [Users -> Seq(Mails)]
      /\ proved[s] \subseteq Users
  BY DEF MailInv, PopTypes, StoreTypes, OwnInv
<1>2. PICK u \in Users : u = pop[s].username
  BY <1>1 DEF PopTyped
<1>3. m \in ToSet(box[u]) /\ m \in Mails /\ IdOf[m] = id
  BY <1>1, <1>2, DeletableIs
<1>4. id \in pop[s].marked
  BY <1>1 DEF PopTyped
<1>5. PICK v \in proved[s], n \in Mails : Owns(v, n) /\ IdOf[n] = id
  BY <1>1, <1>4 DEF PopOwns
<1>6. n = m
  BY <1>3, <1>5 DEF OneIdEach
<1>7. Owns(u, m)
  BY <1>3 DEF OwnInv
<1>8. u = v
  BY <1>1, <1>3, <1>5, <1>6, <1>7 DEF OwnInv
<1>9. QED BY <1>2, <1>3, <1>4, <1>5, <1>8

\* One deletion of QUIT: the types.
LEMMA DeletionTyped ==
    ASSUME MailInv, NEW s \in Pops, NEW id \in pop[s].todo, QuitDeletes(s, id)
    PROVE  /\ MailInv' /\ deleted \subseteq deleted'
           /\ \E k : /\ pop' = [pop EXCEPT ![s] = k] /\ PopTyped(k)
                     /\ k.username = pop[s].username /\ k.todo = pop[s].todo \ {id}
                     /\ k.emails = pop[s].emails /\ k.marked = pop[s].marked
                     /\ k.authenticated = pop[s].authenticated
                     /\ k.pc = "quit" /\ pop[s].pc = "quit"
<1>1. /\ PopTyped(pop[s]) /\ pop[s] \in Pop /\ box \in [Users -> Seq(Mails)]
      /\ proved[s] \in SUBSET Users /\ deleted \subseteq Mails
      /\ pop \in [Pops -> Pop] /\ proved \in [Pops -> SUBSET Users]
  BY DEF MailInv, PopTypes, StoreTypes
<1>2. /\ pop[s].pc = "quit" /\ pop' = [pop EXCEPT ![s].todo = pop[s].todo \ {id}]
      /\ deleted' = deleted \cup Deletable(pop[s].username, id)
      /\ UNCHANGED <<box, users, proved, adder, added, overlapped>>
  BY DEF QuitDeletes, DeleteEmail, Remaining, adding
<1>3. PICK u \in Users : u = pop[s].username
  BY <1>1, <1>2 DEF PopTyped
<1>4. Deletable(u, id) \subseteq Mails
  BY <1>1, DeletableIs
<1> DEFINE todo == pop[s].todo \ {id}
           k == [pop[s] EXCEPT !.todo = todo]
<1>5. todo \in SUBSET Ids /\ todo \subseteq pop[s].todo
  BY <1>1 DEF Pop
<1>6. pop' = [pop EXCEPT ![s] = k]
  BY <1>2
<1> HIDE DEF todo
<1>7. /\ k \in Pop /\ k.username = pop[s].username /\ k.todo = todo
      /\ k.emails = pop[s].emails /\ k.marked = pop[s].marked
      /\ k.authenticated = pop[s].authenticated /\ k.pc = "quit"
  BY <1>1, <1>2, <1>5 DEF Pop
<1> HIDE DEF k
<1>8. PopTyped(k)
  BY <1>1, <1>2, <1>5, <1>7 DEF PopTyped
<1>9. proved' = [proved EXCEPT ![s] = proved[s]]
  BY <1>1, <1>2
<1>10. PopTypes'
  BY <1>1, <1>6, <1>8, <1>9, PopTypesMove DEF MailInv
<1>11. deleted' \subseteq Mails /\ deleted \subseteq deleted'
  BY <1>1, <1>2, <1>3, <1>4
<1>12. MailInv'
  BY <1>2, <1>10, <1>11 DEF MailInv, StoreTypes
<1>13. QED BY <1>2, <1>6, <1>7, <1>8, <1>11, <1>12 DEF todo

\* And ownership: with the ID goes every mail that has it.
LEMMA DeletionOwned ==
    ASSUME OneIdEach, MailInv, OwnInv, NEW s \in Pops, NEW id \in pop[s].todo, QuitDeletes(s, id)
    PROVE  OwnInv'
<1>1. PICK k : /\ pop' = [pop EXCEPT ![s] = k] /\ PopTyped(k)
               /\ k.username = pop[s].username /\ k.todo = pop[s].todo \ {id}
               /\ k.emails = pop[s].emails /\ k.marked = pop[s].marked
               /\ k.authenticated = pop[s].authenticated
               /\ k.pc = "quit" /\ pop[s].pc = "quit"
  BY DeletionTyped
<1>2. /\ deleted' = deleted \cup Deletable(pop[s].username, id)
      /\ UNCHANGED <<box, users, proved, adder, added, overlapped>>
  BY DEF QuitDeletes, DeleteEmail, adding
<1>3. /\ pop \in [Pops -> Pop] /\ box \in [Users -> Seq(Mails)] /\ PopTyped(pop[s])
      /\ PopOwns(pop[s], proved[s]) /\ Deleting(pop[s])
  BY DEF MailInv, PopTypes, StoreTypes, OwnInv
<1>4. pop'[s] = k /\ \A r \in Pops \ {s} : pop'[r] = pop[r]
  BY <1>1, <1>3
<1>5. PICK u \in Users : u = pop[s].username
  BY <1>1, <1>3 DEF PopTyped
<1>6. \A m \in ToSet(box[u]) : IdOf[m] = id => m \in deleted'
  <2>1. ASSUME NEW m \in ToSet(box[u]), IdOf[m] = id PROVE m \in deleted'
    <3>1. PICK n : n \in Deletable(u, id)
      BY <1>3, <2>1, DeletableIs
    <3>2. n \in Mails /\ IdOf[n] = id /\ m \in Mails
      BY <1>3, <3>1, DeletableIs DEF ToSet
    <3>3. n = m
      BY <2>1, <3>2 DEF OneIdEach
    <3>4. QED BY <1>2, <1>5, <3>1, <3>3
  <2>2. QED BY <2>1
<1>7. \A r \in Pops : PopOwns(pop[r], proved[r])'
  <2>1. PopOwns(k, proved[s])
    BY <1>1, <1>3 DEF PopOwns
  <2>2. \A r \in Pops : PopOwns(pop'[r], proved[r])
    BY <1>4, <2>1 DEF OwnInv
  <2>3. QED BY <1>2, <2>2 DEF PopOwns, Owns
<1>8. \A r \in Pops : Deleting(pop[r])'
  <2>1. ASSUME NEW r \in Pops \ {s} PROVE Deleting(pop[r])'
    <3>1. Deleting(pop[r]) /\ pop'[r] = pop[r]
      BY <1>4 DEF OwnInv
    <3>2. QED BY <1>2, <3>1 DEF Deleting
  <2>2. Deleting(pop[s])'
    <3>1. ASSUME u \notin overlapped, NEW m \in ToSet(box[u]), IdOf[m] \in k.marked \ k.todo
          PROVE  m \in deleted'
      <4>1. CASE IdOf[m] = id
        BY <1>6, <4>1
      <4>2. CASE IdOf[m] # id
        <5>1. IdOf[m] \in pop[s].marked \ pop[s].todo /\ pop[s].authenticated
          BY <1>1, <1>3, <3>1, <4>2 DEF PopTyped
        <5>2. QED BY <1>1, <1>2, <1>3, <1>5, <3>1, <5>1 DEF Deleting
      <4>3. QED BY <4>1, <4>2
    <3>2. u \notin overlapped =>
             \A m \in ToSet(box[u]) : IdOf[m] \in k.marked \ k.todo => m \in deleted'
      BY <3>1
    <3>3. pop'[s] = k /\ k.username = u /\ box' = box /\ overlapped' = overlapped
      BY <1>1, <1>2, <1>4, <1>5
    <3>4. QED BY <3>2, <3>3 DEF Deleting
  <2>3. QED BY <2>1, <2>2
<1>9. QED BY <1>2, <1>7, <1>8 DEF OwnInv, AddOwns, Owns

\* AddEmail begins: its mail is new to everybody.
LEMMA AddReadOwned ==
    ASSUME MailInv, OwnInv, NEW a \in Adders, NEW u \in Users, NEW m \in Mails, AddRead(a, u, m)
    PROVE  OwnInv'
<1>1. /\ adder[a].user = None /\ UNCHANGED <<box, deleted, pop, proved, added>>
      /\ adder' = [adder EXCEPT ![a] = [user |-> u, mail |-> m, read |-> box[u]]]
      /\ overlapped' = overlapped \cup {v \in {u} : \E b \in Adders : adder[b].user = u}
      /\ \A b \in Adders : adder[b].mail # m
      /\ m \notin UNION {ToSet(TestEmails[v]) : v \in Users}
      /\ m \notin {x[2] : x \in added}
  BY DEF AddRead, store, sessions
<1>2. \A v \in Users : ~Owns(v, m)
  <2>1. ASSUME NEW v \in Users, m \in ToSet(TestEmails[v]) PROVE FALSE
    <3>1. m \in UNION {ToSet(TestEmails[w]) : w \in Users}
      BY <2>1
    <3>2. QED BY <1>1, <3>1
  <2>2. ASSUME NEW v \in Users, <<v, m>> \in added PROVE FALSE
    <3>1. <<v, m>>[2] \in {x[2] : x \in added}
      BY <2>2
    <3>2. QED BY <1>1, <3>1
  <2>3. QED BY <2>1, <2>2 DEF Owns
<1>3. adder \in [Adders -> Adder] /\ u # None /\ added \subseteq Users \X Mails
  BY MailboxAssumption DEF MailInv, StoreTypes
<1> DEFINE k == [user |-> u, mail |-> m, read |-> box[u]]
<1>4. /\ adder'[a] = k /\ k.user = u /\ k.mail = m /\ k.read = box[u]
      /\ \A b \in Adders \ {a} : adder'[b] = adder[b]
  BY <1>1, <1>3
<1> HIDE DEF k
<1>5. AddOwns(a)'
  <2>1. \A n \in ToSet(box[u]) : Owns(u, n)
    BY DEF OwnInv
  <2>2. \A b \in Adders \ {a} : adder[b].mail # m
    BY <1>1
  <2>3. u \notin overlapped' => \A b \in Adders \ {a} : adder[b].user # u
    BY <1>1
  <2>4. QED BY <1>1, <1>2, <1>4, <2>1, <2>2, <2>3 DEF AddOwns, Owns
<1>6. ASSUME NEW b \in Adders \ {a} PROVE AddOwns(b)'
  <2>1. AddOwns(b) /\ adder'[b] = adder[b] /\ overlapped \subseteq overlapped'
    BY <1>1, <1>4 DEF OwnInv
  <2>2. adder[b].mail # m
    BY <1>1
  <2>3. adder[b].user = u => u \in overlapped'
    BY <1>1
  <2>4. QED BY <1>1, <1>4, <2>1, <2>2, <2>3 DEF AddOwns, Owns
<1>7. \A s \in Pops : PopOwns(pop[s], proved[s])' /\ Deleting(pop[s])'
  <2>1. \A s \in Pops : PopOwns(pop[s], proved[s]) /\ Deleting(pop[s])
    BY DEF OwnInv
  <2>2. \A s \in Pops : PopOwns(pop[s], proved[s])'
    <3>1. \A v, n : Owns(v, n)' <=> Owns(v, n)
      BY <1>1 DEF Owns
    <3>2. QED BY <1>1, <2>1, <3>1 DEF PopOwns
  <2>3. overlapped \subseteq overlapped'
    BY <1>1
  <2>4. \A s \in Pops : Deleting(pop[s])'
    BY <1>1, <2>1, <2>3 DEF Deleting
  <2>5. QED BY <2>2, <2>4
<1>8. QED BY <1>1, <1>5, <1>6, <1>7 DEF OwnInv, Owns

\* AddEmail ends: the mail has an owner now.
LEMMA AddWriteOwned ==
    ASSUME OneIdEach, MailInv, OwnInv, NEW a \in Adders, AddWrite(a)
    PROVE  OwnInv'
<1>1. /\ adder \in [Adders -> Adder] /\ adder[a] \in Adder /\ box \in [Users -> Seq(Mails)]
      /\ adder[a].user \in Users /\ adder[a].mail \in Mails /\ adder[a].read \in Seq(Mails)
      /\ added \subseteq Users \X Mails
      /\ \A s \in Pops : PopTyped(pop[s]) /\ proved[s] \subseteq Users
  BY DEF MailInv, StoreTypes, PopTypes, Adder, AddWrite
<1>2. PICK u \in Users, m \in Mails, read \in Seq(Mails) :
          u = adder[a].user /\ m = adder[a].mail /\ read = adder[a].read
  BY <1>1
<1>3. /\ box' = [box EXCEPT ![u] = Append(read, m)] /\ added' = added \cup {<<u, m>>}
      /\ adder' = [adder EXCEPT ![a] = NoAdd] /\ UNCHANGED <<deleted, pop, proved, overlapped>>
  BY <1>2 DEF AddWrite, Extended, sessions
<1>4. /\ \A n \in ToSet(read) : Owns(u, n)
      /\ \A v \in Users : ~Owns(v, m)
      /\ \A b \in Adders \ {a} : adder[b].user # None => adder[b].mail # m
      /\ u \notin overlapped => /\ read = box[u]
                                /\ \A b \in Adders \ {a} : adder[b].user # u
  <2>1. AddOwns(a) /\ u # None
    BY <1>2, MailboxAssumption DEF OwnInv
  <2>2. QED BY <1>2, <2>1 DEF AddOwns
<1>5. \A v, n : Owns(v, n)' <=> Owns(v, n) \/ (v = u /\ n = m)
  BY <1>3 DEF Owns
<1>6. /\ box'[u] = Append(read, m) /\ ToSet(Append(read, m)) = ToSet(read) \cup {m}
      /\ \A v \in Users \ {u} : box'[v] = box[v]
  BY <1>1, <1>3, Extending
<1>7. \A v, w \in Users, n \in Mails : Owns(v, n)' /\ Owns(w, n)' => v = w
  BY <1>4, <1>5 DEF OwnInv
<1>8. \A v \in Users : \A n \in ToSet(box'[v]) : Owns(v, n)'
  <2>1. ASSUME NEW v \in Users, NEW n \in ToSet(box'[v]) PROVE Owns(v, n)'
    <3>1. CASE v = u
      BY <1>4, <1>5, <1>6, <2>1, <3>1
    <3>2. CASE v # u
      BY <1>5, <1>6, <2>1, <3>2 DEF OwnInv
    <3>3. QED BY <3>1, <3>2
  <2>2. QED BY <2>1
<1>9. ASSUME NEW b \in Adders PROVE AddOwns(b)'
  <2>1. adder'[a] = NoAdd /\ NoAdd.user = None /\ \A d \in Adders \ {a} : adder'[d] = adder[d]
    BY <1>1, <1>3 DEF NoAdd
  <2>2. CASE b = a
    BY <2>1, <2>2 DEF AddOwns
  <2>3. ASSUME b # a, adder[b].user # None PROVE AddOwns(b)'
    <3>1. AddOwns(b) /\ adder'[b] = adder[b] /\ adder[b].user \in Users /\ adder[b].mail # m
      BY <1>1, <1>4, <2>1, <2>3 DEF OwnInv, Adder
    <3>2. PICK v \in Users : v = adder[b].user
      BY <3>1
    <3>3. \A n \in ToSet(adder[b].read) : Owns(v, n)'
      BY <1>5, <2>3, <3>1, <3>2 DEF AddOwns
    <3>4. \A w \in Users : ~Owns(w, adder[b].mail)'
      BY <1>5, <2>3, <3>1 DEF AddOwns
    <3>5. \A d \in Adders \ {b} : adder'[d].user # None => adder'[d].mail # adder[b].mail
      BY <2>1, <2>3, <3>1 DEF AddOwns
    <3>6. v \notin overlapped => /\ adder[b].read = box[v]
                                 /\ \A d \in Adders \ {b} : adder[d].user # v
      BY <2>3, <3>1, <3>2 DEF AddOwns
    <3>7. v \notin overlapped => v # u
      BY <1>2, <2>3, <3>6
    <3>8. v \notin overlapped => box'[v] = box[v] /\ \A d \in Adders \ {b} : adder'[d].user # v
      BY <1>6, <2>1, <3>2, <3>6, <3>7, MailboxAssumption
    <3>9. adder'[b].user = v /\ adder'[b] = adder[b] /\ overlapped' = overlapped
      BY <1>3, <3>1, <3>2
    <3>10. QED BY <3>3, <3>4, <3>5, <3>6, <3>8, <3>9 DEF AddOwns
  <2>4. CASE b # a /\ adder[b].user = None
    BY <2>1, <2>4 DEF AddOwns
  <2>5. QED BY <2>2, <2>3, <2>4
<1>10. ASSUME NEW s \in Pops PROVE PopOwns(pop[s], proved[s])' /\ Deleting(pop[s])'
  <2>1. PopOwns(pop[s], proved[s]) /\ Deleting(pop[s]) /\ PopTyped(pop[s]) /\ proved[s] \subseteq Users
    BY <1>1 DEF OwnInv
  <2>2. PopOwns(pop[s], proved[s])'
    BY <1>3, <1>5, <2>1 DEF PopOwns
  <2>3. ASSUME pop[s].pc \in {"quit", "signed off"}, pop[s].authenticated, pop[s].username \notin overlapped,
               NEW n \in ToSet(box'[pop[s].username]), IdOf[n] \in pop[s].marked \ pop[s].todo
        PROVE  n \in deleted
    <3>1. PICK v \in Users : v = pop[s].username
      BY <2>1, <2>3 DEF PopTyped
    <3>2. CASE v # u \/ n # m
      <4>1. n \in ToSet(box[v])
        BY <1>4, <1>6, <2>3, <3>1, <3>2
      <4>2. QED BY <2>1, <2>3, <3>1, <4>1 DEF Deleting
    <3>3. CASE n = m
      <4>1. PICK w \in proved[s], x \in Mails : Owns(w, x) /\ IdOf[x] = IdOf[n]
        BY <2>1, <2>3 DEF PopOwns
      <4>2. x = m
        BY <1>2, <3>3, <4>1 DEF OneIdEach
      <4>3. QED BY <1>4, <2>1, <4>1, <4>2
    <3>4. QED BY <3>2, <3>3
  <2>4. Deleting(pop[s])'
    BY <1>3, <2>3 DEF Deleting
  <2>5. QED BY <2>2, <2>4
<1>11. QED BY <1>7, <1>8, <1>9, <1>10 DEF OwnInv

-----------------------------------------------------------------------------
(* The invariant *)

\* Steps of IMAP and of the listeners that meet neither the store nor POP3.
LEMMA ElsewhereStays ==
    ASSUME MailInv, UNCHANGED <<box, deleted, adder, added, overlapped, pop, proved>>,
           users' \in [Servers -> SUBSET Users]
    PROVE  MailInv' /\ (OwnInv => OwnInv')
<1>1. /\ box' = box /\ deleted' = deleted /\ adder' = adder /\ added' = added
      /\ overlapped' = overlapped /\ pop' = pop /\ proved' = proved
  OBVIOUS
<1>2. StoreTypes'
  BY <1>1 DEF MailInv, StoreTypes
<1>3. PopTypes'
  <2>1. \A s \in Pops : PopTyped(pop[s])'
    BY <1>1 DEF MailInv, PopTypes, PopTyped
  <2>2. QED BY <1>1, <2>1 DEF MailInv, PopTypes
<1>4. ASSUME OwnInv PROVE OwnInv'
  <2>1. \A v, n : Owns(v, n)' <=> Owns(v, n)
    BY <1>1 DEF Owns
  <2>2. \A a \in Adders : AddOwns(a)'
    <3>1. \A a \in Adders : AddOwns(a)
      BY <1>4 DEF OwnInv
    <3>2. QED BY <1>1, <2>1, <3>1 DEF AddOwns
  <2>3. \A s \in Pops : PopOwns(pop[s], proved[s])'
    <3>1. \A s \in Pops : PopOwns(pop[s], proved[s])
      BY <1>4 DEF OwnInv
    <3>2. QED BY <1>1, <2>1, <3>1 DEF PopOwns
  <2>4. \A s \in Pops : Deleting(pop[s])'
    <3>1. \A s \in Pops : Deleting(pop[s])
      BY <1>4 DEF OwnInv
    <3>2. QED BY <1>1, <3>1 DEF Deleting
  <2>5. QED BY <1>1, <1>4, <2>1, <2>2, <2>3, <2>4 DEF OwnInv
<1>5. QED BY <1>2, <1>3, <1>4 DEF MailInv

\* A connection comes: a session of POP3, or one of IMAP.
LEMMA Connects ==
    ASSUME MailInv, NEW server, Connect(server),
           UNCHANGED <<box, deleted, adder, added, overlapped, users, proved>>
    PROVE  MailInv' /\ (OwnInv => OwnInv')
<1>1. CASE UNCHANGED pop
  <2>1. users' \in [Servers -> SUBSET Users]
    BY DEF MailInv, StoreTypes
  <2>2. QED BY <1>1, <2>1, ElsewhereStays
<1>2. ASSUME NEW s \in Pops, pop[s].pc = "closed",
             pop' = [pop EXCEPT ![s] = [NoPop EXCEPT !.pc = "commands"]]
      PROVE  MailInv' /\ (OwnInv => OwnInv')
  <2> DEFINE k == [NoPop EXCEPT !.pc = "commands"]
  <2>1. /\ k \in Pop /\ k.pc = "commands" /\ ~k.authenticated /\ k.todo = {} /\ k.marked = {}
        /\ k.emails = {}
    BY DEF NoPop, Pop
  <2>2. pop' = [pop EXCEPT ![s] = k]
    BY <1>2
  <2> HIDE DEF k
  <2>3. PopTyped(k) /\ PopOwns(k, proved[s]) /\ Deleting(k)
    BY <2>1 DEF PopTyped, PopOwns, Deleting
  <2>4. proved' = [proved EXCEPT ![s] = proved[s]] /\ proved[s] \in SUBSET Users /\ PopTypes /\ StoreTypes
    BY DEF MailInv, PopTypes
  <2>5. PopTypes'
    BY <2>2, <2>3, <2>4, PopTypesMove
  <2>6. OwnInv => OwnInv'
    BY <2>2, <2>3, <2>4, PopMoves
  <2>7. StoreTypes'
    BY <2>4 DEF StoreTypes
  <2>8. QED BY <2>5, <2>6, <2>7 DEF MailInv
<1>3. QED BY <1>1, <1>2 DEF Connect

LEMMA MailStep ==
    ASSUME MailInv, [Next]_vars
    PROVE  MailInv' /\ (OneIdEach /\ OwnInv => OwnInv')
<1>1. ASSUME NEW s \in Pops, PopStep(s) PROVE MailInv' /\ (OneIdEach /\ OwnInv => OwnInv')
  <2>1. CASE \/ \E u \in Users : USER(s, u)
             \/ PASS(s) \/ RSET(s) \/ QUIT(s) \/ QuitEnds(s) \/ PopCloses(s)
             \/ \E m \in pop[s].emails : DELE(s, m)
    <3>1. PICK k : \E names \in SUBSET Users :
              /\ PopTyped(k)
              /\ OwnInv => PopOwns(k, names) /\ Deleting(k)
              /\ pop' = [pop EXCEPT ![s] = k] /\ proved' = [proved EXCEPT ![s] = names]
              /\ UNCHANGED <<box, deleted, adder, added, overlapped, users>>
      BY <2>1, PopCommand
    <3>2. PICK names \in SUBSET Users :
              /\ PopTyped(k)
              /\ OwnInv => PopOwns(k, names) /\ Deleting(k)
              /\ pop' = [pop EXCEPT ![s] = k] /\ proved' = [proved EXCEPT ![s] = names]
              /\ UNCHANGED <<box, deleted, adder, added, overlapped, users>>
      BY <3>1
    <3>3. PopTypes'
      BY <3>2, PopTypesMove DEF MailInv
    <3>4. MailInv'
      BY <3>2, <3>3 DEF MailInv, StoreTypes
    <3>5. OwnInv => OwnInv'
      BY <3>2, PopMoves DEF MailInv
    <3>6. QED BY <3>4, <3>5
  <2>2. ASSUME NEW id \in pop[s].todo, QuitDeletes(s, id)
        PROVE  MailInv' /\ (OneIdEach /\ OwnInv => OwnInv')
    BY <2>2, DeletionTyped, DeletionOwned
  <2>3. QED BY <1>1, <2>1, <2>2 DEF PopStep
<1>2. ASSUME NEW a \in Adders, AddWrite(a) \/ \E u \in Users, m \in Mails : AddRead(a, u, m)
      PROVE  MailInv' /\ (OneIdEach /\ OwnInv => OwnInv')
  <2>1. UNCHANGED <<pop, proved, users>>
    BY <1>2 DEF AddWrite, AddRead, sessions
  <2>2. MailInv'
    BY <1>2, <2>1, StoreTypesKept DEF MailInv, PopTypes
  <2>3. QED BY <1>2, <2>2, AddReadOwned, AddWriteOwned
<1>3. ASSUME NEW s \in Imaps, ImapStep(s) PROVE MailInv' /\ (OwnInv => OwnInv')
  <2>1. UNCHANGED <<box, deleted, adder, added, overlapped, pop, proved, users>>
    BY <1>3 DEF ImapStep, LOGIN, SELECT, CLOSE, ImapCloses, store, adding
  <2>2. QED BY <2>1, ElsewhereStays DEF MailInv
<1>4. CASE ServerStep
  <2>1. ASSUME NEW p \in Ports, Listen(p) \/ CheckDone(p) \/ AcceptFails(p)
        PROVE  MailInv' /\ (OwnInv => OwnInv')
    <3>1. UNCHANGED <<box, deleted, adder, added, overlapped, pop, proved, users>>
      BY <2>1 DEF Listen, CheckDone, AcceptFails, store, adding, sessions
    <3>2. QED BY <3>1, ElsewhereStays DEF MailInv
  <2>2. ASSUME NEW p \in Ports, Accept(p) PROVE MailInv' /\ (OwnInv => OwnInv')
    <3>1. UNCHANGED <<box, deleted, adder, added, overlapped, proved, users>>
          /\ (Connect(p[1]) \/ UNCHANGED pop)
      BY <2>2 DEF Accept, store, adding
    <3>2. QED BY <3>1, Connects, ElsewhereStays DEF MailInv
  <2>3. ASSUME NEW server \in Servers, AcceptElsewhere(server) PROVE MailInv' /\ (OwnInv => OwnInv')
    BY <2>3, Connects DEF AcceptElsewhere, store, adding
  <2>4. ASSUME NEW server \in Servers, Stop(server) \/ StopStep(server)
        PROVE  MailInv' /\ (OwnInv => OwnInv')
    <3>1. UNCHANGED <<box, deleted, adder, added, overlapped, pop, proved, users>>
      BY <2>4 DEF Stop, StopStep, store, adding, sessions
    <3>2. QED BY <3>1, ElsewhereStays DEF MailInv
  <2>5. ASSUME NEW server \in Servers, NEW u \in Users, AddUser(server, u)
        PROVE  MailInv' /\ (OwnInv => OwnInv')
    <3>1. UNCHANGED <<box, deleted, adder, added, overlapped, pop, proved>>
      BY <2>5 DEF AddUser, store, adding, sessions
    <3>2. users' \in [Servers -> SUBSET Users]
      BY <2>5 DEF AddUser, MailInv
    <3>3. QED BY <3>1, <3>2, ElsewhereStays
  <2>6. QED BY <1>4, <2>1, <2>2, <2>3, <2>4, <2>5 DEF ServerStep
<1>5. CASE UNCHANGED vars
  BY <1>5, ElsewhereStays DEF MailInv, vars, store, adding, sessions
<1>6. QED BY <1>1, <1>2, <1>3, <1>4, <1>5 DEF Next

LEMMA MailInit ==
    ASSUME Init
    PROVE  MailInv /\ ImapInv /\ StopInv /\ (OneBoxEach => OwnInv)
<1>1. users \in [Servers -> SUBSET Users]
  BY MailboxAssumption DEF Init
<1>2. StoreTypes
  <2>1. NoAdd \in Adder /\ NoAdd.user = None
    BY DEF NoAdd, Adder
  <2>2. QED BY <2>1, MailboxAssumption DEF Init, StoreTypes
<1>3. NoPop \in Pop /\ PopTyped(NoPop) /\ PopOwns(NoPop, {}) /\ Deleting(NoPop)
  BY DEF NoPop, Pop, PopTyped, PopOwns, Deleting
<1>4. PopTypes
  BY <1>3 DEF Init, PopTypes
<1>5. ImapInv
  <2>1. NoImap \in Imap /\ NoImap.state = "closed"
    BY DEF NoImap, Imap
  <2>2. QED BY <1>1, <2>1 DEF Init, ImapInv, SelectedIsUsable
<1>6. StopInv
  <2>1. /\ \A p \in Ports : port[p] = [pc |-> "off", listener |-> "nil"]
        /\ port \in [Ports -> [pc : {"off", "check", "accept", "ended"},
                               listener : {"nil", "open", "closed"}]]
    BY DEF Init
  <2>2. \A server \in Servers : stopping[server] = None
    BY DEF Init
  <2>3. /\ done \subseteq Servers
        /\ stopping \in [Servers -> Seq(Servers \X {"done", "plain", "tls"}) \cup {None}]
    BY DEF Init
  <2>4. QED BY <2>1, <2>2, <2>3 DEF StopInv
<1>7. ASSUME OneBoxEach PROVE OwnInv
  <2>1. \A u, m : Owns(u, m) <=> m \in ToSet(TestEmails[u])
    BY DEF Init, Owns
  <2>2. \A u, v \in Users, m \in Mails : Owns(u, m) /\ Owns(v, m) => u = v
    BY <1>7, <2>1 DEF OneBoxEach
  <2>3. \A u \in Users : \A m \in ToSet(box[u]) : Owns(u, m)
    BY <2>1 DEF Init
  <2>4. \A a \in Adders : AddOwns(a)
    BY DEF Init, AddOwns, NoAdd
  <2>5. \A s \in Pops : PopOwns(pop[s], proved[s]) /\ Deleting(pop[s])
    BY <1>3 DEF Init
  <2>6. QED BY <2>2, <2>3, <2>4, <2>5 DEF OwnInv
<1>8. QED BY <1>1, <1>2, <1>4, <1>5, <1>6, <1>7 DEF MailInv

LEMMA TypesHold == Spec => [](MailInv /\ ImapInv /\ StopInv)
<1>1. Init => MailInv /\ ImapInv /\ StopInv
  BY MailInit
<1>2. MailInv /\ ImapInv /\ StopInv /\ [Next]_vars => (MailInv /\ ImapInv /\ StopInv)'
  BY MailStep, ImapKept, StopKept
<1>3. QED BY <1>1, <1>2, PTL DEF Spec

LEMMA OwnersHold == OneBoxEach /\ OneIdEach => (Spec => []OwnInv)
<1> SUFFICES ASSUME OneBoxEach, OneIdEach PROVE Spec => []OwnInv
  OBVIOUS
<1>1. Init => OwnInv
  BY MailInit
<1>2. MailInv /\ OwnInv /\ [Next]_vars => OwnInv'
  BY MailStep
<1>3. QED BY <1>1, <1>2, TypesHold, PTL DEF Spec

-----------------------------------------------------------------------------
(* What a mail that was added, and a list that was loaded, keep *)

\* A call of AddEmail whose user no other call deals with has read the box as
\* it is.
Lone(a) ==
    adder[a].user # None /\ adder[a].user \notin overlapped =>
        /\ adder[a].read = box[adder[a].user]
        /\ \A b \in Adders \ {a} : adder[b].user # adder[a].user

KeptInv == (\A a \in Adders : Lone(a)) /\ AddedStays /\ ListIsOfOneLogin

\* A box loses no mail, unless AddEmails of its user overlapped.
BoxesGrow ==
    /\ overlapped \subseteq overlapped'
    /\ \A u \in Users : u \in overlapped' \/ ToSet(box[u]) \subseteq ToSet(box'[u])

LEMMA AddReadKept ==
    ASSUME MailInv, \A a \in Adders : Lone(a),
           NEW a \in Adders, NEW u \in Users, NEW m \in Mails, AddRead(a, u, m)
    PROVE  (\A b \in Adders : Lone(b))' /\ BoxesGrow /\ UNCHANGED <<added, pop, proved>>
<1>1. /\ adder[a].user = None /\ UNCHANGED <<box, pop, proved, added>>
      /\ adder' = [adder EXCEPT ![a] = [user |-> u, mail |-> m, read |-> box[u]]]
      /\ overlapped' = overlapped \cup {v \in {u} : \E b \in Adders : adder[b].user = u}
  BY DEF AddRead, store, sessions
<1>2. adder \in [Adders -> Adder] /\ u # None
  BY MailboxAssumption DEF MailInv, StoreTypes
<1> DEFINE k == [user |-> u, mail |-> m, read |-> box[u]]
<1>3. /\ adder'[a] = k /\ k.user = u /\ k.read = box[u]
      /\ \A b \in Adders \ {a} : adder'[b] = adder[b]
  BY <1>1, <1>2
<1> HIDE DEF k
<1>4. Lone(a)'
  <2>1. u \notin overlapped' => \A b \in Adders \ {a} : adder[b].user # u
    BY <1>1
  <2>2. QED BY <1>1, <1>3, <2>1 DEF Lone
<1>5. ASSUME NEW b \in Adders \ {a} PROVE Lone(b)'
  <2>1. Lone(b) /\ adder'[b] = adder[b] /\ overlapped \subseteq overlapped'
    BY <1>1, <1>3
  <2>2. adder[b].user = u => u \in overlapped'
    BY <1>1
  <2>3. QED BY <1>1, <1>3, <2>1, <2>2 DEF Lone
<1>6. QED BY <1>1, <1>4, <1>5 DEF BoxesGrow

LEMMA AddWriteKept ==
    ASSUME MailInv, \A a \in Adders : Lone(a), NEW a \in Adders, AddWrite(a)
    PROVE  /\ (\A b \in Adders : Lone(b))' /\ BoxesGrow /\ UNCHANGED <<pop, proved>>
           /\ \A x \in added' \ added : x[2] \in ToSet(box'[x[1]])
<1>1. /\ adder \in [Adders -> Adder] /\ box \in [Users -> Seq(Mails)]
      /\ adder[a].user \in Users /\ adder[a].mail \in Mails /\ adder[a].read \in Seq(Mails)
  BY DEF MailInv, StoreTypes, Adder, AddWrite
<1>2. PICK u \in Users, m \in Mails, read \in Seq(Mails) :
          u = adder[a].user /\ m = adder[a].mail /\ read = adder[a].read
  BY <1>1
<1>3. /\ box' = [box EXCEPT ![u] = Append(read, m)] /\ added' = added \cup {<<u, m>>}
      /\ adder' = [adder EXCEPT ![a] = NoAdd] /\ UNCHANGED <<pop, proved, overlapped>>
  BY <1>2 DEF AddWrite, Extended, sessions
<1>4. /\ box'[u] = Append(read, m) /\ ToSet(Append(read, m)) = ToSet(read) \cup {m}
      /\ \A v \in Users \ {u} : box'[v] = box[v]
  BY <1>1, <1>3, Extending
<1>5. u \notin overlapped => read = box[u] /\ \A b \in Adders \ {a} : adder[b].user # u
  <2>1. Lone(a) /\ u # None
    BY <1>2, MailboxAssumption
  <2>2. QED BY <1>2, <2>1 DEF Lone
<1>6. BoxesGrow
  BY <1>3, <1>4, <1>5 DEF BoxesGrow
<1>7. ASSUME NEW b \in Adders PROVE Lone(b)'
  <2>1. adder'[a] = NoAdd /\ NoAdd.user = None /\ \A d \in Adders \ {a} : adder'[d] = adder[d]
    BY <1>1, <1>3 DEF NoAdd
  <2>2. CASE b = a \/ adder[b].user = None
    BY <2>1, <2>2 DEF Lone
  <2>3. CASE b # a /\ adder[b].user # None
    <3>1. PICK v \in Users : v = adder[b].user
      BY <1>1, <2>3 DEF Adder
    <3>2. v \notin overlapped => /\ adder[b].read = box[v]
                                 /\ \A d \in Adders \ {b} : adder[d].user # v
      BY <2>3, <3>1 DEF Lone
    <3>3. v \notin overlapped => v # u
      BY <1>2, <2>3, <3>2
    <3>4. v \notin overlapped => box'[v] = box[v] /\ \A d \in Adders \ {b} : adder'[d].user # v
      BY <1>4, <2>1, <3>1, <3>2, <3>3, MailboxAssumption
    <3>5. adder'[b] = adder[b] /\ overlapped' = overlapped
      BY <1>3, <2>1, <2>3
    <3>6. QED BY <3>1, <3>2, <3>4, <3>5 DEF Lone
  <2>4. QED BY <2>2, <2>3
<1>8. \A x \in added' \ added : x[2] \in ToSet(box'[x[1]])
  <2>1. \A x \in added' \ added : x = <<u, m>>
    BY <1>3
  <2>2. m \in ToSet(box'[u])
    BY <1>4
  <2>3. ASSUME NEW x, x = <<u, m>> PROVE x[2] \in ToSet(box'[x[1]])
    <3>1. x[1] = u /\ x[2] = m
      BY <2>3
    <3>2. QED BY <2>2, <3>1
  <2>4. QED BY <2>1, <2>3
<1>9. QED BY <1>3, <1>6, <1>7, <1>8

\* What a step does to the list of a session: it goes, it stays and so do the
\* logins, or it is loaded after a login.
ListMoves(s) ==
    \/ pop'[s].emails = {}
    \/ pop'[s].emails = pop[s].emails /\ proved[s] \subseteq proved'[s]
    \/ \E u \in proved'[s] : u \in Users /\ pop'[s].emails \subseteq ToSet(box[u])

LEMMA PopKept ==
    ASSUME MailInv, NEW s \in Pops, PopStep(s)
    PROVE  ListMoves(s) /\ \A r \in Pops \ {s} : pop'[r] = pop[r] /\ proved'[r] = proved[r]
<1>1. pop \in [Pops -> Pop] /\ proved \in [Pops -> SUBSET Users] /\ pop[s] \in Pop
  BY DEF MailInv, PopTypes
<1>2. CASE PASS(s)
  <2>1. PICK failed \in {FALSE, MayFail} : LetIn(s, failed)
    BY <1>2 DEF PASS
  <2> DEFINE u == pop[s].username
             l == Loaded(s, failed)
             k == [pop[s] EXCEPT !.authenticated = TRUE, !.emails = l]
  <2>2. u \in Users /\ l \subseteq ToSet(box[u])
    BY <1>1, <1>2 DEF PASS, Pop, Loaded, GetEmails
  <2>3. pop' = [pop EXCEPT ![s] = k] /\ proved' = [proved EXCEPT ![s] = @ \cup {u}]
    BY <2>1, Zenon DEF LetIn
  <2> HIDE DEF l
  <2>4. k.emails = l
    BY <1>1 DEF Pop
  <2> HIDE DEF k, u
  <2>5. QED BY <1>1, <2>2, <2>3, <2>4 DEF ListMoves
<1>3. CASE PopCloses(s)
  <2>1. pop' = [pop EXCEPT ![s] = NoPop] /\ NoPop.emails = {} /\ proved' = [proved EXCEPT ![s] = {}]
    BY <1>3 DEF PopCloses, NoPop
  <2>2. QED BY <1>1, <2>1 DEF ListMoves
<1>4. CASE \/ \E u \in Users : USER(s, u)
           \/ RSET(s) \/ QUIT(s) \/ QuitEnds(s)
           \/ \E m \in pop[s].emails : DELE(s, m)
           \/ \E id \in pop[s].todo : QuitDeletes(s, id)
  <2>1. UNCHANGED proved
    BY <1>4 DEF USER, RSET, QUIT, QuitEnds, DELE, QuitDeletes
  <2>2. ASSUME NEW k, k.emails = pop[s].emails, pop' = [pop EXCEPT ![s] = k]
        PROVE  /\ pop'[s].emails = pop[s].emails
               /\ \A r \in Pops \ {s} : pop'[r] = pop[r]
    BY <1>1, <2>2
  <2>3. PICK k : k.emails = pop[s].emails /\ pop' = [pop EXCEPT ![s] = k]
    <3>1. ASSUME NEW u \in Users, USER(s, u)
          PROVE  \E k : k.emails = pop[s].emails /\ pop' = [pop EXCEPT ![s] = k]
      <4>1. [pop[s] EXCEPT !.username = u].emails = pop[s].emails
        BY <1>1 DEF Pop
      <4>2. QED BY <3>1, <4>1, Zenon DEF USER
    <3>2. ASSUME RSET(s) PROVE \E k : k.emails = pop[s].emails /\ pop' = [pop EXCEPT ![s] = k]
      <4>1. [pop[s] EXCEPT !.marked = {}].emails = pop[s].emails
        BY <1>1 DEF Pop
      <4>2. QED BY <3>2, <4>1, Zenon DEF RSET
    <3>3. ASSUME QUIT(s) PROVE \E k : k.emails = pop[s].emails /\ pop' = [pop EXCEPT ![s] = k]
      <4> DEFINE d == IF pop[s].pc = "commands" /\ pop[s].authenticated THEN "quit" ELSE "signed off"
                 t == IF pop[s].authenticated THEN pop[s].marked ELSE {}
                 k == [pop[s] EXCEPT !.pc = d, !.todo = t]
      <4>1. pop' = [pop EXCEPT ![s] = k]
        BY <3>3, Zenon DEF QUIT
      <4> HIDE DEF d, t
      <4>2. k.emails = pop[s].emails
        BY <1>1 DEF Pop
      <4>3. QED BY <4>1, <4>2, Zenon
    <3>4. ASSUME QuitEnds(s) PROVE \E k : k.emails = pop[s].emails /\ pop' = [pop EXCEPT ![s] = k]
      <4>1. [pop[s] EXCEPT !.pc = "signed off"].emails = pop[s].emails
        BY <1>1 DEF Pop
      <4>2. QED BY <3>4, <4>1, Zenon DEF QuitEnds
    <3>5. ASSUME NEW m \in pop[s].emails, DELE(s, m)
          PROVE  \E k : k.emails = pop[s].emails /\ pop' = [pop EXCEPT ![s] = k]
      <4> DEFINE d == pop[s].marked \cup {IdOf[m]}
                 k == [pop[s] EXCEPT !.marked = d]
      <4>1. pop' = [pop EXCEPT ![s] = k]
        BY <3>5, Zenon DEF DELE
      <4> HIDE DEF d
      <4>2. k.emails = pop[s].emails
        BY <1>1 DEF Pop
      <4>3. QED BY <4>1, <4>2, Zenon
    <3>6. ASSUME NEW id \in pop[s].todo, QuitDeletes(s, id)
          PROVE  \E k : k.emails = pop[s].emails /\ pop' = [pop EXCEPT ![s] = k]
      <4> DEFINE d == Remaining(s, id)
                 k == [pop[s] EXCEPT !.todo = d]
      <4>1. pop' = [pop EXCEPT ![s] = k]
        BY <3>6, Zenon DEF QuitDeletes
      <4> HIDE DEF d
      <4>2. k.emails = pop[s].emails
        BY <1>1 DEF Pop
      <4>3. QED BY <4>1, <4>2, Zenon
    <3>7. QED BY <1>4, <3>1, <3>2, <3>3, <3>4, <3>5, <3>6, Zenon
  <2>4. QED BY <2>1, <2>2, <2>3 DEF ListMoves
<1>5. QED BY <1>2, <1>3, <1>4 DEF PopStep

LEMMA ConnectKept ==
    ASSUME MailInv, NEW server, Connect(server) \/ UNCHANGED pop, UNCHANGED proved
    PROVE  \A s \in Pops : ListMoves(s)
<1>1. CASE UNCHANGED pop
  BY <1>1 DEF ListMoves
<1>2. ASSUME NEW s \in Pops, pop' = [pop EXCEPT ![s] = [NoPop EXCEPT !.pc = "commands"]]
      PROVE  \A r \in Pops : ListMoves(r)
  <2>1. [NoPop EXCEPT !.pc = "commands"].emails = {}
    BY DEF NoPop
  <2>2. pop \in [Pops -> Pop]
    BY DEF MailInv, PopTypes
  <2>3. pop'[s].emails = {} /\ \A r \in Pops \ {s} : pop'[r] = pop[r]
    BY <1>2, <2>1, <2>2
  <2>4. QED BY <2>3 DEF ListMoves
<1>3. QED BY <1>1, <1>2 DEF Connect

\* What every step does to what KeptInv speaks of.
KeptMoves ==
    /\ (\A a \in Adders : Lone(a))' /\ BoxesGrow
    /\ \A x \in added' \ added : x[2] \in ToSet(box'[x[1]])
    /\ \A s \in Pops : ListMoves(s)

LEMMA StoreKept ==
    ASSUME KeptInv, UNCHANGED box, UNCHANGED adder, UNCHANGED added, UNCHANGED overlapped,
           \A s \in Pops : ListMoves(s)
    PROVE  KeptMoves
<1>1. (\A a \in Adders : Lone(a))'
  BY DEF KeptInv, Lone
<1>2. BoxesGrow
  BY DEF BoxesGrow
<1>3. QED BY <1>1, <1>2 DEF KeptMoves

LEMMA StepKept == MailInv /\ KeptInv /\ [Next]_vars => KeptMoves
<1> SUFFICES ASSUME MailInv, KeptInv, [Next]_vars PROVE KeptMoves
  OBVIOUS
<1>1. ASSUME UNCHANGED pop, UNCHANGED proved PROVE \A s \in Pops : ListMoves(s)
  BY <1>1 DEF ListMoves
<1>2. ASSUME NEW a \in Adders, AddWrite(a) \/ \E u \in Users, m \in Mails : AddRead(a, u, m)
      PROVE  KeptMoves
  BY <1>1, <1>2, AddReadKept, AddWriteKept DEF KeptInv, KeptMoves
<1>3. ASSUME NEW s \in Pops, PopStep(s) PROVE KeptMoves
  <2>1. UNCHANGED box /\ UNCHANGED adder /\ UNCHANGED added /\ UNCHANGED overlapped
    BY <1>3 DEF PopStep, USER, PASS, LetIn, RSET, QUIT, QuitEnds, PopCloses, DELE, QuitDeletes,
                DeleteEmail, store, adding
  <2>2. \A r \in Pops : ListMoves(r)
    BY <1>3, PopKept DEF ListMoves
  <2>3. QED BY <2>1, <2>2, StoreKept
<1>4. ASSUME NEW s \in Imaps, ImapStep(s) PROVE KeptMoves
  <2>1. /\ UNCHANGED box /\ UNCHANGED adder /\ UNCHANGED added /\ UNCHANGED overlapped
        /\ UNCHANGED pop /\ UNCHANGED proved
    BY <1>4 DEF ImapStep, LOGIN, SELECT, CLOSE, ImapCloses, store, adding
  <2>2. QED BY <1>1, <2>1, StoreKept
<1>5. ASSUME ServerStep PROVE KeptMoves
  <2>1. /\ UNCHANGED box /\ UNCHANGED adder /\ UNCHANGED added /\ UNCHANGED overlapped
        /\ UNCHANGED proved
        /\ (UNCHANGED pop \/ \E server : Connect(server))
    BY <1>5 DEF ServerStep, Listen, CheckDone, Accept, AcceptFails, AcceptElsewhere, Stop,
                StopStep, AddUser, store, adding, sessions
  <2>2. \A s \in Pops : ListMoves(s)
    BY <2>1, ConnectKept
  <2>3. QED BY <2>1, <2>2, StoreKept
<1>6. ASSUME UNCHANGED vars PROVE KeptMoves
  <2>1. /\ UNCHANGED box /\ UNCHANGED adder /\ UNCHANGED added /\ UNCHANGED overlapped
        /\ UNCHANGED pop /\ UNCHANGED proved
    BY <1>6 DEF vars, store, adding, sessions
  <2>2. QED BY <1>1, <2>1, StoreKept
<1>7. QED BY <1>2, <1>3, <1>4, <1>5, <1>6, Zenon DEF Next

LEMMA NextKept == MailInv /\ KeptInv /\ [Next]_vars => KeptInv'
<1> SUFFICES ASSUME MailInv, KeptInv, [Next]_vars PROVE KeptInv'
  OBVIOUS
<1>1. KeptMoves
  BY StepKept
<1> USE DEF KeptMoves
<1>2. AddedStays'
  <2>1. added \subseteq Users \X Mails
    BY DEF MailInv, StoreTypes
  <2>2. ASSUME NEW x \in added', x[1] \notin overlapped' PROVE x[2] \in ToSet(box'[x[1]])
    <3>1. CASE x \in added
      BY <1>1, <2>1, <2>2, <3>1 DEF KeptInv, AddedStays, BoxesGrow
    <3>2. CASE x \notin added
      BY <1>1, <3>2
    <3>3. QED BY <3>1, <3>2
  <2>3. QED BY <2>2 DEF AddedStays
<1>3. ListIsOfOneLogin'
  <2>1. ASSUME NEW s \in Pops, pop'[s].emails # {}
        PROVE  \E u \in proved'[s] : u \in overlapped' \/ pop'[s].emails \subseteq ToSet(box'[u])
    <3>1. proved[s] \subseteq Users /\ ListMoves(s)
      BY <1>1 DEF MailInv, PopTypes
    <3>2. CASE pop'[s].emails = pop[s].emails /\ proved[s] \subseteq proved'[s]
      <4>1. PICK u \in proved[s] : u \in overlapped \/ pop[s].emails \subseteq ToSet(box[u])
        BY <2>1, <3>2 DEF KeptInv, ListIsOfOneLogin
      <4>2. u \in Users /\ u \in proved'[s]
        BY <3>1, <3>2
      <4>3. QED BY <1>1, <3>2, <4>1, <4>2 DEF BoxesGrow
    <3>3. CASE \E u \in proved'[s] : u \in Users /\ pop'[s].emails \subseteq ToSet(box[u])
      BY <1>1, <3>3 DEF BoxesGrow
    <3>4. QED BY <2>1, <3>1, <3>2, <3>3 DEF ListMoves
  <2>2. QED BY <2>1 DEF ListIsOfOneLogin
<1>4. QED BY <1>1, <1>2, <1>3 DEF KeptInv

LEMMA KeptHolds == Spec => []KeptInv
<1>1. Init => KeptInv
  BY DEF Init, KeptInv, Lone, NoAdd, NoPop, AddedStays, ListIsOfOneLogin
<1>2. MailInv /\ KeptInv /\ [Next]_vars => KeptInv'
  BY NextKept
<1>3. QED BY <1>1, <1>2, TypesHold, PTL DEF Spec

-----------------------------------------------------------------------------
(* Results *)

\* Every value of the store, the sessions and the listeners stays of its type,
\* and a loop that has ended has no open listener.
THEOREM TypeCorrect == Spec => []TypeOK
<1>1. MailInv /\ ImapInv /\ StopInv => TypeOK
  BY DEF MailInv, StoreTypes, PopTypes, ImapInv, StopInv, Adder, TypeOK
<1>2. QED BY <1>1, TypesHold, PTL

\* FETCH in the state SELECTED finds a folder, through any second LOGIN, CLOSE
\* and SELECT.
THEOREM FetchFindsAFolder == Spec => []SelectedIsUsable
<1>1. ImapInv => SelectedIsUsable
  BY DEF ImapInv
<1>2. QED BY <1>1, TypesHold, PTL

\* When Stop has returned nobody waits at an open listener, for any number of
\* addresses: a loop that opens its listener too late for Stop finds done.
THEOREM StopReaches == Spec => []StopReachesEveryListener
<1>1. StopInv => StopReachesEveryListener
  <2>1. SUFFICES ASSUME StopInv, NEW server \in Servers, stopping[server] = <<>>,
                        NEW p \in Ports, p[1] = server, port[p].pc = "accept"
                 PROVE  port[p].listener = "closed"
    BY DEF StopReachesEveryListener
  <2>2. QED BY <2>1 DEF StopInv, Past
<1>2. QED BY <1>1, TypesHold, PTL

\* QUIT deletes everything that is marked in the box of the session's user,
\* where no two AddEmails of that user overlapped, for any number of sessions
\* and mails of which each is in one box and has an ID of its own.
THEOREM QuitDeletesAll == OneBoxEach /\ OneIdEach => (Spec => []QuitDeletesMarked)
<1> SUFFICES ASSUME OneBoxEach, OneIdEach PROVE Spec => []QuitDeletesMarked
  OBVIOUS
<1>1. MailInv /\ OwnInv => QuitDeletesMarked
  <2>1. SUFFICES ASSUME MailInv, OwnInv, NEW s \in Pops, pop[s].pc = "signed off", pop[s].authenticated,
                        pop[s].username \notin overlapped,
                        NEW m \in ToSet(box[pop[s].username]), IdOf[m] \in pop[s].marked
                 PROVE  m \in deleted
    BY DEF QuitDeletesMarked
  <2>2. Deleting(pop[s]) /\ pop[s].todo = {}
    BY <2>1 DEF OwnInv, MailInv, PopTypes, PopTyped
  <2>3. QED BY <2>1, <2>2 DEF Deleting
<1>2. QED BY <1>1, TypesHold, OwnersHold, PTL

\* What a QUIT deletes was marked by a session that had logged in as the owner,
\* under the same assumptions on the mails.
THEOREM DeletesOwnOnly == OneBoxEach /\ OneIdEach => (Spec => DeletionsAreOfTheOwner)
<1> SUFFICES ASSUME OneBoxEach, OneIdEach PROVE Spec => DeletionsAreOfTheOwner
  OBVIOUS
<1>1. MailInv /\ OwnInv /\ [Next]_vars =>
      [\A m \in deleted' \ deleted :
          \E s \in Pops : /\ pop[s].pc = "quit" /\ IdOf[m] \in pop[s].marked
                          /\ pop[s].username \in proved[s] /\ m \in ToSet(box[pop[s].username])]_vars
  <2>1. SUFFICES ASSUME MailInv, OwnInv, [Next]_vars, NEW m \in deleted' \ deleted
                 PROVE  \E s \in Pops : /\ pop[s].pc = "quit" /\ IdOf[m] \in pop[s].marked
                                        /\ pop[s].username \in proved[s]
                                        /\ m \in ToSet(box[pop[s].username])
    BY DEF vars, store
  <2>2. PICK s \in Pops : \E id \in pop[s].todo : QuitDeletes(s, id)
    <3>1. deleted' # deleted /\ Next
      BY <2>1 DEF vars, store
    <3>2. ~ServerStep /\ \A r \in Imaps : ~ImapStep(r)
      BY <3>1 DEF ImapStep, LOGIN, SELECT, CLOSE, ImapCloses, ServerStep, Listen, CheckDone, Accept,
           AcceptFails, AcceptElsewhere, Stop, StopStep, AddUser, store
    <3>3. \A a \in Adders : ~AddWrite(a) /\ \A u \in Users, n \in Mails : ~AddRead(a, u, n)
      BY <3>1 DEF AddRead, AddWrite, store
    <3>4. PICK s \in Pops : PopStep(s)
      BY <3>1, <3>2, <3>3 DEF Next
    <3>5. \E id \in pop[s].todo : QuitDeletes(s, id)
      BY <3>1, <3>4 DEF PopStep, USER, PASS, RSET, QUIT, QuitEnds, PopCloses, DELE, store
    <3>6. QED BY <3>5
  <2>3. PICK id \in pop[s].todo : QuitDeletes(s, id)
    BY <2>2
  <2>4. pop[s].pc = "quit" /\ m \in Deletable(pop[s].username, id)
    BY <2>1, <2>3 DEF QuitDeletes, DeleteEmail
  <2>5. QED BY <2>1, <2>4, QuitDeletesOwn
<1>2. QED BY <1>1, TypesHold, OwnersHold, PTL DEF Spec, DeletionsAreOfTheOwner

\* A mail whose AddEmail has returned stays in its box, as long as no two
\* AddEmails of its user overlapped, whatever mails the store began with.
THEOREM AddedMailStays == Spec => []AddedStays
<1>1. KeptInv => AddedStays
  BY DEF KeptInv
<1>2. QED BY <1>1, KeptHolds, PTL

\* The list that a POP3 session's message numbers refer to is of one user it
\* has logged in as, through any second login and any failure of the store.
THEOREM ListIsOfALogin == Spec => []ListIsOfOneLogin
<1>1. KeptInv => ListIsOfOneLogin
  BY DEF KeptInv
<1>2. QED BY <1>1, KeptHolds, PTL
=============================================================================
