---------------------------- MODULE KsmtpProofs ----------------------------
(***************************************************************************)
(* Proofs about the way a message takes into the SMTP server: about        *)
(* SmtpServer, for any number of sessions, callers, messages, addresses    *)
(* and servers, and about SpamFilter, for any number of sessions,          *)
(* addresses and blacklists, any messages, and any limit.                  *)
(***************************************************************************)
EXTENDS SmtpServer, SpamFilter, TLAPS

-----------------------------------------------------------------------------
(* SmtpServer *)

Places == {"off", "command", "login", "data", "parse", "check", "hand", "server", "end", "answer"}

\* Where a party is about no message.
Resting == {"off", "command", "login"}

ServerTypes ==
    /\ {done, listener, onRecv} \subseteq BOOLEAN
    /\ socket \in {"none", "open", "closed"}
    /\ loop \in {"off", "assign", "select", "accept", "over"}
    /\ stop \in {"idle", "close", "over"}
    /\ session \in [Sessions -> Session]

\* Nothing has become of the message yet.
Fresh(f) ==
    /\ f.outcome = None /\ f.verdict = None /\ f.handed = 0 /\ f.copies = 0 /\ ~f.answered
    /\ f.route = {} /\ f.refused = {}

\* The program heard of the message as the filter said.
Heard(f) ==
    /\ f.verdict # None
    /\ f.handed = IF f.verdict \in {"ACCEPT", "QUARANTINE"} THEN 1 ELSE 0

\* What holds of a message at all times.
Sane(f) ==
    /\ f \in Fate
    /\ ~f.sent => Fresh(f)
    /\ f.copies <= 1
    /\ f.outcome = "failure" => f.copies = 0 /\ f.refused = f.route
    /\ f.answered /\ f.outcome = None => Heard(f)

\* What has become of the message of a party that stands at a, with the servers
\* of todo left to be tried.
Fits(a, todo, f) ==
    /\ f.sent /\ ~f.answered
    /\ a \in {"data", "parse", "check"} => Fresh(f)
    /\ a = "hand" => f.outcome = None /\ f.handed = 0 /\ f.verdict \in {"ACCEPT", "QUARANTINE"}
    /\ a \in {"server", "end"} => /\ f.outcome = None /\ f.copies = 0 /\ todo # <<>>
                                  /\ f.route = f.refused \cup {todo[i] : i \in DOMAIN todo}
    /\ a = "answer" => f.outcome # None \/ Heard(f)

\* A message is with one party.
LettersOK ==
    /\ at \in [Parties -> Places] /\ letter \in [Parties -> Letter] /\ fate \in [Mails -> Fate]
    /\ \A m \in Mails : Sane(fate[m])
    /\ \A w \in Parties : at[w] \in Resting <=> Mail(w) = None
    /\ \A w \in Parties : Mail(w) # None => Fits(at[w], letter[w].todo, fate[Mail(w)])
    /\ \A w, v \in Parties : Mail(w) = Mail(v) /\ Mail(w) # None => w = v
    /\ \A c \in Callers : at[c] \in {"off", "server", "end"}

Inv == ServerTypes /\ LettersOK

-----------------------------------------------------------------------------
(* The parties and their messages *)

\* A party moves with its message, or takes one that was not sent before.
LEMMA PartyMoves ==
    ASSUME LettersOK, NEW w \in Parties, NEW m \in Mails, NEW a \in Places, NEW l \in Letter, NEW f,
           Mail(w) = m \/ ~fate[m].sent,
           at' = [at EXCEPT ![w] = a], letter' = [letter EXCEPT ![w] = l],
           fate' = [fate EXCEPT ![m] = f],
           Sane(f), f.sent, l.mail \in {None, m}, a \in Resting <=> l.mail = None,
           l.mail = m => Fits(a, l.todo, f),
           w \in Callers => a \in {"off", "server", "end"}
    PROVE  LettersOK'
<1> USE DEF LettersOK, Mail
<1>0. None \notin Mails
  BY SmtpAssumption
<1>1. \A v \in Parties \ {w} : Mail(v) # m
  BY <1>0 DEF Fits
<1>2. /\ at'[w] = a /\ letter'[w] = l /\ fate'[m] = f
      /\ \A v \in Parties \ {w} : at'[v] = at[v] /\ letter'[v] = letter[v]
      /\ \A n \in Mails \ {m} : fate'[n] = fate[n]
  OBVIOUS
<1>3. f \in Fate
  BY DEF Sane
<1>4. /\ at' \in [Parties -> Places] /\ letter' \in [Parties -> Letter] /\ fate' \in [Mails -> Fate]
  BY <1>3
<1>5. \A n \in Mails : Sane(fate'[n])
  BY <1>2
<1>6. \A v \in Parties : at'[v] \in Resting <=> letter'[v].mail = None
  BY <1>2
<1>7. \A v \in Parties : letter[v].mail \in Mails \cup {None}
  BY DEF Letter
<1>8. \A v \in Parties : letter'[v].mail # None => Fits(at'[v], letter'[v].todo, fate'[letter'[v].mail])
  <2> TAKE v \in Parties
  <2>1. CASE v = w
    BY <1>2, <2>1
  <2>2. CASE v # w
    BY <1>1, <1>2, <1>7, <2>2
  <2>3. QED BY <2>1, <2>2
<1>9. \A v, u \in Parties : letter'[v].mail = letter'[u].mail /\ letter'[v].mail # None => v = u
  BY <1>1, <1>2
<1>10. \A c \in Callers : at'[c] \in {"off", "server", "end"}
  BY <1>2 DEF Parties
<1>11. QED BY <1>4, <1>5, <1>6, <1>8, <1>9, <1>10

\* A party without a message moves, and has none after it.
LEMMA RestMoves ==
    ASSUME LettersOK, NEW w \in Sessions, NEW a \in Resting,
           at' = [at EXCEPT ![w] = a],
           \/ letter' = letter /\ at[w] \in Resting
           \/ letter' = [letter EXCEPT ![w] = NoLetter],
           fate' = fate
    PROVE  LettersOK'
<1> USE DEF LettersOK, Mail
<1>0. w \in Parties /\ w \notin Callers /\ a \in Places
  BY SmtpAssumption DEF Parties, Places, Resting
<1>1. NoLetter \in Letter /\ NoLetter.mail = None
  BY DEF NoLetter, Letter
<1>2. /\ at'[w] = a /\ letter'[w].mail = None
      /\ \A v \in Parties \ {w} : at'[v] = at[v] /\ letter'[v] = letter[v]
  BY <1>0, <1>1
<1>3. at' \in [Parties -> Places] /\ letter' \in [Parties -> Letter] /\ fate' \in [Mails -> Fate]
  BY <1>0, <1>1
<1>4. \A v \in Parties : at'[v] \in Resting <=> letter'[v].mail = None
  BY <1>2
<1>5. \A v \in Parties : letter'[v].mail # None => Fits(at'[v], letter'[v].todo, fate'[letter'[v].mail])
  BY <1>2
<1>6. \A v, u \in Parties : letter'[v].mail = letter'[u].mail /\ letter'[v].mail # None => v = u
  BY <1>2
<1>7. \A c \in Callers : at'[c] \in {"off", "server", "end"}
  BY <1>0, <1>2 DEF Parties
<1>8. QED BY <1>3, <1>4, <1>5, <1>6, <1>7

\* The fate of a message that a session or caller is about.
LEMMA MailFacts ==
    ASSUME LettersOK, NEW w \in Parties, at[w] \notin Resting
    PROVE  /\ Mail(w) \in Mails /\ Sane(fate[Mail(w)]) /\ fate[Mail(w)] \in Fate
           /\ Fits(at[w], letter[w].todo, fate[Mail(w)])
           /\ letter[w] \in Letter /\ letter[w].todo \in Seq(Servers)
<1>1. letter[w] \in Letter /\ Mail(w) # None
  BY DEF LettersOK
<1>2. QED BY <1>1 DEF LettersOK, Letter, Mail, Sane

\* A step of a party that is about a message.
LEMMA MailMoves ==
    ASSUME LettersOK, NEW w \in Parties, at[w] \notin Resting,
           NEW a \in Places, NEW l \in Letter, NEW f,
           at' = [at EXCEPT ![w] = a], letter' = [letter EXCEPT ![w] = l],
           fate' = [fate EXCEPT ![Mail(w)] = f],
           Sane(f), f.sent, l.mail \in {None, Mail(w)}, a \in Resting <=> l.mail = None,
           l.mail = Mail(w) => Fits(a, l.todo, f),
           w \in Callers => a \in {"off", "server", "end"}
    PROVE  LettersOK'
BY MailFacts, PartyMoves

\* Commands that are about no message.
LEMMA CommandOK ==
    ASSUME LettersOK, NEW s \in Sessions,
           \/ Accept(s) \/ Leaves(s) \/ MailFrom(s) \/ Rset(s) \/ Auth(s) \/ AuthEnds(s) \/ StartTls(s)
           \/ \E a \in Addresses : RcptTo(s, a)
    PROVE  LettersOK'
<1>1. CASE Accept(s) \/ Leaves(s) \/ Auth(s) \/ AuthEnds(s)
  BY <1>1, RestMoves DEF Accept, Leaves, Auth, AuthEnds, Goto, Resting
<1>2. CASE MailFrom(s) \/ Rset(s) \/ StartTls(s) \/ \E a \in Addresses : RcptTo(s, a)
  <2>1. UNCHANGED <<at, letter, fate>>
    BY <1>2 DEF MailFrom, Rset, StartTls, RcptTo
  <2>2. QED BY <2>1 DEF LettersOK, Mail
<1>3. QED BY <1>1, <1>2

\* DATA takes a message that was not sent.
LEMMA DataOK ==
    ASSUME LettersOK, NEW s \in Sessions, NEW m \in Mails, Data(s, m)
    PROVE  LettersOK'
<1> DEFINE l == [letter[s] EXCEPT !.mail = m]
           f == [fate[m] EXCEPT !.sent = TRUE]
<1>0. s \in Parties /\ s \notin Callers /\ None \notin Mails /\ letter[s] \in Letter /\ fate[m] \in Fate
  BY SmtpAssumption DEF Parties, LettersOK
<1>1. at' = [at EXCEPT ![s] = "data"] /\ letter' = [letter EXCEPT ![s] = l] /\ fate' = [fate EXCEPT ![m] = f]
  BY <1>0 DEF Data, Goto, LettersOK
<1>2. l \in Letter /\ l.mail = m
  BY <1>0 DEF Letter
<1>3. Sane(fate[m]) /\ ~fate[m].sent /\ Fresh(fate[m])
  BY DEF Data, LettersOK, Sane
<1>4. f \in Fate /\ f.sent /\ Fresh(f)
  BY <1>0, <1>3 DEF Fate, Fresh
<1>5. Sane(f) /\ Fits("data", l.todo, f)
  BY <1>4 DEF Sane, Fits, Fresh
<1>6. "data" \in Places /\ "data" \notin Resting
  BY DEF Places, Resting
<1> HIDE DEF l, f
<1>7. QED BY <1>0, <1>1, <1>2, <1>3, <1>4, <1>5, <1>6, PartyMoves

\* What is found without a server: nobody to relay to.
LEMMA GivesUpFacts ==
    ASSUME LettersOK, NEW w \in Parties, NEW m \in Mails, GivesUp(w, m)
    PROVE  \E a \in Places, l \in Letter :
               /\ at' = [at EXCEPT ![w] = a] /\ letter' = [letter EXCEPT ![w] = l]
               /\ l.mail \in {None, m} /\ (a \in Resting <=> l.mail = None)
               /\ w \in Callers => a = "off"
               /\ a \in {"answer", "off"}
<1> DEFINE a == After(w)
           l == [mail |-> IF w \in Sessions THEN m ELSE None, todo |-> <<>>]
<1>1. at' = [at EXCEPT ![w] = a] /\ letter' = [letter EXCEPT ![w] = l]
  BY DEF GivesUp, Goto
<1>2. a \in Places /\ l \in Letter /\ l.mail \in {None, m} /\ (a \in Resting <=> l.mail = None)
      /\ (w \in Callers => a = "off") /\ a \in {"answer", "off"}
  BY SmtpAssumption DEF After, Places, Letter, Resting, Parties
<1>3. QED BY <1>1, <1>2

\* A message that was given up, or sent, is settled.
LEMMA EndsOK ==
    ASSUME LettersOK, NEW w \in Parties, at[w] \notin Resting, GivesUp(w, Mail(w)), NEW f,
           fate' = [fate EXCEPT ![Mail(w)] = f], Sane(f), f.sent, ~f.answered, f.outcome # None
    PROVE  LettersOK'
<1>0. Mail(w) \in Mails
  BY MailFacts
<1>1. PICK a \in Places, l \in Letter :
          /\ at' = [at EXCEPT ![w] = a] /\ letter' = [letter EXCEPT ![w] = l]
          /\ l.mail \in {None, Mail(w)} /\ (a \in Resting <=> l.mail = None)
          /\ w \in Callers => a = "off"
          /\ a \in {"answer", "off"}
  BY <1>0, GivesUpFacts
<1>2. Fits(a, l.todo, f)
  BY <1>1 DEF Fits
<1>3. QED BY <1>0, <1>1, <1>2, MailMoves

\* The end of the data.
LEMMA DataEndsOK ==
    ASSUME LettersOK, NEW s \in Sessions, DataEnds(s), session \in [Sessions -> Session]
    PROVE  LettersOK'
<1> DEFINE m == Mail(s)
           to == session[s].to
<1>0. /\ s \in Parties /\ s \notin Callers /\ at[s] = "data" /\ at[s] \notin Resting
      /\ m \in Mails /\ letter[s] \in Letter /\ fate[m] \in Fate /\ Sane(fate[m])
      /\ fate[m].sent /\ Fresh(fate[m])
      /\ letter \in [Parties -> Letter] /\ fate \in [Mails -> Fate]
  <2>1. s \in Parties /\ s \notin Callers /\ at[s] = "data" /\ at[s] \notin Resting
    BY SmtpAssumption DEF Parties, DataEnds, Resting
  <2>2. QED BY <2>1, MailFacts DEF LettersOK, Fits
<1>1. CASE Goto(s, "parse") /\ UNCHANGED <<letter, fate>>
  <2>1. /\ at' = [at EXCEPT ![s] = "parse"] /\ letter' = [letter EXCEPT ![s] = letter[s]]
        /\ fate' = [fate EXCEPT ![m] = fate[m]]
    BY <1>0, <1>1 DEF Goto
  <2>2. Fits("parse", letter[s].todo, fate[m])
    BY <1>0 DEF Fits, Fresh
  <2>3. "parse" \in Places /\ "parse" \notin Resting /\ letter[s].mail = m /\ m # None
    BY <1>0, SmtpAssumption DEF Places, Resting, Mail
  <2>4. QED BY <1>0, <2>1, <2>2, <2>3, MailMoves
<1>2. CASE Goto(s, "answer") /\ fate' = [fate EXCEPT ![m].verdict = "unheard"] /\ UNCHANGED letter
  <2> DEFINE f == [fate[m] EXCEPT !.verdict = "unheard"]
  <2>1. /\ at' = [at EXCEPT ![s] = "answer"] /\ letter' = [letter EXCEPT ![s] = letter[s]]
        /\ fate' = [fate EXCEPT ![m] = f]
    BY <1>0, <1>2 DEF Goto
  <2>2. f \in Fate /\ f.sent /\ ~f.answered /\ f.outcome = None /\ f.verdict = "unheard"
        /\ f.handed = 0 /\ f.copies = 0
    BY <1>0 DEF Fate, Fresh
  <2>3. Heard(f)
    BY <2>2, SmtpAssumption DEF Heard
  <2>4. Sane(f) /\ Fits("answer", letter[s].todo, f)
    BY <2>2, <2>3, SmtpAssumption DEF Sane, Fits
  <2>5. "answer" \in Places /\ "answer" \notin Resting /\ letter[s].mail = m /\ m # None
    BY <1>0, SmtpAssumption DEF Places, Resting, Mail
  <2> HIDE DEF f
  <2>6. QED BY <1>0, <2>1, <2>2, <2>4, <2>5, MailMoves
<1>3. CASE GivesUp(s, m) /\ fate' = [fate EXCEPT ![m].outcome = "failure"]
  <2> DEFINE f == [fate[m] EXCEPT !.outcome = "failure"]
  <2>1. fate' = [fate EXCEPT ![m] = f]
    BY <1>0, <1>3
  <2>2. f \in Fate /\ f.sent /\ ~f.answered /\ f.outcome = "failure" /\ f.copies = 0
        /\ f.refused = f.route
    BY <1>0 DEF Fate, Fresh
  <2>3. f.outcome # None /\ Sane(f)
    BY <2>2, SmtpAssumption DEF Sane
  <2> HIDE DEF f
  <2>4. QED BY <1>0, <1>3, <2>1, <2>2, <2>3, EndsOK
<1>4. CASE /\ to \in Remotes /\ Mx[to] # <<>>
           /\ Tries(s, m, Mx[to])
           /\ fate' = [fate EXCEPT ![m].route = {Mx[to][i] : i \in DOMAIN Mx[to]}]
  <2> DEFINE f == [fate[m] EXCEPT !.route = {Mx[to][i] : i \in DOMAIN Mx[to]}]
             l == [mail |-> m, todo |-> Mx[to]]
  <2>0. Mx[to] \in Seq(Servers)
    BY <1>4, SmtpAssumption
  <2>1. /\ at' = [at EXCEPT ![s] = "server"] /\ letter' = [letter EXCEPT ![s] = l]
        /\ fate' = [fate EXCEPT ![m] = f]
    BY <1>0, <1>4 DEF Goto, Tries
  <2>2. {Mx[to][i] : i \in DOMAIN Mx[to]} \in SUBSET Servers
    BY <2>0
  <2>3. f \in Fate /\ f.sent /\ ~f.answered /\ f.outcome = None /\ f.copies = 0
        /\ f.refused = {} /\ f.route = {Mx[to][i] : i \in DOMAIN Mx[to]}
    BY <1>0, <2>2 DEF Fate, Fresh
  <2>4. Sane(f)
    BY <2>3, SmtpAssumption DEF Sane
  <2>5. l.todo = Mx[to] /\ l \in Letter /\ l.mail = m
    BY <1>0, <2>0 DEF Letter
  <2>6. Fits("server", l.todo, f)
    BY <1>4, <2>3, <2>5 DEF Fits
  <2>7. "server" \in Places /\ "server" \notin Resting /\ m # None
    BY <1>0, SmtpAssumption DEF Places, Resting
  <2> HIDE DEF f, l
  <2>8. QED BY <1>0, <2>1, <2>3, <2>4, <2>5, <2>6, <2>7, MailMoves
<1>5. QED BY <1>1, <1>2, <1>3, <1>4 DEF DataEnds

\* A step of a session at home: the message stays with the session.
LEMMA StaysOK ==
    ASSUME LettersOK, NEW s \in Sessions, at[s] \notin Resting, NEW a \in Places \ Resting, NEW f,
           at' = [at EXCEPT ![s] = a], letter' = letter, fate' = [fate EXCEPT ![Mail(s)] = f],
           Sane(f), f.sent, Fits(a, letter[s].todo, f)
    PROVE  LettersOK'
<1>1. /\ s \in Parties /\ s \notin Callers /\ letter[s] \in Letter /\ letter[s].mail = Mail(s)
      /\ Mail(s) \in Mails /\ None \notin Mails
  BY MailFacts, SmtpAssumption DEF Parties, Mail
<1>2. letter' = [letter EXCEPT ![s] = letter[s]]
  BY <1>1 DEF LettersOK
<1>3. QED BY <1>1, <1>2, MailMoves

\* Parsing, the filter, the callback of the program, and the answer.
LEMMA ProcessOK ==
    ASSUME LettersOK, NEW s \in Sessions, Process(s)
    PROVE  LettersOK'
<1> DEFINE m == Mail(s)
<1>0. /\ at[s] \in {"parse", "check", "hand", "answer"} /\ at[s] \notin Resting
      /\ m \in Mails /\ fate[m] \in Fate /\ Sane(fate[m]) /\ fate[m].sent /\ ~fate[m].answered
      /\ Fits(at[s], letter[s].todo, fate[m])
      /\ at \in [Parties -> Places] /\ letter \in [Parties -> Letter] /\ fate \in [Mails -> Fate]
      /\ s \in Parties /\ s \notin Callers
  <2>1. at[s] \in {"parse", "check", "hand", "answer"} /\ at[s] \notin Resting
        /\ s \in Parties /\ s \notin Callers
    BY SmtpAssumption
       DEF Process, ParseRawEmail, CheckEmail, Hand, Answer, Resting, Parties
  <2>2. QED BY <2>1, MailFacts DEF LettersOK, Fits
<1>1. CASE ParseRawEmail(s)
  <2>1. /\ at' = [at EXCEPT ![s] = "check"] /\ letter' = letter /\ fate' = [fate EXCEPT ![m] = fate[m]]
    BY <1>0, <1>1 DEF ParseRawEmail, Goto
  <2>2. Fits("check", letter[s].todo, fate[m])
    BY <1>0, <1>1 DEF ParseRawEmail, Fits, Fresh
  <2>3. "check" \in Places \ Resting
    BY DEF Places, Resting
  <2>4. QED BY <1>0, <2>1, <2>2, <2>3, StaysOK
<1>2. CASE CheckEmail(s)
  <2>1. PICK v \in {"ACCEPT", "QUARANTINE", "REJECT"} :
            /\ fate' = [fate EXCEPT ![m].verdict = v]
            /\ at' = [at EXCEPT ![s] = AfterCheck(v)] /\ letter' = letter
    BY <1>2 DEF CheckEmail, Goto
  <2> DEFINE f == [fate[m] EXCEPT !.verdict = v]
  <2>2. fate' = [fate EXCEPT ![m] = f]
    BY <1>0, <2>1
  <2>3. Fresh(fate[m])
    BY <1>0, <1>2 DEF CheckEmail, Fits
  <2>4. f \in Fate /\ f.sent /\ ~f.answered /\ f.outcome = None /\ f.verdict = v
        /\ f.handed = 0 /\ f.copies = 0
    BY <1>0, <2>3 DEF Fate, Fresh
  <2>5. Sane(f)
    BY <2>4, SmtpAssumption DEF Sane
  <2>6. AfterCheck(v) \in Places \ Resting
    BY DEF AfterCheck, Places, Resting
  <2>7. Fits(AfterCheck(v), letter[s].todo, f)
    <3>1. CASE v = "REJECT"
      <4>1. Heard(f)
        BY <2>4, <3>1, SmtpAssumption DEF Heard
      <4>2. QED BY <2>4, <3>1, <4>1 DEF AfterCheck, Fits
    <3>2. CASE v # "REJECT"
      BY <2>4, <3>2 DEF AfterCheck, Fits
    <3>3. QED BY <3>1, <3>2
  <2> HIDE DEF f
  <2>8. QED BY <1>0, <2>1, <2>2, <2>4, <2>5, <2>6, <2>7, StaysOK
<1>3. CASE Hand(s)
  <2> DEFINE f == [fate[m] EXCEPT !.handed = fate[m].handed + 1]
  <2>1. /\ at' = [at EXCEPT ![s] = "answer"] /\ letter' = letter /\ fate' = [fate EXCEPT ![m] = f]
    BY <1>0, <1>3 DEF Hand, Goto
  <2>2. fate[m].outcome = None /\ fate[m].handed = 0 /\ fate[m].verdict \in {"ACCEPT", "QUARANTINE"}
    BY <1>0, <1>3 DEF Hand, Fits
  <2>3. f \in Fate /\ f.sent /\ ~f.answered /\ f.outcome = None /\ f.verdict = fate[m].verdict
        /\ f.handed = 1 /\ f.copies = fate[m].copies
    BY <1>0, <2>2 DEF Fate
  <2>4. Heard(f)
    BY <2>2, <2>3, SmtpAssumption DEF Heard
  <2>5. Sane(f)
    BY <1>0, <2>3, SmtpAssumption DEF Sane
  <2>6. Fits("answer", letter[s].todo, f)
    BY <2>3, <2>4 DEF Fits
  <2>7. "answer" \in Places \ Resting
    BY DEF Places, Resting
  <2> HIDE DEF f
  <2>8. QED BY <1>0, <2>1, <2>3, <2>5, <2>6, <2>7, StaysOK
<1>4. CASE Answer(s)
  <2> DEFINE f == [fate[m] EXCEPT !.answered = TRUE]
  <2>1. /\ at' = [at EXCEPT ![s] = "command"] /\ letter' = [letter EXCEPT ![s] = NoLetter]
        /\ fate' = [fate EXCEPT ![m] = f]
    BY <1>0, <1>4 DEF Answer, Goto
  <2>2. fate[m].outcome # None \/ Heard(fate[m])
    BY <1>0, <1>4 DEF Answer, Fits
  <2>3. /\ f \in Fate /\ f.sent /\ f.outcome = fate[m].outcome /\ f.verdict = fate[m].verdict
        /\ f.handed = fate[m].handed /\ f.copies = fate[m].copies
        /\ f.refused = fate[m].refused /\ f.route = fate[m].route
    BY <1>0 DEF Fate
  <2>4. f.outcome # None \/ Heard(f)
    BY <2>2, <2>3 DEF Heard
  <2>5. Sane(f)
    BY <1>0, <2>3, <2>4 DEF Sane
  <2>6. /\ "command" \in Places /\ "command" \in Resting /\ NoLetter \in Letter /\ NoLetter.mail = None
        /\ None \notin Mails
    BY SmtpAssumption DEF Places, Resting, NoLetter, Letter
  <2> HIDE DEF f
  <2>7. QED BY <1>0, <2>1, <2>3, <2>5, <2>6, MailMoves
<1>5. QED BY <1>1, <1>2, <1>3, <1>4 DEF Process

\* The program's own messages.
LEMMA CallsOK ==
    ASSUME LettersOK, NEW c \in Callers, NEW m \in Mails, NEW servers \in Seq(Servers),
           Calls(c, m, servers)
    PROVE  LettersOK'
<1> DEFINE route == {servers[i] : i \in DOMAIN servers}
           outcome == IF servers = <<>> THEN "failure" ELSE None
           f == [fate[m] EXCEPT !.sent = TRUE, !.route = route, !.outcome = outcome]
<1>0. /\ c \in Parties /\ c \notin Sessions /\ None \notin Mails /\ at[c] = "off"
      /\ fate[m] \in Fate /\ Sane(fate[m]) /\ ~fate[m].sent /\ Fresh(fate[m])
      /\ fate \in [Mails -> Fate]
  BY SmtpAssumption DEF Parties, LettersOK, Calls, Sane
<1>1. fate' = [fate EXCEPT ![m] = f]
  BY <1>0 DEF Calls
<1>2. route \in SUBSET Servers /\ outcome \in {None, "failure"}
  OBVIOUS
<1>3. /\ f \in Fate /\ f.sent /\ ~f.answered /\ f.outcome = outcome /\ f.route = route
      /\ f.refused = {} /\ f.copies = 0
  BY <1>0, <1>2 DEF Fate, Fresh
<1>4. CASE servers = <<>>
  <2>1. f.outcome = "failure" /\ f.route = {}
    BY <1>3, <1>4
  <2>2. Sane(f)
    BY <1>3, <2>1, SmtpAssumption DEF Sane
  <2>3. PICK a \in Places, l \in Letter :
            /\ at' = [at EXCEPT ![c] = a] /\ letter' = [letter EXCEPT ![c] = l]
            /\ l.mail \in {None, m} /\ (a \in Resting <=> l.mail = None)
            /\ c \in Callers => a = "off"
            /\ a \in {"answer", "off"}
    <3>1. GivesUp(c, m)
      BY <1>4 DEF Calls
    <3>2. QED BY <1>0, <3>1, GivesUpFacts
  <2>4. l.mail = None
    BY <2>3 DEF Resting
  <2> HIDE DEF f
  <2>5. QED BY <1>0, <1>1, <1>3, <2>2, <2>3, <2>4, PartyMoves
<1>5. CASE servers # <<>>
  <2> DEFINE l == [mail |-> m, todo |-> servers]
  <2>1. f.outcome = None
    BY <1>3, <1>5
  <2>2. Sane(f)
    BY <1>3, <2>1, SmtpAssumption DEF Sane
  <2>3. at' = [at EXCEPT ![c] = "server"] /\ letter' = [letter EXCEPT ![c] = l]
    BY <1>5 DEF Calls, Tries, Goto
  <2>4. l \in Letter /\ l.mail = m /\ l.todo = servers
    BY DEF Letter
  <2>5. Fits("server", l.todo, f)
    BY <1>3, <1>5, <2>1, <2>4 DEF Fits
  <2>6. "server" \in Places /\ "server" \notin Resting
    BY DEF Places, Resting
  <2> HIDE DEF f, l
  <2>7. QED BY <1>0, <1>1, <1>3, <2>2, <2>3, <2>4, <2>5, <2>6, PartyMoves
<1>6. QED BY <1>4, <1>5

LEMMA SendOK ==
    ASSUME LettersOK, NEW c \in Callers, NEW m \in Mails, SendEmail(c, m) \/ SendEmailViaTunnel(c, m)
    PROVE  LettersOK'
<1>1. /\ <<>> \in Seq(Servers) /\ <<Tunnel>> \in Seq(Servers)
      /\ DevRelay # None => <<DevRelay>> \in Seq(Servers)
      /\ \A to \in Addresses \ Odd : Mx[to] \in Seq(Servers)
  BY SmtpAssumption DEF Addresses
<1>2. QED BY <1>1, CallsOK DEF SendEmail, SendEmailViaTunnel

\* The loop over the servers.
LEMMA RelayOK ==
    ASSUME LettersOK, NEW w \in Parties, Relay(w)
    PROVE  LettersOK'
<1> DEFINE m == Mail(w)
<1>0. /\ at[w] \in {"server", "end"} /\ at[w] \notin Resting
      /\ m \in Mails /\ fate[m] \in Fate /\ Sane(fate[m]) /\ fate[m].sent /\ ~fate[m].answered
      /\ letter[w] \in Letter /\ letter[w].mail = m /\ letter[w].todo \in Seq(Servers)
      /\ fate[m].outcome = None /\ fate[m].copies = 0 /\ letter[w].todo # <<>>
      /\ fate[m].route = fate[m].refused \cup {letter[w].todo[i] : i \in DOMAIN letter[w].todo}
      /\ letter \in [Parties -> Letter] /\ fate \in [Mails -> Fate] /\ None \notin Mails
  <2>1. at[w] \in {"server", "end"} /\ at[w] \notin Resting
    BY DEF Relay, ServerFails, ServerListens, ServerEnds, Resting
  <2>2. QED BY <2>1, MailFacts, SmtpAssumption DEF LettersOK, Fits, Mail
<1>1. CASE ServerListens(w)
  <2>1. /\ at' = [at EXCEPT ![w] = "end"] /\ letter' = [letter EXCEPT ![w] = letter[w]]
        /\ fate' = [fate EXCEPT ![m] = fate[m]]
    BY <1>0, <1>1 DEF ServerListens, Goto
  <2>2. Fits("end", letter[w].todo, fate[m])
    BY <1>0 DEF Fits
  <2>3. "end" \in Places /\ "end" \notin Resting
    BY DEF Places, Resting
  <2>4. QED BY <1>0, <2>1, <2>2, <2>3, MailMoves
<1>2. CASE ServerEnds(w)
  <2>1. PICK took \in BOOLEAN :
            fate' = [fate EXCEPT ![m].copies = @ + IF took THEN 1 ELSE 0, ![m].outcome = "success"]
    BY <1>2 DEF ServerEnds
  <2> DEFINE n == IF took THEN 1 ELSE 0
             f == [fate[m] EXCEPT !.copies = n, !.outcome = "success"]
  <2>0. n \in {0, 1} /\ fate[m].copies + n = n
    BY <1>0
  <2>2. fate' = [fate EXCEPT ![m] = f]
    BY <1>0, <2>0, <2>1
  <2>3. f \in Fate /\ f.sent /\ ~f.answered /\ f.outcome = "success" /\ f.copies \in {0, 1}
    <3>1. PICK k \in {0, 1} : k = n
      BY <2>0
    <3>2. f = [fate[m] EXCEPT !.copies = k, !.outcome = "success"]
      BY <3>1
    <3>3. k \in Nat
      BY <3>1
    <3> HIDE DEF f
    <3>4. QED BY <1>0, <3>2, <3>3 DEF Fate
  <2>4. Sane(f) /\ f.outcome # None
    BY <2>3, SmtpAssumption DEF Sane
  <2> HIDE DEF f
  <2>5. QED BY <1>0, <1>2, <2>2, <2>3, <2>4, EndsOK DEF ServerEnds
<1>3. CASE ServerFails(w)
  <2> DEFINE todo == letter[w].todo
             refused == fate[m].refused \cup {Head(todo)}
  <2>1. Head(todo) \in Servers /\ Tail(todo) \in Seq(Servers)
        /\ {todo[i] : i \in DOMAIN todo} = {Head(todo)} \cup {Tail(todo)[i] : i \in DOMAIN Tail(todo)}
    <3>1. todo \in Seq(Servers) /\ todo # <<>>
      BY <1>0
    <3> HIDE DEF todo
    <3>2. \A i \in DOMAIN todo : i = 1 \/ (i - 1 \in DOMAIN Tail(todo) /\ Tail(todo)[i - 1] = todo[i])
      BY <3>1
    <3>3. /\ 1 \in DOMAIN todo /\ Head(todo) = todo[1]
          /\ Tail(todo) \in Seq(Servers) /\ Head(todo) \in Servers
      BY <3>1
    <3>4. \A i \in DOMAIN Tail(todo) : i + 1 \in DOMAIN todo /\ Tail(todo)[i] = todo[i + 1]
      BY <3>1
    <3>5. {todo[i] : i \in DOMAIN todo} \subseteq {Head(todo)} \cup {Tail(todo)[i] : i \in DOMAIN Tail(todo)}
      BY <3>2, <3>3
    <3>6. {Head(todo)} \cup {Tail(todo)[i] : i \in DOMAIN Tail(todo)} \subseteq {todo[i] : i \in DOMAIN todo}
      BY <3>3, <3>4
    <3>7. QED BY <3>3, <3>5, <3>6, Zenon
  <2>2. refused \in SUBSET Servers
    BY <1>0, <2>1 DEF Fate
  <2>3. CASE Tail(todo) = <<>>
    <3> DEFINE f == [fate[m] EXCEPT !.refused = refused, !.outcome = "failure"]
    <3>1. fate' = [fate EXCEPT ![m] = f] /\ GivesUp(w, m)
      BY <1>0, <1>3, <2>3 DEF ServerFails, Refuses
    <3>2. f \in Fate /\ f.sent /\ ~f.answered /\ f.outcome = "failure" /\ f.copies = 0
          /\ f.refused = refused /\ f.route = fate[m].route
      BY <1>0, <2>2 DEF Fate
    <3>3. fate[m].route = refused
      <4>1. {Tail(todo)[i] : i \in DOMAIN Tail(todo)} = {}
        BY <2>3
      <4>2. QED BY <1>0, <2>1, <4>1
    <3>4. Sane(f) /\ f.outcome # None
      BY <3>2, <3>3, SmtpAssumption DEF Sane
    <3> HIDE DEF f
    <3>5. QED BY <1>0, <3>1, <3>2, <3>4, EndsOK
  <2>4. CASE Tail(todo) # <<>>
    <3> DEFINE f == [fate[m] EXCEPT !.refused = refused]
               l == [mail |-> m, todo |-> Tail(todo)]
    <3>1. /\ at' = [at EXCEPT ![w] = "server"] /\ letter' = [letter EXCEPT ![w] = l]
          /\ fate' = [fate EXCEPT ![m] = f]
      BY <1>0, <1>3, <2>4 DEF ServerFails, Refuses, Tries, Goto
    <3>2. f \in Fate /\ f.sent /\ ~f.answered /\ f.outcome = None /\ f.copies = 0
          /\ f.refused = refused /\ f.route = fate[m].route
      BY <1>0, <2>2 DEF Fate
    <3>3. Sane(f)
      BY <3>2, SmtpAssumption DEF Sane
    <3>4. l \in Letter /\ l.mail = m /\ l.todo = Tail(todo)
      BY <1>0, <2>1 DEF Letter
    <3>5. fate[m].route = refused \cup {Tail(todo)[i] : i \in DOMAIN Tail(todo)}
      BY <1>0, <2>1
    <3>6. Fits("server", l.todo, f)
      BY <2>4, <3>2, <3>4, <3>5 DEF Fits
    <3>7. "server" \in Places /\ "server" \notin Resting
      BY DEF Places, Resting
    <3> HIDE DEF f, l
    <3>8. QED BY <1>0, <3>1, <3>2, <3>3, <3>4, <3>6, <3>7, MailMoves
  <2>5. QED BY <2>3, <2>4
<1>4. QED BY <1>1, <1>2, <1>3 DEF Relay

-----------------------------------------------------------------------------
(* The invariant *)

LEMMA InitInv == Init => Inv
<1> SUFFICES ASSUME Init PROVE Inv
  OBVIOUS
<1> USE DEF Init
<1>1. ServerTypes
  BY DEF ServerTypes, Session, NewSession
<1>2. Unsent \in Fate /\ Sane(Unsent)
  BY SmtpAssumption DEF Unsent, Fate, Sane, Fresh
<1>3. NoLetter \in Letter /\ NoLetter.mail = None
  BY DEF NoLetter, Letter
<1>4. LettersOK
  BY <1>2, <1>3 DEF LettersOK, Mail, Places, Resting, Parties
<1>5. QED BY <1>1, <1>4 DEF Inv

LEMMA NextInv == Inv /\ [Next]_vars => Inv'
<1> SUFFICES ASSUME Inv, [Next]_vars PROVE Inv'
  OBVIOUS
<1> USE DEF Inv
<1>1. CASE Listen \/ Assign \/ Select \/ AcceptTimeout \/ AcceptClosed \/ Stop \/ StopListener \/ OnRecv
  <2>1. UNCHANGED <<at, letter, fate, session>>
    BY <1>1 DEF Listen, Assign, Select, AcceptTimeout, AcceptClosed, Stop, StopListener, OnRecv
  <2>2. LettersOK'
    BY <2>1 DEF LettersOK, Mail
  <2>3. ServerTypes'
    BY <1>1 DEF ServerTypes, Listen, Assign, Select, AcceptTimeout, AcceptClosed, Stop, StopListener,
                OnRecv, Returns
  <2>4. QED BY <2>2, <2>3
<1>2. ASSUME NEW s \in Sessions,
             \/ Accept(s) \/ Leaves(s) \/ MailFrom(s) \/ Rset(s) \/ Auth(s) \/ AuthEnds(s) \/ StartTls(s)
             \/ \E a \in Addresses : RcptTo(s, a)
      PROVE  Inv'
  <2>1. LettersOK'
    BY <1>2, CommandOK
  <2>2. UNCHANGED <<done, socket, listener, stop, onRecv>> /\ loop' \in {loop, "select"}
    BY <1>2 DEF Accept, Leaves, MailFrom, Rset, Auth, AuthEnds, StartTls, RcptTo, server
  <2>3. session' \in [Sessions -> Session]
    <3>0. session \in [Sessions -> Session] /\ NewSession \in Session
      BY DEF ServerTypes, NewSession, Session
    <3>1. CASE Accept(s) \/ Leaves(s) \/ Auth(s) \/ StartTls(s)
      BY <3>0, <3>1 DEF Accept, Leaves, Auth, StartTls
    <3>2. CASE MailFrom(s) \/ Rset(s)
      BY <3>0, <3>2 DEF MailFrom, Rset, Forgets, Session
    <3>3. CASE AuthEnds(s)
      <4>1. PICK known \in BOOLEAN : session' = [session EXCEPT ![s].authenticated = @ \/ known]
        BY <3>3, SmtpAssumption DEF AuthEnds
      <4>2. session[s] \in Session /\ session[s].authenticated \in BOOLEAN
        BY <3>0 DEF Session
      <4>3. (session[s].authenticated \/ known) \in BOOLEAN
        BY Zenon
      <4>4. [session[s] EXCEPT !.authenticated = session[s].authenticated \/ known] \in Session
        BY <4>2, <4>3 DEF Session
      <4>5. QED BY <3>0, <4>1, <4>4
    <3>4. ASSUME NEW a \in Addresses, RcptTo(s, a) PROVE session' \in [Sessions -> Session]
      BY <3>0, <3>4, SmtpAssumption DEF RcptTo, requiresAuthentication, Session
    <3>5. QED BY <1>2, <3>1, <3>2, <3>3, <3>4
  <2>4. QED BY <2>1, <2>2, <2>3 DEF ServerTypes
<1>3. ASSUME NEW s \in Sessions, DataEnds(s) \/ Process(s) \/ \E m \in Mails : Data(s, m)
      PROVE  Inv'
  <2>1. LettersOK'
    BY <1>3, DataEndsOK, ProcessOK, DataOK DEF ServerTypes
  <2>2. UNCHANGED <<done, socket, listener, stop, onRecv, loop>>
    BY <1>3 DEF DataEnds, Process, ParseRawEmail, CheckEmail, Hand, Answer, Data, server
  <2>3. session' \in [Sessions -> Session]
    BY <1>3 DEF DataEnds, Process, ParseRawEmail, CheckEmail, Hand, Answer, Data, Forgets, Session,
                ServerTypes
  <2>4. QED BY <2>1, <2>2, <2>3 DEF ServerTypes
<1>4. ASSUME NEW c \in Callers, NEW m \in Mails, SendEmail(c, m) \/ SendEmailViaTunnel(c, m)
      PROVE  Inv'
  <2>1. LettersOK'
    BY <1>4, SendOK
  <2>2. UNCHANGED <<done, socket, listener, stop, onRecv, loop, session>>
    BY <1>4 DEF SendEmail, SendEmailViaTunnel, Calls, server
  <2>3. QED BY <2>1, <2>2 DEF ServerTypes
<1>5. ASSUME NEW w \in Parties, Relay(w) PROVE Inv'
  <2>1. LettersOK'
    BY <1>5, RelayOK
  <2>2. UNCHANGED <<done, socket, listener, stop, onRecv, loop, session>>
    BY <1>5 DEF Relay, ServerFails, ServerListens, ServerEnds, server
  <2>3. QED BY <2>1, <2>2 DEF ServerTypes
<1>6. CASE UNCHANGED vars
  BY <1>6 DEF vars, ServerTypes, LettersOK, Mail
<1>7. QED
  BY <1>1, <1>2, <1>3, <1>4, <1>5, <1>6 DEF Next

LEMMA InvHolds == Spec => []Inv
BY InitInv, NextInv, PTL DEF Spec

\* Type correctness.
THEOREM TypeCorrect == Spec => []TypeOK
<1>1. Inv => TypeOK
  BY DEF Inv, ServerTypes, LettersOK, TypeOK, Places
<1>2. QED BY <1>1, InvHolds, PTL

\* relayEmail and SendEmail: whatever servers refuse, break or leave without an
\* answer, no message is taken by two of them.
THEOREM AtMostOneTakes == Spec => []TakenAtMostOnce
<1>1. Inv => TakenAtMostOnce
  BY DEF Inv, LettersOK, Sane, TakenAtMostOnce
<1>2. QED BY <1>1, InvHolds, PTL

\* A failure that relayEmail or SendEmail reports means that every server of
\* the address refused the message and none took it.
THEOREM FailureMeansRefused == Spec => []GivenUpMeansRefused
<1>1. Inv => GivenUpMeansRefused
  BY DEF Inv, LettersOK, Sane, GivenUpMeansRefused
<1>2. QED BY <1>1, InvHolds, PTL

\* processEmail: a message that was answered 250 has been relayed, given up or
\* dropped, or handed to the program exactly once, and never if it was rejected.
THEOREM AnswerMeansSettled == Spec => []AnsweredIsSettled
<1>1. Inv => AnsweredIsSettled
  BY DEF Inv, LettersOK, Sane, Heard, AnsweredIsSettled
<1>2. QED BY <1>1, InvHolds, PTL

-----------------------------------------------------------------------------
(* SpamFilter *)

Counting == {"rate.count", "rate.write", "rate.test"}

\* CheckEmail has not started its lookups.
Early == {"idle", "content", "rate", "rate.insert", "dnsbl"} \cup Counting

\* The score is set and still counts.
Scored == {"rate", "rate.insert", "dnsbl", "headers", "headers.write", "action", "action.medium"}
          \cup Counting

\* A call of CheckEmail, by where it stands.
CallTypes(k) ==
    /\ k \in Check
    /\ k.pc \notin {"idle", "done"} => k.ip \in IPs
    /\ k.pc \in Early \ {"idle"} => k.mail \in Emails
    /\ k.pc \in Counting => k.limit \in Checkers
    /\ k.pc = "rate.write" => k.read \in Nat
    /\ k.pc = "headers.write" => k.left # <<>>

\* The points that no lost increment takes away.
Floor(details) == IF "IP blacklisted" \in details THEN 100
                  ELSE IF "Rate limit exceeded" \in details THEN 50 ELSE -10

\* They are in the score, and in what an increment has read of it.
Keeps(k) ==
    /\ k.pc \in Scored => k.score >= Floor(k.details)
    /\ k.pc = "headers.write" => k.read >= Floor(k.details)
    /\ k.pc = "action.medium" => "IP blacklisted" \notin k.details
    /\ k.pc = "done" => /\ "IP blacklisted" \in k.details => k.action = "REJECT"
                        /\ "Rate limit exceeded" \in k.details => k.action # "ACCEPT"

\* A lookup of the call.
LookupKeeps(k, l) ==
    /\ k.pc \in Early => l.stage = "none"
    /\ k.pc \in Scored /\ l.stage = "adding" => l.read >= Floor(k.details)

CallOK(c) ==
    /\ CallTypes(check[c])
    /\ Keeps(check[c])
    /\ \A d \in Dnsbls : LookupKeeps(check[c], lookup[<<c, d>>])

LookupTypes ==
    lookup \in [Checkers \X Dnsbls -> [stage : {"none", "asked", "adding"}, read : Int]]

ChecksOK ==
    check \in [Checkers -> Check] /\ LookupTypes /\ \A c \in Checkers : CallOK(c)

LimitTypes ==
    /\ rateLimiter \in [IPs -> Checkers \cup {Nil}]
    /\ count \in [Limits -> Nat]
    /\ aborted \in BOOLEAN
    /\ passed \in [IPs -> Nat]
    /\ overlapped \subseteq IPs

\* The checker is in checkRateLimit with a message of the IP.
Rates(c, ip) == check[c].ip = ip /\ check[c].pc \in Rating

\* The limit of an IP whose sessions did not overlap: nobody else is at it, and
\* it has counted every message that passed, the one about to pass included.
RateOK(ip) ==
    LET l == <<rateLimiter[ip], ip>> IN
    /\ passed[ip] <= MaxEmails
    /\ rateLimiter[ip] = Nil => passed[ip] = 0
    /\ rateLimiter[ip] # Nil => passed[ip] <= count[l]
    /\ \A c, d \in Checkers : Rates(c, ip) /\ Rates(d, ip) => c = d
    /\ \A c \in Checkers : check[c].ip = ip =>
          /\ check[c].pc = "rate.insert" => rateLimiter[ip] = Nil
          /\ check[c].pc \in Counting => check[c].limit = rateLimiter[ip]
          /\ check[c].pc = "rate.write" => check[c].read = count[l]
          /\ check[c].pc = "rate.test" => passed[ip] + 1 <= count[l]

RatesOK == \A ip \in IPs \ overlapped : RateOK(ip)

FilterInv == ChecksOK /\ LimitTypes /\ RatesOK

-----------------------------------------------------------------------------
(* Points *)

\* No check of the content takes points away.
LEMMA ContentPointsNat == \A m \in Emails : ContentPoints(m) \in Nat
<1> TAKE m \in Emails
<1>1. m \in Email
  BY FilterAssumption
<1>2. SizePoints(m) \in Nat /\ UrlPoints(m) \in Nat /\ KeywordPoints(m) \in Nat
  BY <1>1 DEF SizePoints, UrlPoints, KeywordPoints, Points, Email
<1>3. SenderPoints(m) \in Nat
  BY <1>1 DEF SenderPoints, Points, Email
<1>4. StructurePoints(m) \in Nat
  BY <1>1 DEF StructurePoints, Points, Email
<1>5. QED BY <1>2, <1>3, <1>4 DEF ContentPoints

\* Nor do the headers.
LEMMA HeaderPointsNat == \A m \in Emails : HeaderPoints(m) \in Seq(Nat)
<1> TAKE m \in Emails
<1>1. m \in Email
  BY FilterAssumption
<1>2. [k \in 1..m.spamHeaders |-> 25] \in Seq(Nat)
  BY <1>1 DEF Email
<1>3. <<>> \in Seq(Nat) /\ <<15>> \in Seq(Nat) /\ <<10>> \in Seq(Nat)
  OBVIOUS
<1>4. (IF "message-id" \in m.headers THEN <<>> ELSE <<15>>) \in Seq(Nat)
  BY <1>3
<1>5. (IF "date" \in m.headers THEN <<>> ELSE <<10>>) \in Seq(Nat)
  BY <1>3
<1>6. QED BY <1>2, <1>4, <1>5 DEF HeaderPoints

-----------------------------------------------------------------------------
(* Calls and their lookups *)

\* A call goes on; the lookups of the others stay as they are.
LEMMA CallMoves ==
    ASSUME ChecksOK, NEW c \in Checkers, NEW k, CallTypes(k), Keeps(k),
           check' = [check EXCEPT ![c] = k], LookupTypes',
           \A d \in Dnsbls : LookupKeeps(k, lookup'[<<c, d>>]),
           \A b \in Checkers \ {c}, d \in Dnsbls : lookup'[<<b, d>>] = lookup[<<b, d>>]
    PROVE  ChecksOK'
<1>1. k \in Check
  BY DEF CallTypes
<1>2. check'[c] = k /\ \A b \in Checkers \ {c} : check'[b] = check[b]
  BY DEF ChecksOK
<1>3. check' \in [Checkers -> Check]
  BY <1>1 DEF ChecksOK
<1>4. \A b \in Checkers : CallOK(b)'
  BY <1>2 DEF ChecksOK, CallOK
<1>5. QED BY <1>3, <1>4 DEF ChecksOK

\* The same, for a call whose lookups stay too.
LEMMA CallGoesOn ==
    ASSUME ChecksOK, NEW c \in Checkers, NEW k, CallTypes(k), Keeps(k),
           check' = [check EXCEPT ![c] = k], lookup' = lookup,
           \/ check[c].pc \in Early
           \/ k.pc = "done"
           \/ k.pc \notin Early /\ check[c].pc \in Scored /\ k.details = check[c].details
    PROVE  ChecksOK'
<1>1. \A d \in Dnsbls : LookupKeeps(check[c], lookup[<<c, d>>])
  BY DEF ChecksOK, CallOK
<1>2. \A d \in Dnsbls : LookupKeeps(k, lookup[<<c, d>>])
  BY <1>1 DEF LookupKeeps, Early, Scored, Counting
<1>3. LookupTypes'
  BY DEF ChecksOK, LookupTypes
<1>4. QED BY <1>2, <1>3, CallMoves

\* A message arrives, and its content is looked at.
LEMMA ContentOK ==
    ASSUME ChecksOK, NEW c \in Checkers,
           CheckContent(c) \/ \E ip \in IPs, m \in Emails : Begin(c, ip, m)
    PROVE  ChecksOK'
<1>0. check \in [Checkers -> Check] /\ CallTypes(check[c]) /\ Keeps(check[c])
  BY DEF ChecksOK, CallOK
<1>1. CASE CheckContent(c)
  <2>1. PICK blacklisted \in BOOLEAN :
            /\ check' = [check EXCEPT
                     ![c].pc = Following("content"),
                     ![c].score = ContentPoints(check[c].mail) + IPPoints(check[c].ip, blacklisted),
                     ![c].details = {d \in {"IP blacklisted"} : blacklisted}]
            /\ lookup' = lookup /\ check[c].pc = "content"
    BY <1>1, FilterAssumption DEF CheckContent
  <2> DEFINE points == ContentPoints(check[c].mail) + IPPoints(check[c].ip, blacklisted)
             details == {d \in {"IP blacklisted"} : blacklisted}
             k == [check[c] EXCEPT !.pc = "rate", !.score = points, !.details = details]
  <2>2. check' = [check EXCEPT ![c] = k]
    BY <1>0, <2>1 DEF Following
  <2>3. ContentPoints(check[c].mail) \in Nat
    BY <1>0, <2>1, ContentPointsNat DEF CallTypes, Early
  <2>4. points \in Int /\ points >= IF blacklisted THEN 100 ELSE -10
    BY <2>3 DEF IPPoints, Points
  <2>5. /\ details \in SUBSET {"IP blacklisted", "Rate limit exceeded"}
        /\ "Rate limit exceeded" \notin details
        /\ "IP blacklisted" \in details <=> blacklisted
    OBVIOUS
  <2>6. points >= Floor(details)
    BY <2>4, <2>5 DEF Floor
  <2> HIDE DEF points, details
  <2>7. CallTypes(k)
    BY <1>0, <2>1, <2>4, <2>5 DEF CallTypes, Check, Early, Counting
  <2>8. k.pc = "rate" /\ k.score = points /\ k.details = details
    BY <1>0 DEF Check
  <2>9. Keeps(k)
    BY <2>6, <2>8 DEF Keeps
  <2> HIDE DEF k
  <2>10. QED BY <2>1, <2>2, <2>7, <2>9, CallGoesOn DEF Early
<1>2. ASSUME NEW ip \in IPs, NEW m \in Emails, Begin(c, ip, m) PROVE ChecksOK'
  <2> DEFINE k1 == [NoCheck EXCEPT !.pc = "content", !.ip = ip, !.mail = m]
             k2 == [NoCheck EXCEPT !.pc = "done"]
  <2>1. /\ check[c].pc = "idle" /\ lookup' = lookup
        /\ check' = [check EXCEPT ![c] = k1] \/ check' = [check EXCEPT ![c] = k2]
    BY <1>2 DEF Begin
  <2>2. CallTypes(k1) /\ CallTypes(k2)
    <3>1. NoCheck \in Check /\ NoCheck.pc = "idle"
      BY DEF NoCheck, Check
    <3>2. k1 \in Check /\ k1.pc = "content" /\ k1.ip = ip /\ k1.mail = m
      BY <3>1 DEF Check
    <3>3. k2 \in Check /\ k2.pc = "done"
      BY <3>1 DEF Check
    <3> HIDE DEF k1, k2
    <3>4. QED BY <3>2, <3>3 DEF CallTypes, Counting, Early
  <2>3. Keeps(k1) /\ Keeps(k2)
    BY DEF Keeps, NoCheck, Scored, Counting
  <2> HIDE DEF k1, k2
  <2>4. QED BY <2>1, <2>2, <2>3, CallGoesOn DEF Early
<1>3. QED BY <1>1, <1>2

\* checkRateLimit
LEMMA RateCallOK ==
    ASSUME ChecksOK, LimitTypes, NEW c \in Checkers,
           RateLookup(c) \/ RateInsert(c) \/ RateRead(c) \/ RateReset(c) \/ RateWrite(c) \/ RateTest(c)
    PROVE  ChecksOK'
<1>0. check \in [Checkers -> Check] /\ CallTypes(check[c]) /\ Keeps(check[c]) /\ check[c] \in Check
      /\ check[c].score \in Int
  BY DEF ChecksOK, CallOK, CallTypes, Check
<1>1. check[c].pc \in Early /\ lookup' = lookup /\ check[c].pc \in Scored
  BY DEF RateLookup, RateInsert, RateRead, RateReset, RateWrite, RateTest, Early, Counting, Scored
<1>2. check[c].score >= Floor(check[c].details) /\ check[c].ip \in IPs /\ check[c].mail \in Emails
  BY <1>0, <1>1 DEF Keeps, CallTypes, Scored, Counting, Early
<1>3. ASSUME NEW pc \in {"rate.insert", "rate.count", "rate.write", "rate.test", "dnsbl"},
             NEW limit \in Checkers \cup {Nil}, NEW read \in Int,
             pc \in Counting => limit \in Checkers, pc = "rate.write" => read \in Nat,
             check' = [check EXCEPT ![c].pc = pc, ![c].limit = limit, ![c].read = read]
      PROVE  ChecksOK'
  <2> DEFINE k == [check[c] EXCEPT !.pc = pc, !.limit = limit, !.read = read]
  <2>1. check' = [check EXCEPT ![c] = k]
    BY <1>0, <1>3
  <2>2. CallTypes(k)
    BY <1>0, <1>2, <1>3 DEF CallTypes, Check
  <2>3. k.pc = pc /\ k.score = check[c].score /\ k.details = check[c].details
    BY <1>0 DEF Check
  <2>4. Keeps(k)
    BY <1>2, <2>3 DEF Keeps
  <2> HIDE DEF k
  <2>5. QED BY <1>1, <2>1, <2>2, <2>4, CallGoesOn
<1>4. CASE RateLookup(c)
  <2> DEFINE limit == rateLimiter[check[c].ip]
             pc == IF limit = Nil THEN "rate.insert" ELSE "rate.count"
  <2>1. limit \in Checkers \cup {Nil} /\ check[c].read \in Int
    BY <1>0, <1>2 DEF LimitTypes, Check
  <2>2. check' = [check EXCEPT ![c].pc = pc, ![c].limit = limit, ![c].read = check[c].read]
    BY <1>0, <1>4 DEF RateLookup, Check
  <2>3. pc \in {"rate.insert", "rate.count"} /\ (pc \in Counting => limit \in Checkers)
    BY <2>1 DEF Counting
  <2> HIDE DEF limit, pc
  <2>4. QED BY <1>3, <2>1, <2>2, <2>3
<1>5. CASE RateInsert(c)
  <2>1. check[c].limit \in Checkers \cup {Nil} /\ check[c].read \in Int
    BY <1>0 DEF Check
  <2>2. check' = [check EXCEPT ![c].pc = "dnsbl", ![c].limit = check[c].limit, ![c].read = check[c].read]
    BY <1>0, <1>5 DEF RateInsert, Check, Following
  <2>3. QED BY <1>3, <2>1, <2>2 DEF Counting
<1>6. CASE RateRead(c) \/ RateReset(c)
  <2>1. PICK limit \in Checkers : limit = check[c].limit
    BY <1>0, <1>6 DEF RateRead, RateReset, CallTypes, Counting
  <2>2. count[Limit(c)] \in Nat
    BY <1>2, <2>1 DEF LimitTypes, Limits, Limit
  <2>3. PICK n \in Nat : check' = [check EXCEPT ![c].pc = "rate.write", ![c].read = n]
    BY <1>6, <2>2 DEF RateRead, RateReset, FreshCount
  <2>4. check' = [check EXCEPT ![c].pc = "rate.write", ![c].limit = limit, ![c].read = n]
    BY <1>0, <2>1, <2>3 DEF Check
  <2>5. limit \in Checkers \cup {Nil} /\ n \in Int
    OBVIOUS
  <2>6. QED BY <1>3, <2>4, <2>5
<1>7. CASE RateWrite(c)
  <2>1. PICK limit \in Checkers : limit = check[c].limit
    BY <1>0, <1>7 DEF RateWrite, CallTypes, Counting
  <2>2. check' = [check EXCEPT ![c].pc = "rate.test", ![c].limit = limit, ![c].read = 0]
    BY <1>0, <1>7, <2>1 DEF RateWrite, Check
  <2>3. limit \in Checkers \cup {Nil} /\ 0 \in Int
    OBVIOUS
  <2>4. QED BY <1>3, <2>2, <2>3
<1>8. CASE RateTest(c)
  <2>1. CASE check' = [check EXCEPT ![c].pc = Following("rate"), ![c].limit = Nil]
    <3>1. check' = [check EXCEPT ![c].pc = "dnsbl", ![c].limit = Nil, ![c].read = check[c].read]
      BY <1>0, <2>1 DEF Check, Following
    <3>2. check[c].read \in Int
      BY <1>0 DEF Check
    <3>3. QED BY <1>3, <3>1, <3>2 DEF Counting
  <2>2. CASE check' = [check EXCEPT ![c].pc = Following("rate"), ![c].limit = Nil,
                                    ![c].score = @ + 60,
                                    ![c].details = @ \cup {"Rate limit exceeded"}]
    <3> DEFINE details == check[c].details \cup {"Rate limit exceeded"}
               points == check[c].score + 60
               k == [check[c] EXCEPT !.pc = "dnsbl", !.limit = Nil, !.score = points,
                                     !.details = details]
    <3>1. check' = [check EXCEPT ![c] = k]
      BY <1>0, <2>2 DEF Following
    <3>2. points \in Int /\ details \in SUBSET {"IP blacklisted", "Rate limit exceeded"}
      <4>1. check[c].details \in SUBSET {"IP blacklisted", "Rate limit exceeded"}
        <5>1. check[c] \in Check
          BY <1>0
        <5>2. QED BY <5>1 DEF Check
      <4>2. details \in SUBSET {"IP blacklisted", "Rate limit exceeded"}
        BY <4>1
      <4>3. points \in Int
        BY <1>0
      <4> HIDE DEF points, details
      <4>4. QED BY <4>2, <4>3
    <3>3. CallTypes(k)
      <4> HIDE DEF points, details
      <4>1. QED BY <1>0, <1>2, <3>2 DEF CallTypes, Check, Counting
    <3>4. k.pc = "dnsbl" /\ k.score = points /\ k.details = details
      <4>1. check[c] \in Check
        BY <1>0
      <4> HIDE DEF points, details
      <4>2. k.pc = "dnsbl"
        BY <4>1 DEF Check
      <4>3. k.score = points
        BY <4>1, <3>2 DEF Check
      <4>4. k.details = details
        BY <4>1, <3>2 DEF Check
      <4>5. QED BY <4>2, <4>3, <4>4
    <3>5. points >= Floor(details)
      <4>1. /\ "Rate limit exceeded" \in details
            /\ "IP blacklisted" \in details <=> "IP blacklisted" \in check[c].details
        OBVIOUS
      <4>2. Floor(details) <= Floor(check[c].details) + 60 /\ Floor(check[c].details) \in Int
        BY <4>1 DEF Floor
      <4>3. Floor(details) \in Int
        BY DEF Floor
      <4> HIDE DEF details
      <4>4. QED BY <1>0, <1>2, <4>2, <4>3
    <3>6. Keeps(k)
      BY <3>4, <3>5 DEF Keeps
    <3> HIDE DEF k
    <3>7. QED BY <1>1, <3>1, <3>3, <3>6, CallGoesOn
  <2>3. QED BY <1>8, <2>1, <2>2 DEF RateTest
<1>9. QED BY <1>4, <1>5, <1>6, <1>7, <1>8

\* The goroutines of the lookups add what they have read, and what they have
\* read keeps the points.
LEMMA LookupOK ==
    ASSUME ChecksOK, NEW c \in Checkers, NEW d \in Dnsbls, LookupAnswers(c, d) \/ LookupAdds(c, d)
    PROVE  ChecksOK'
<1>0. /\ check \in [Checkers -> Check] /\ CallTypes(check[c]) /\ Keeps(check[c]) /\ check[c] \in Check
      /\ check[c].score \in Int /\ <<c, d>> \in Checkers \X Dnsbls
      /\ lookup \in [Checkers \X Dnsbls -> [stage : {"none", "asked", "adding"}, read : Int]]
      /\ \A e \in Dnsbls : LookupKeeps(check[c], lookup[<<c, e>>])
  BY DEF ChecksOK, CallOK, CallTypes, Check, LookupTypes
<1>1. check[c].pc \in Scored \ Early
  <2>1. lookup[<<c, d>>].stage # "none" /\ check[c].pc # "done"
    BY DEF LookupAnswers, LookupAdds
  <2>2. QED BY <1>0, <2>1 DEF LookupKeeps, Check, Scored, Early, Counting
<1>2. check[c].score >= Floor(check[c].details)
  BY <1>0, <1>1 DEF Keeps
<1>3. NoLookup \in [stage : {"none", "asked", "adding"}, read : Int] /\ NoLookup.stage = "none"
  BY DEF NoLookup
<1>4. CASE LookupAnswers(c, d)
  <2> DEFINE adding == [stage |-> "adding", read |-> check[c].score]
  <2>1. \E l \in {NoLookup, adding} : lookup' = [lookup EXCEPT ![<<c, d>>] = l]
    BY <1>4 DEF LookupAnswers
  <2>2. PICK l \in {NoLookup, adding} : lookup' = [lookup EXCEPT ![<<c, d>>] = l]
    BY <2>1
  <2>3. l \in [stage : {"none", "asked", "adding"}, read : Int] /\ LookupKeeps(check[c], l)
    BY <1>0, <1>1, <1>2, <1>3 DEF LookupKeeps
  <2>4. LookupTypes'
    BY <1>0, <2>2, <2>3 DEF LookupTypes
  <2>5. check' = [check EXCEPT ![c] = check[c]]
    BY <1>0, <1>4 DEF LookupAnswers
  <2>6. /\ \A e \in Dnsbls : LookupKeeps(check[c], lookup'[<<c, e>>])
        /\ \A b \in Checkers \ {c}, e \in Dnsbls : lookup'[<<b, e>>] = lookup[<<b, e>>]
    BY <1>0, <2>2, <2>3
  <2>7. QED BY <1>0, <2>4, <2>5, <2>6, CallMoves
<1>5. CASE LookupAdds(c, d)
  <2> DEFINE points == lookup[<<c, d>>].read + 40
             k == [check[c] EXCEPT !.score = points]
  <2>1. check' = [check EXCEPT ![c] = k] /\ lookup' = [lookup EXCEPT ![<<c, d>>] = NoLookup]
    BY <1>0, <1>5 DEF LookupAdds
  <2>2. lookup[<<c, d>>].read \in Int /\ lookup[<<c, d>>].read >= Floor(check[c].details)
    BY <1>0, <1>1, <1>5 DEF LookupAdds, LookupKeeps
  <2>3. points \in Int /\ points >= Floor(check[c].details)
    <3>1. Floor(check[c].details) \in Int
      BY DEF Floor
    <3>2. QED BY <2>2, <3>1
  <2> HIDE DEF points
  <2>4. CallTypes(k)
    BY <1>0, <2>3 DEF CallTypes, Check
  <2>5. /\ k.pc = check[c].pc /\ k.score = points /\ k.details = check[c].details
        /\ k.read = check[c].read /\ k.action = check[c].action
    BY <1>0 DEF Check
  <2>6. Keeps(k)
    BY <1>0, <2>3, <2>5 DEF Keeps
  <2>7. LookupTypes'
    BY <1>0, <1>3, <2>1 DEF LookupTypes
  <2>8. LookupKeeps(k, NoLookup)
    BY <1>3 DEF LookupKeeps
  <2>9. /\ \A e \in Dnsbls : LookupKeeps(k, lookup'[<<c, e>>])
        /\ \A b \in Checkers \ {c}, e \in Dnsbls : lookup'[<<b, e>>] = lookup[<<b, e>>]
    <3>1. \A e \in Dnsbls : LookupKeeps(k, lookup[<<c, e>>])
      BY <1>0, <2>5 DEF LookupKeeps
    <3> HIDE DEF k
    <3>2. QED BY <1>0, <2>1, <2>8, <3>1
  <2> HIDE DEF k
  <2>10. QED BY <2>1, <2>4, <2>6, <2>7, <2>9, CallMoves
<1>6. QED BY <1>4, <1>5

\* The lookups are started, and the headers looked at.
LEMMA HeadersOK ==
    ASSUME ChecksOK, NEW c \in Checkers, StartLookups(c) \/ HeadersRead(c) \/ HeadersWrite(c)
    PROVE  ChecksOK'
<1>0. /\ check \in [Checkers -> Check] /\ CallTypes(check[c]) /\ Keeps(check[c])
      /\ check[c].score \in Int /\ check[c].read \in Int /\ check[c].left \in Seq(Nat)
      /\ lookup \in [Checkers \X Dnsbls -> [stage : {"none", "asked", "adding"}, read : Int]]
      /\ check[c] \in Check
  BY DEF ChecksOK, CallOK, CallTypes, Check, LookupTypes
<1>01. Floor(check[c].details) \in Int
  BY DEF Floor
<1>1. CASE StartLookups(c)
  <2> DEFINE left == HeaderPoints(check[c].mail)
             k == [check[c] EXCEPT !.pc = "headers", !.left = left, !.mail = Nil]
  <2>1. check[c].pc = "dnsbl" /\ check' = [check EXCEPT ![c] = k]
    BY <1>0, <1>1 DEF StartLookups, Following
  <2>2. left \in Seq(Nat)
    BY <1>0, <2>1, HeaderPointsNat DEF CallTypes, Early
  <2> HIDE DEF left
  <2>3. CallTypes(k)
    BY <1>0, <2>1, <2>2 DEF CallTypes, Check, Early, Counting
  <2>4. k.pc = "headers" /\ k.score = check[c].score /\ k.details = check[c].details
    BY <1>0 DEF Check
  <2>5. Keeps(k)
    BY <1>0, <2>1, <2>4 DEF Keeps, Scored
  <2>6. /\ LookupTypes'
        /\ \A d \in Dnsbls : lookup'[<<c, d>>].stage \in {"asked", lookup[<<c, d>>].stage}
        /\ \A b \in Checkers \ {c}, d \in Dnsbls : lookup'[<<b, d>>] = lookup[<<b, d>>]
    BY <1>0, <1>1 DEF StartLookups, NoLookup, LookupTypes
  <2>7. \A d \in Dnsbls : lookup[<<c, d>>].stage = "none"
    BY <2>1 DEF ChecksOK, CallOK, LookupKeeps, Early
  <2>8. \A d \in Dnsbls : LookupKeeps(k, lookup'[<<c, d>>])
    BY <2>4, <2>6, <2>7 DEF LookupKeeps, Early, Counting
  <2> HIDE DEF k
  <2>9. QED BY <2>1, <2>3, <2>5, <2>6, <2>8, CallMoves
<1>2. CASE HeadersRead(c)
  <2>0. check[c].pc = "headers" /\ check[c].score >= Floor(check[c].details) /\ lookup' = lookup
    BY <1>0, <1>2 DEF HeadersRead, HeadersTurn, Keeps, Scored
  <2>1. CASE check' = [check EXCEPT ![c].pc = "action"]
    <3> DEFINE k == [check[c] EXCEPT !.pc = "action"]
    <3>1. check' = [check EXCEPT ![c] = k] /\ CallTypes(k)
      BY <1>0, <2>0, <2>1 DEF CallTypes, Check, Early, Counting
    <3>2. k.pc = "action" /\ k.score = check[c].score /\ k.details = check[c].details
      BY <1>0 DEF Check
    <3>3. Keeps(k)
      BY <2>0, <3>2 DEF Keeps
    <3> HIDE DEF k
    <3>4. QED BY <2>0, <3>1, <3>2, <3>3, CallGoesOn DEF Early, Scored, Counting
  <2>2. CASE /\ check[c].left # <<>>
             /\ check' = [check EXCEPT ![c].pc = "headers.write", ![c].read = check[c].score]
    <3> DEFINE k == [check[c] EXCEPT !.pc = "headers.write", !.read = check[c].score]
    <3>1. check' = [check EXCEPT ![c] = k] /\ CallTypes(k)
      BY <1>0, <2>0, <2>2 DEF CallTypes, Check, Early, Counting
    <3>2. /\ k.pc = "headers.write" /\ k.score = check[c].score /\ k.details = check[c].details
          /\ k.read = check[c].score
      BY <1>0 DEF Check
    <3>3. Keeps(k)
      BY <2>0, <3>2 DEF Keeps
    <3> HIDE DEF k
    <3>4. QED BY <2>0, <3>1, <3>2, <3>3, CallGoesOn DEF Early, Scored, Counting
  <2>3. QED BY <1>2, <2>1, <2>2 DEF HeadersRead
<1>3. CASE HeadersWrite(c)
  <2> DEFINE points == check[c].read + Head(check[c].left)
             left == Tail(check[c].left)
             k == [check[c] EXCEPT !.pc = "headers", !.score = points, !.left = left,
                                   !.read = 0]
  <2>0. check[c].pc = "headers.write" /\ check[c].read >= Floor(check[c].details) /\ lookup' = lookup
        /\ check[c].left # <<>>
    BY <1>0, <1>3 DEF HeadersWrite, Keeps, CallTypes
  <2>1. check' = [check EXCEPT ![c] = k]
    BY <1>0, <1>3 DEF HeadersWrite
  <2>2. Head(check[c].left) \in Nat /\ Tail(check[c].left) \in Seq(Nat)
    BY <1>0, <2>0
  <2>3. points \in Int /\ points >= Floor(check[c].details)
    BY <1>0, <1>01, <2>0, <2>2
  <2> HIDE DEF points
  <2>4. CallTypes(k)
    <3> DEFINE nothing == 0
    <3>1. left \in Seq(Nat) /\ check[c].ip \in IPs /\ check[c] \in Check /\ nothing \in Int
      BY <1>0, <2>0, <2>2 DEF CallTypes
    <3>2. k = [check[c] EXCEPT !.pc = "headers", !.score = points, !.left = left, !.read = nothing]
      OBVIOUS
    <3> HIDE DEF left, nothing, k
    <3>3. k \in Check /\ k.pc = "headers" /\ k.ip \in IPs
      BY <2>3, <3>1, <3>2 DEF Check
    <3>4. QED BY <3>3 DEF CallTypes, Early, Counting
  <2>5. k.pc = "headers" /\ k.score = points /\ k.details = check[c].details
    BY <1>0, <2>3 DEF Check
  <2>6. Keeps(k)
    BY <2>3, <2>5 DEF Keeps
  <2> HIDE DEF k
  <2>7. QED BY <2>0, <2>1, <2>4, <2>5, <2>6, CallGoesOn DEF Early, Scored, Counting
<1>4. QED BY <1>1, <1>2, <1>3

\* The verdict, and the way back.
LEMMA VerdictOK ==
    ASSUME ChecksOK, NEW c \in Checkers, DetermineHigh(c) \/ DetermineMedium(c) \/ Return(c)
    PROVE  ChecksOK'
<1>0. /\ check \in [Checkers -> Check] /\ CallTypes(check[c]) /\ Keeps(check[c])
      /\ check[c].score \in Int
      /\ lookup \in [Checkers \X Dnsbls -> [stage : {"none", "asked", "adding"}, read : Int]]
  BY DEF ChecksOK, CallOK, CallTypes, Check, LookupTypes
<1>1. ASSUME NEW action \in {"REJECT", "QUARANTINE", "ACCEPT"},
             check' = [check EXCEPT ![c] = Verdict(c, action)], lookup' = lookup,
             "IP blacklisted" \in check[c].details => action = "REJECT",
             "Rate limit exceeded" \in check[c].details => action # "ACCEPT"
      PROVE  ChecksOK'
  <2>1. check[c].details \in SUBSET {"IP blacklisted", "Rate limit exceeded"}
    <3>1. check[c] \in Check
      BY <1>0
    <3>2. QED BY <3>1 DEF Check
  <2>2. /\ Verdict(c, action).pc = "done" /\ Verdict(c, action).action = action
        /\ Verdict(c, action).details = check[c].details
    BY DEF Verdict, NoCheck
  <2>3. Verdict(c, action) \in Check
    <3>1. NoCheck \in Check
      BY DEF NoCheck, Check
    <3> DEFINE details == check[c].details
    <3>2. details \in SUBSET {"IP blacklisted", "Rate limit exceeded"}
      BY <2>1
    <3>3. Verdict(c, action) = [NoCheck EXCEPT !.pc = "done", !.details = details, !.action = action]
      BY DEF Verdict
    <3> HIDE DEF details
    <3>4. QED BY <3>1, <3>2, <3>3 DEF Check
  <2>4. CallTypes(Verdict(c, action))
    BY <2>2, <2>3 DEF CallTypes, Early, Counting
  <2>5. Keeps(Verdict(c, action))
    BY <1>1, <2>2 DEF Keeps, Scored, Counting
  <2>6. QED BY <1>1, <2>2, <2>4, <2>5, CallGoesOn
<1>2. CASE DetermineHigh(c)
  <2>1. check[c].pc = "action" /\ lookup' = lookup /\ check[c].score >= Floor(check[c].details)
    BY <1>0, <1>2 DEF DetermineHigh, Keeps, Scored
  <2>2. CASE High(check[c].score)
    BY <1>1, <1>2, <2>1, <2>2 DEF DetermineHigh
  <2>3. CASE ~High(check[c].score)
    <3> DEFINE k == [check[c] EXCEPT !.pc = "action.medium"]
    <3>1. check' = [check EXCEPT ![c] = k] /\ CallTypes(k)
      BY <1>0, <1>2, <2>1, <2>3 DEF DetermineHigh, CallTypes, Check, Early, Counting
    <3>2. k.pc = "action.medium" /\ k.score = check[c].score /\ k.details = check[c].details
      BY <1>0 DEF Check
    <3>3. "IP blacklisted" \notin check[c].details
      BY <1>0, <2>1, <2>3 DEF High, Floor
    <3>4. Keeps(k)
      BY <2>1, <3>2, <3>3 DEF Keeps
    <3> HIDE DEF k
    <3>5. QED BY <2>1, <3>1, <3>2, <3>4, CallGoesOn DEF Early, Scored, Counting
  <2>4. QED BY <2>2, <2>3
<1>3. CASE DetermineMedium(c)
  <2>1. /\ check[c].pc = "action.medium" /\ lookup' = lookup
        /\ check[c].score >= Floor(check[c].details) /\ "IP blacklisted" \notin check[c].details
    BY <1>0, <1>3 DEF DetermineMedium, Keeps, Scored
  <2>2. "Rate limit exceeded" \in check[c].details => Medium(check[c].score)
    BY <1>0, <2>1 DEF Medium, Floor
  <2>3. CASE Medium(check[c].score)
    <3>1. check' = [check EXCEPT ![c] = Verdict(c, "QUARANTINE")]
      BY <1>3, <2>3 DEF DetermineMedium
    <3>2. QED BY <1>1, <2>1, <3>1
  <2>4. CASE ~Medium(check[c].score)
    <3>1. check' = [check EXCEPT ![c] = Verdict(c, "ACCEPT")]
      BY <1>3, <2>4 DEF DetermineMedium
    <3>2. QED BY <1>1, <2>1, <2>2, <2>4, <3>1
  <2>5. QED BY <2>3, <2>4
<1>4. CASE Return(c)
  <2>1. NoCheck \in Check /\ NoCheck.pc = "idle"
    BY DEF NoCheck, Check
  <2>2. CallTypes(NoCheck) /\ Keeps(NoCheck)
    BY <2>1 DEF CallTypes, Keeps, Scored, Counting, Early
  <2>3. /\ LookupTypes'
        /\ \A d \in Dnsbls : lookup'[<<c, d>>] = NoLookup
        /\ \A b \in Checkers \ {c}, d \in Dnsbls : lookup'[<<b, d>>] = lookup[<<b, d>>]
    BY <1>0, <1>4 DEF Return, NoLookup, LookupTypes
  <2>4. \A d \in Dnsbls : LookupKeeps(NoCheck, lookup'[<<c, d>>])
    BY <2>1, <2>3 DEF LookupKeeps, NoLookup
  <2>5. check' = [check EXCEPT ![c] = NoCheck]
    BY <1>4 DEF Return
  <2>6. QED BY <2>2, <2>3, <2>4, <2>5, CallMoves
<1>5. QED BY <1>2, <1>3, <1>4

-----------------------------------------------------------------------------
(* The limit of an IP *)

\* A checker that is not at the limit, and does not come to it.
LEMMA RatesStay ==
    ASSUME RatesOK, check \in [Checkers -> Check], NEW c \in Checkers,
           \A b \in Checkers \ {c} : check'[b] = check[b],
           check[c].pc \notin Rating, check'[c].pc \notin Rating,
           UNCHANGED <<rateLimiter, count, passed, overlapped>>
    PROVE  RatesOK'
BY DEF RatesOK, RateOK, Rates, Rating, Counting

\* What the steps do to a checker that is not at the limit.
LEMMA AwayFromRates ==
    ASSUME FilterInv, FilterNext,
           NEW c \in Checkers,
           \/ \E ip \in IPs, m \in Emails : Begin(c, ip, m)
           \/ CheckContent(c) \/ StartLookups(c) \/ HeadersRead(c) \/ HeadersWrite(c)
           \/ DetermineHigh(c) \/ DetermineMedium(c) \/ Return(c)
           \/ \E d \in Dnsbls : LookupAnswers(c, d) \/ LookupAdds(c, d)
    PROVE  RatesOK' /\ LimitTypes'
<1>1. check \in [Checkers -> Check] /\ LimitTypes /\ RatesOK /\ check[c] \in Check
  BY DEF FilterInv, ChecksOK
<1>2. UNCHANGED <<rateLimiter, count, aborted, passed, overlapped>>
  BY DEF Begin, CheckContent, StartLookups, HeadersRead, HeadersWrite, DetermineHigh,
         DetermineMedium, Return, LookupAnswers, LookupAdds
<1>3. \A b \in Checkers \ {c} : check'[b] = check[b]
  BY <1>1 DEF Begin, CheckContent, StartLookups, HeadersRead, HeadersWrite, DetermineHigh,
         DetermineMedium, Return, LookupAnswers, LookupAdds
<1>4. check[c].pc \notin Rating /\ check'[c].pc \notin Rating
  <2>1. CASE \E d \in Dnsbls : LookupAnswers(c, d) \/ LookupAdds(c, d)
    <3>1. PICK d \in Dnsbls : LookupAnswers(c, d) \/ LookupAdds(c, d)
      BY <2>1
    <3>2. lookup[<<c, d>>].stage # "none" /\ LookupKeeps(check[c], lookup[<<c, d>>])
      BY <3>1 DEF LookupAnswers, LookupAdds, FilterInv, ChecksOK, CallOK
    <3>3. check[c].pc \notin Rating
      BY <3>2 DEF LookupKeeps, Early, Counting, Rating
    <3>4. check'[c].pc = check[c].pc
      <4>1. CASE LookupAnswers(c, d)
        BY <4>1 DEF LookupAnswers
      <4>2. CASE LookupAdds(c, d)
        <5> DEFINE points == lookup[<<c, d>>].read + 40
        <5>1. check' = [check EXCEPT ![c] = [check[c] EXCEPT !.score = points]]
          BY <1>1, <4>2 DEF LookupAdds
        <5> HIDE DEF points
        <5>2. QED BY <1>1, <5>1 DEF Check
      <4>3. QED BY <3>1, <4>1, <4>2
    <3>5. QED BY <3>3, <3>4
  <2>2. CASE \E ip \in IPs, m \in Emails : Begin(c, ip, m)
    <3>1. PICK ip \in IPs, m \in Emails : Begin(c, ip, m)
      BY <2>2
    <3>2. \/ check' = [check EXCEPT ![c] = [NoCheck EXCEPT !.pc = "content", !.ip = ip, !.mail = m]]
          \/ check' = [check EXCEPT ![c] = [NoCheck EXCEPT !.pc = "done"]]
      BY <3>1 DEF Begin
    <3>3. check'[c].pc \in {"content", "done"}
      BY <1>1, <3>2 DEF NoCheck
    <3>4. check[c].pc = "idle"
      BY <3>1 DEF Begin
    <3>5. QED BY <3>3, <3>4 DEF Rating
  <2>3. CASE CheckContent(c)
    <3>1. PICK points, details :
             check' = [check EXCEPT ![c].pc = Following("content"), ![c].score = points,
                                    ![c].details = details]
      BY <2>3 DEF CheckContent
    <3>2. check'[c].pc = "rate"
      <4>1. check' = [check EXCEPT ![c] = [check[c] EXCEPT !.pc = "rate", !.score = points,
                                                          !.details = details]]
        BY <1>1, <3>1 DEF Following
      <4>2. QED BY <1>1, <4>1 DEF Check
    <3>3. check[c].pc = "content"
      BY <2>3 DEF CheckContent
    <3>4. QED BY <3>2, <3>3 DEF Rating
  <2>4. CASE StartLookups(c)
    BY <1>1, <2>4 DEF StartLookups, Following, Rating, Check
  <2>5. CASE HeadersRead(c) \/ HeadersWrite(c)
    <3>1. CASE HeadersRead(c)
      BY <1>1, <3>1 DEF HeadersRead, HeadersTurn, Rating, Check
    <3>2. CASE HeadersWrite(c)
      <4> DEFINE points == check[c].read + Head(check[c].left)
                 left == Tail(check[c].left)
      <4>1. check' = [check EXCEPT ![c] = [check[c] EXCEPT !.pc = "headers", !.score = points,
                                                          !.left = left, !.read = 0]]
        BY <1>1, <3>2 DEF HeadersWrite
      <4> HIDE DEF points, left
      <4>2. check'[c].pc = "headers"
        BY <1>1, <4>1 DEF Check
      <4>3. QED BY <3>2, <4>2 DEF HeadersWrite, Rating
    <3>3. QED BY <2>5, <3>1, <3>2
  <2>6. CASE DetermineHigh(c) \/ DetermineMedium(c) \/ Return(c)
    <3>1. \A action : Verdict(c, action).pc = "done"
      BY DEF Verdict, NoCheck
    <3>2. CASE DetermineHigh(c)
      <4>1. \/ check' = [check EXCEPT ![c] = Verdict(c, "REJECT")]
            \/ check' = [check EXCEPT ![c] = [check[c] EXCEPT !.pc = "action.medium"]]
        BY <1>1, <3>2 DEF DetermineHigh
      <4>2. check'[c].pc \in {"done", "action.medium"}
        <5>1. CASE check' = [check EXCEPT ![c] = Verdict(c, "REJECT")]
          BY <1>1, <3>1, <5>1
        <5>2. CASE check' = [check EXCEPT ![c] = [check[c] EXCEPT !.pc = "action.medium"]]
          BY <1>1, <5>2 DEF Check
        <5>3. QED BY <4>1, <5>1, <5>2
      <4>3. QED BY <3>2, <4>2 DEF DetermineHigh, Rating
    <3>3. CASE DetermineMedium(c)
      <4>1. \E action : check' = [check EXCEPT ![c] = Verdict(c, action)]
        BY <3>3 DEF DetermineMedium
      <4>2. check'[c].pc = "done"
        BY <1>1, <3>1, <4>1
      <4>3. QED BY <3>3, <4>2 DEF DetermineMedium, Rating
    <3>4. CASE Return(c)
      BY <1>1, <3>4 DEF Return, NoCheck, Rating
    <3>5. QED BY <2>6, <3>2, <3>3, <3>4
  <2>7. QED BY <2>1, <2>2, <2>3, <2>4, <2>5, <2>6
<1>5. RatesOK'
  BY <1>1, <1>2, <1>3, <1>4, RatesStay
<1>6. QED BY <1>1, <1>2, <1>5 DEF LimitTypes

\* checkRateLimit.
LEMMA RatesKept ==
    ASSUME FilterInv, NEW c \in Checkers,
           RateLookup(c) \/ RateInsert(c) \/ RateRead(c) \/ RateReset(c) \/ RateWrite(c) \/ RateTest(c)
    PROVE  RatesOK' /\ LimitTypes'
<1>0. PICK me : me = check[c].ip
  OBVIOUS
<1>1. /\ check \in [Checkers -> Check] /\ check[c] \in Check /\ me \in IPs /\ LimitTypes
      /\ check[c].pc = "rate.write" => check[c].read \in Nat
      /\ check[c].pc \in Counting => check[c].limit \in Checkers
      /\ MaxEmails \in Nat \ {0} /\ Nil \notin Checkers
  BY <1>0, FilterAssumption DEF FilterInv, ChecksOK, CallOK, CallTypes, RateLookup, RateInsert, RateRead, RateReset,
         RateWrite, RateTest, Counting
<1>2. \A ip \in IPs \ overlapped : RateOK(ip)
  BY DEF FilterInv, RatesOK
<1>3. \A b \in Checkers \ {c} : check'[b] = check[b]
  BY <1>1 DEF RateLookup, RateInsert, RateRead, RateReset, RateWrite, RateTest
<1>4. overlapped \subseteq overlapped'
  BY DEF RateLookup, RateInsert, RateRead, RateReset, RateWrite, RateTest
<1>5. ASSUME NEW pc \in Rating \cup {"dnsbl"}, NEW limit \in Checkers \cup {Nil}, NEW read \in Int,
             UNCHANGED aborted, LimitTypes',
             check'[c].ip = me, check'[c].pc = pc, check'[c].limit = limit, check'[c].read = read,
             \A ip \in IPs \ {me} : /\ rateLimiter'[ip] = rateLimiter[ip] /\ passed'[ip] = passed[ip]
                                    /\ \A d \in Checkers : count'[<<d, ip>>] = count[<<d, ip>>],
             me \notin overlapped' =>
                 LET mine == rateLimiter'[me] IN
                 /\ \A d \in Checkers \ {c} : ~Rates(d, me)
                 /\ passed'[me] <= MaxEmails
                 /\ mine = Nil => passed'[me] = 0
                 /\ mine # Nil => passed'[me] <= count'[<<mine, me>>]
                 /\ pc = "rate.insert" => mine = Nil
                 /\ pc \in Counting => limit = mine
                 /\ pc = "rate.write" => read = count'[<<mine, me>>]
                 /\ pc = "rate.test" => passed'[me] + 1 <= count'[<<mine, me>>]
      PROVE  RatesOK' /\ LimitTypes'
  <2>1. ASSUME NEW ip \in IPs \ overlapped', ip # me PROVE RateOK(ip)'
    <3>1. RateOK(ip)
      BY <1>2, <1>4
    <3>2. rateLimiter[ip] \in Checkers \cup {Nil} /\ rateLimiter'[ip] = rateLimiter[ip] /\ passed'[ip] = passed[ip]
      BY <1>1, <1>5, <2>1 DEF LimitTypes
    <3>3. \A d \in Checkers : check'[d].ip = ip => d # c /\ check'[d] = check[d]
      BY <1>3, <1>5, <2>1
    <3>4. \A d \in Checkers : count'[<<d, ip>>] = count[<<d, ip>>]
      BY <1>5, <2>1
    <3>5. rateLimiter[ip] # Nil => count'[<<rateLimiter[ip], ip>>] = count[<<rateLimiter[ip], ip>>]
      BY <3>2, <3>4
    <3> DEFINE l == <<rateLimiter[ip], ip>>
    <3>6. /\ passed'[ip] <= MaxEmails
          /\ rateLimiter'[ip] = Nil => passed'[ip] = 0
          /\ rateLimiter'[ip] # Nil => passed'[ip] <= count'[l]
      BY <3>1, <3>2, <3>5 DEF RateOK
    <3>7. \A d, e \in Checkers : Rates(d, ip)' /\ Rates(e, ip)' => d = e
      BY <3>1, <3>3 DEF RateOK, Rates
    <3>8. ASSUME NEW d \in Checkers, check'[d].ip = ip
          PROVE  /\ check'[d].pc = "rate.insert" => rateLimiter'[ip] = Nil
                 /\ check'[d].pc \in Counting => check'[d].limit = rateLimiter'[ip]
                 /\ check'[d].pc = "rate.write" => check'[d].read = count'[l]
                 /\ check'[d].pc = "rate.test" => passed'[ip] + 1 <= count'[l]
      <4>1. check'[d] = check[d] /\ check[d].ip = ip /\ CallTypes(check[d])
        BY <3>3, <3>8 DEF FilterInv, ChecksOK, CallOK
      <4>2. /\ check[d].pc = "rate.insert" => rateLimiter[ip] = Nil
            /\ check[d].pc \in Counting => check[d].limit = rateLimiter[ip]
            /\ check[d].pc = "rate.write" => check[d].read = count[l]
            /\ check[d].pc = "rate.test" => passed[ip] + 1 <= count[l]
        BY <3>1, <4>1 DEF RateOK
      <4>3. check[d].pc \in Counting => count'[l] = count[l]
        BY <1>1, <3>5, <4>1, <4>2 DEF CallTypes
      <4>4. QED BY <3>2, <4>1, <4>2, <4>3 DEF Counting
    <3>9. QED BY <3>2, <3>6, <3>7, <3>8 DEF RateOK
  <2>2. ASSUME me \notin overlapped' PROVE RateOK(me)'
    <3>1. \A d \in Checkers \ {c} : check[d].ip = me => check[d].pc \notin Rating
      BY <1>5, <2>2 DEF Rates
    <3>2. \A d \in Checkers \ {c} : check'[d].ip = me => check'[d].pc \notin Rating
      BY <1>3, <3>1
    <3>3. \A d, e \in Checkers : Rates(d, me)' /\ Rates(e, me)' => d = e
      BY <3>2 DEF Rates
    <3>4. QED BY <1>5, <2>2, <3>2, <3>3 DEF RateOK, Counting, Rating
  <2>3. QED BY <1>5, <2>1, <2>2 DEF RatesOK
<1>6. ASSUME check[c].pc \in Rating, me \notin overlapped
      PROVE  RateOK(me) /\ \A d \in Checkers \ {c} : ~Rates(d, me)
  BY <1>0, <1>1, <1>2, <1>6 DEF RateOK, Rates
<1>7. CASE RateLookup(c)
  <2> DEFINE limit == rateLimiter[me]
             pc == IF limit = Nil THEN "rate.insert" ELSE "rate.count"
  <2>1. check' = [check EXCEPT ![c] = [check[c] EXCEPT !.pc = pc, !.limit = limit]]
    BY <1>0, <1>1, <1>7 DEF RateLookup
  <2>2. /\ limit \in Checkers \cup {Nil} /\ pc \in Rating
        /\ pc \in Counting <=> limit # Nil
        /\ pc # "rate.write" /\ pc # "rate.test"
    BY <1>1 DEF LimitTypes, Rating, Counting
  <2>3. UNCHANGED <<rateLimiter, count, aborted, passed>> /\ LimitTypes'
    <3>1. UNCHANGED <<rateLimiter, count, aborted, passed>>
      BY <1>7 DEF RateLookup
    <3>2. overlapped' \subseteq overlapped \cup {me}
      BY <1>0, <1>7 DEF RateLookup
    <3>3. QED BY <1>1, <3>1, <3>2 DEF LimitTypes
  <2>4. me \notin overlapped' => \A d \in Checkers \ {c} : ~Rates(d, me)
    BY <1>0, <1>7 DEF RateLookup, Rates
  <2>5. me \notin overlapped' => RateOK(me)
    BY <1>1, <1>2, <1>4
  <2>6. check[c].read \in Int
    BY <1>1 DEF Check
  <2>7. pc = "rate.insert" => limit = Nil
    OBVIOUS
  <2> HIDE DEF pc
  <2>8. check'[c].ip = me /\ check'[c].pc = pc /\ check'[c].limit = limit /\ check'[c].read = check[c].read
    BY <1>0, <1>1, <2>1, <2>2 DEF Check
  <2>9. me \notin overlapped' => /\ passed[me] <= MaxEmails
                                 /\ limit = Nil => passed[me] = 0
                                 /\ limit # Nil => passed[me] <= count[<<limit, me>>]
    BY <2>5 DEF RateOK
  <2>10. rateLimiter'[me] = limit
    BY <2>3
  <2> HIDE DEF limit
  <2>11. QED BY <1>5, <2>2, <2>3, <2>4, <2>6, <2>7, <2>8, <2>9, <2>10
<1>8. CASE RateInsert(c)
  <2>1. check' = [check EXCEPT ![c] = [check[c] EXCEPT !.pc = "dnsbl"]]
    BY <1>1, <1>8 DEF RateInsert, Following
  <2>2. /\ check'[c].ip = me /\ check'[c].pc = "dnsbl"
        /\ check'[c].limit = check[c].limit /\ check'[c].read = check[c].read
        /\ check[c].limit \in Checkers \cup {Nil} /\ check[c].read \in Int
    BY <1>0, <1>1, <2>1 DEF Check
  <2>3. /\ rateLimiter' = [rateLimiter EXCEPT ![me] = c]
        /\ count' = [count EXCEPT ![<<c, me>>] = 1]
        /\ passed' = [passed EXCEPT ![me] = @ + 1]
        /\ UNCHANGED <<aborted, overlapped>> /\ check[c].pc = "rate.insert"
    BY <1>0, <1>8 DEF RateInsert
  <2>4. LimitTypes'
    BY <1>1, <2>3 DEF LimitTypes, Limits
  <2>5. /\ rateLimiter'[me] = c /\ count'[<<c, me>>] = 1 /\ passed'[me] = passed[me] + 1
        /\ \A ip \in IPs \ {me} : /\ rateLimiter'[ip] = rateLimiter[ip] /\ passed'[ip] = passed[ip]
                                  /\ \A d \in Checkers : count'[<<d, ip>>] = count[<<d, ip>>]
    BY <1>1, <2>3 DEF LimitTypes, Limits
  <2>6. me \notin overlapped' => passed[me] = 0 /\ \A d \in Checkers \ {c} : ~Rates(d, me)
    BY <1>0, <1>6, <2>3 DEF RateOK, Rating
  <2>7. "dnsbl" \notin Counting /\ c # Nil
    BY <1>1 DEF Counting
  <2>8. QED BY <1>1, <1>5, <2>2, <2>3, <2>4, <2>5, <2>6, <2>7 DEF Counting
<1>9. PICK limit \in Checkers \cup {Nil} :
          limit = check[c].limit /\ (check[c].pc \in Counting => limit \in Checkers)
  BY <1>1 DEF Check
<1>10. CASE RateRead(c) \/ RateReset(c)
  <2>1. Limit(c) = <<limit, me>> /\ check[c].pc = "rate.count" /\ limit \in Checkers
    BY <1>0, <1>9, <1>10 DEF Limit, RateRead, RateReset, Counting
  <2>2. PICK n \in Nat : n = count'[<<limit, me>>] /\ check' = [check EXCEPT ![c].pc = "rate.write", ![c].read = n]
    BY <1>1, <1>10, <2>1 DEF RateRead, RateReset, FreshCount, LimitTypes, Limits
  <2>3. /\ check'[c].ip = me /\ check'[c].pc = "rate.write" /\ check'[c].limit = limit
        /\ check'[c].read = n
    BY <1>0, <1>1, <1>9, <2>2 DEF Check
  <2>4. UNCHANGED <<rateLimiter, aborted, overlapped>>
    BY <1>10 DEF RateRead, RateReset
  <2>5. /\ LimitTypes' /\ rateLimiter'[me] = rateLimiter[me]
        /\ passed'[me] = 0 \/ (passed'[me] = passed[me] /\ n = count[<<limit, me>>])
        /\ \A ip \in IPs \ {me} : /\ rateLimiter'[ip] = rateLimiter[ip] /\ passed'[ip] = passed[ip]
                                  /\ \A d \in Checkers : count'[<<d, ip>>] = count[<<d, ip>>]
    <3>1. CASE RateRead(c)
      BY <1>1, <2>1, <2>2, <2>4, <3>1 DEF RateRead, LimitTypes, Limits
    <3>2. CASE RateReset(c)
      BY <1>0, <1>1, <2>1, <2>2, <2>4, <3>2 DEF RateReset, LimitTypes, Limits, FreshCount
    <3>3. QED BY <1>10, <3>1, <3>2
  <2>6. me \notin overlapped' => /\ passed[me] <= MaxEmails /\ limit = rateLimiter[me]
                                 /\ passed[me] <= count[<<limit, me>>]
                                 /\ \A d \in Checkers \ {c} : ~Rates(d, me)
    BY <1>0, <1>1, <1>6, <1>9, <2>1, <2>4 DEF RateOK, Rating, Counting
  <2>7. passed[me] \in Nat /\ passed'[me] \in Nat
    BY <1>1, <2>5 DEF LimitTypes
  <2>8. me \notin overlapped' => passed'[me] <= n /\ passed'[me] <= MaxEmails
    BY <1>1, <2>5, <2>6, <2>7
  <2>9. limit # Nil
    BY <1>1, <2>1
  <2>10. "rate.write" \in Rating /\ n \in Int
    BY DEF Rating
  <2> DEFINE pc == "rate.write"
  <2> HIDE DEF pc
  <2>11. pc \in Rating \cup {"dnsbl"} /\ check'[c].pc = pc
    BY <2>3, <2>10 DEF pc
  <2>12. pc = "rate.write" /\ pc # "rate.insert" /\ pc # "rate.test"
    BY DEF pc
  <2>13. aborted' = aborted /\ LimitTypes'
    BY <2>4, <2>5
  <2>14. rateLimiter'[me] = rateLimiter[me]
    BY <2>5
  <2>15. me \notin overlapped' =>
                 LET mine == rateLimiter'[me] IN
                 /\ \A d \in Checkers \ {c} : ~Rates(d, me)
                 /\ passed'[me] <= MaxEmails
                 /\ mine = Nil => passed'[me] = 0
                 /\ mine # Nil => passed'[me] <= count'[<<mine, me>>]
                 /\ pc = "rate.insert" => mine = Nil
                 /\ pc \in Counting => limit = mine
                 /\ pc = "rate.write" => n = count'[<<mine, me>>]
                 /\ pc = "rate.test" => passed'[me] + 1 <= count'[<<mine, me>>]
    BY <2>2, <2>6, <2>8, <2>9, <2>12, <2>14
  <2>16. QED BY <1>5, <2>3, <2>5, <2>10, <2>11, <2>13, <2>15
<1>11. CASE RateWrite(c)
  <2>1. Limit(c) = <<limit, me>> /\ check[c].pc = "rate.write" /\ limit \in Checkers /\ check[c].read \in Nat
    BY <1>0, <1>1, <1>9, <1>11 DEF Limit, RateWrite, Counting
  <2>2. PICK n \in Nat : n = check[c].read + 1 /\ count' = [count EXCEPT ![<<limit, me>>] = n]
    <3>1. check[c].read + 1 \in Nat
      BY <2>1
    <3>2. count' = [count EXCEPT ![Limit(c)] = check[c].read + 1]
      BY <1>11 DEF RateWrite
    <3>3. count' = [count EXCEPT ![<<limit, me>>] = check[c].read + 1]
      BY <2>1, <3>2
    <3> DEFINE n == check[c].read + 1
    <3> HIDE DEF n
    <3>4. n \in Nat /\ count' = [count EXCEPT ![<<limit, me>>] = n]
      BY <3>1, <3>3 DEF n
    <3>5. QED BY <3>4 DEF n
  <2>3. /\ check'[c].ip = me /\ check'[c].pc = "rate.test" /\ check'[c].limit = limit
        /\ check'[c].read = 0
    BY <1>0, <1>1, <1>9, <1>11 DEF Check, RateWrite
  <2>4. UNCHANGED <<rateLimiter, aborted, passed, overlapped>>
    BY <1>11 DEF RateWrite
  <2>5. /\ LimitTypes' /\ count'[<<limit, me>>] = n
        /\ \A ip \in IPs \ {me}, d \in Checkers : count'[<<d, ip>>] = count[<<d, ip>>]
    BY <1>1, <2>1, <2>2, <2>4 DEF LimitTypes, Limits
  <2>6. me \notin overlapped' => /\ passed[me] <= MaxEmails /\ limit = rateLimiter[me]
                                 /\ passed[me] <= check[c].read
                                 /\ \A d \in Checkers \ {c} : ~Rates(d, me)
    BY <1>0, <1>1, <1>6, <1>9, <2>1, <2>4 DEF RateOK, Rating, Counting
  <2>7. passed[me] \in Nat
    BY <1>1 DEF LimitTypes
  <2>8. me \notin overlapped' => passed[me] <= n /\ passed[me] + 1 <= n
    BY <2>1, <2>2, <2>6, <2>7
  <2>9. limit # Nil
    BY <1>1, <2>1
  <2>10. QED BY <1>5, <2>3, <2>4, <2>5, <2>6, <2>8, <2>9 DEF Rating
<1>12. CASE RateTest(c)
  <2>1. Limit(c) = <<limit, me>> /\ check[c].pc = "rate.test" /\ limit \in Checkers
    BY <1>0, <1>9, <1>12 DEF Limit, RateTest, Counting
  <2>2. PICK points, details :
           \/ check' = [check EXCEPT ![c].pc = Following("rate"), ![c].limit = Nil,
                                     ![c].score = points, ![c].details = details]
           \/ check' = [check EXCEPT ![c].pc = Following("rate"), ![c].limit = Nil]
    <3>1. CASE check' = [check EXCEPT ![c].pc = Following("rate"), ![c].limit = Nil,
                                      ![c].score = @ + 60,
                                      ![c].details = @ \cup {"Rate limit exceeded"}]
      <4>1. check' = [check EXCEPT ![c].pc = Following("rate"), ![c].limit = Nil,
                                   ![c].score = check[c].score + 60,
                                   ![c].details = check[c].details \cup {"Rate limit exceeded"}]
        BY <1>1, <3>1
      <4>2. QED BY <4>1
    <3>2. QED BY <1>12, <3>1 DEF RateTest
  <2>3. /\ check'[c].ip = me /\ check'[c].pc = "dnsbl" /\ check'[c].limit = Nil
        /\ check'[c].read = check[c].read /\ check[c].read \in Int
    <3>1. \/ check' = [check EXCEPT ![c] = [check[c] EXCEPT !.pc = "dnsbl", !.limit = Nil,
                                                           !.score = points, !.details = details]]
          \/ check' = [check EXCEPT ![c] = [check[c] EXCEPT !.pc = "dnsbl", !.limit = Nil]]
      BY <1>1, <2>2 DEF Following
    <3>2. CASE check' = [check EXCEPT ![c] = [check[c] EXCEPT !.pc = "dnsbl", !.limit = Nil]]
      BY <1>0, <1>1, <3>2 DEF Check
    <3>3. CASE check' = [check EXCEPT ![c] = [check[c] EXCEPT !.pc = "dnsbl", !.limit = Nil,
                                                           !.score = points, !.details = details]]
      BY <1>0, <1>1, <3>3 DEF Check
    <3>4. QED BY <3>1, <3>2, <3>3
  <2>4. UNCHANGED <<rateLimiter, count, aborted, overlapped>>
    BY <1>12 DEF RateTest
  <2>5. \/ passed' = passed
        \/ passed' = [passed EXCEPT ![me] = @ + 1] /\ ~(count[<<limit, me>>] > MaxEmails)
    BY <1>0, <1>12, <2>1 DEF RateTest, Exceeded
  <2>6. /\ LimitTypes' /\ passed[me] \in Nat /\ passed'[me] \in {passed[me], passed[me] + 1}
        /\ passed'[me] = passed[me] + 1 => ~(count[<<limit, me>>] > MaxEmails)
        /\ \A ip \in IPs \ {me} : passed'[ip] = passed[ip]
        /\ count[<<limit, me>>] \in Nat
    BY <1>1, <2>1, <2>4, <2>5 DEF LimitTypes, Limits
  <2>7. me \notin overlapped' => /\ passed[me] <= MaxEmails /\ limit = rateLimiter[me]
                                 /\ passed[me] + 1 <= count[<<limit, me>>]
                                 /\ \A d \in Checkers \ {c} : ~Rates(d, me)
    BY <1>0, <1>1, <1>6, <1>9, <2>1, <2>4 DEF RateOK, Rating, Counting
  <2>8. me \notin overlapped' => passed'[me] <= MaxEmails /\ passed'[me] <= count[<<limit, me>>]
    BY <1>1, <2>6, <2>7
  <2>9. limit # Nil
    BY <1>1, <2>1
  <2>10. QED BY <1>5, <2>3, <2>4, <2>6, <2>7, <2>8, <2>9 DEF Counting
<1>13. QED BY <1>7, <1>8, <1>10, <1>11, <1>12

-----------------------------------------------------------------------------
(* The invariant *)

LEMMA InvInit == FilterInit => FilterInv
<1> SUFFICES ASSUME FilterInit PROVE FilterInv
  OBVIOUS
<1>1. NoCheck \in Check /\ NoCheck.pc = "idle" /\ NoCheck.ip = Nil
  BY DEF NoCheck, Check
<1>2. NoLookup \in [stage : {"none", "asked", "adding"}, read : Int] /\ NoLookup.stage = "none"
  BY DEF NoLookup
<1>3. CallTypes(NoCheck) /\ Keeps(NoCheck) /\ LookupKeeps(NoCheck, NoLookup)
  BY <1>1, <1>2 DEF CallTypes, Keeps, LookupKeeps, Scored, Counting, Early
<1>4. ChecksOK
  BY <1>1, <1>2, <1>3 DEF FilterInit, ChecksOK, CallOK, LookupTypes
<1>5. LimitTypes
  BY DEF FilterInit, LimitTypes, Limits
<1>6. RatesOK
  BY <1>1, FilterAssumption DEF FilterInit, RatesOK, RateOK, Rates, Rating, Counting
<1>7. QED BY <1>4, <1>5, <1>6 DEF FilterInv

LEMMA InvStep == FilterInv /\ [FilterNext]_filterVars => FilterInv'
<1> SUFFICES ASSUME FilterInv, [FilterNext]_filterVars PROVE FilterInv'
  OBVIOUS
<1>1. ChecksOK /\ LimitTypes /\ RatesOK
  BY DEF FilterInv
<1>2. CASE UNCHANGED filterVars
  <2>1. UNCHANGED <<rateLimiter, count, check, lookup, aborted, passed, overlapped>>
    BY <1>2 DEF filterVars
  <2>2. ChecksOK'
    BY <1>1, <2>1 DEF ChecksOK, CallOK, LookupTypes
  <2>3. LimitTypes'
    BY <1>1, <2>1 DEF LimitTypes
  <2>4. RatesOK'
    BY <1>1, <2>1 DEF RatesOK, RateOK, Rates
  <2>5. QED BY <2>2, <2>3, <2>4 DEF FilterInv
<1>3. CASE Abort
  <2>1. UNCHANGED <<rateLimiter, count, check, lookup, passed, overlapped>> /\ aborted' = TRUE
    BY <1>3 DEF Abort
  <2>2. ChecksOK'
    BY <1>1, <2>1 DEF ChecksOK, CallOK, LookupTypes
  <2>3. LimitTypes'
    BY <1>1, <2>1 DEF LimitTypes
  <2>4. RatesOK'
    BY <1>1, <2>1 DEF RatesOK, RateOK, Rates
  <2>5. QED BY <2>2, <2>3, <2>4 DEF FilterInv
<1>4. ASSUME NEW c \in Checkers, FilterNext,
             \/ \E ip \in IPs, m \in Emails : Begin(c, ip, m)
             \/ Step(c) \/ RateReset(c) \/ Return(c)
             \/ \E d \in Dnsbls : LookupAnswers(c, d) \/ LookupAdds(c, d)
      PROVE  FilterInv'
  <2>1. CASE CheckContent(c) \/ \E ip \in IPs, m \in Emails : Begin(c, ip, m)
    BY <1>1, <1>4, <2>1, ContentOK, AwayFromRates DEF FilterInv
  <2>2. CASE \/ RateLookup(c) \/ RateInsert(c) \/ RateRead(c) \/ RateReset(c)
             \/ RateWrite(c) \/ RateTest(c)
    BY <1>1, <2>2, RateCallOK, RatesKept DEF FilterInv
  <2>3. CASE \E d \in Dnsbls : LookupAnswers(c, d) \/ LookupAdds(c, d)
    BY <1>1, <1>4, <2>3, LookupOK, AwayFromRates DEF FilterInv
  <2>4. CASE StartLookups(c) \/ HeadersRead(c) \/ HeadersWrite(c)
    BY <1>1, <1>4, <2>4, HeadersOK, AwayFromRates DEF FilterInv
  <2>5. CASE DetermineHigh(c) \/ DetermineMedium(c) \/ Return(c)
    BY <1>1, <1>4, <2>5, VerdictOK, AwayFromRates DEF FilterInv
  <2>6. QED BY <1>4, <2>1, <2>2, <2>3, <2>4, <2>5 DEF Step
<1>5. QED BY <1>2, <1>3, <1>4 DEF FilterNext

LEMMA FilterInvHolds == FilterSpec => []FilterInv
<1>1. QED BY InvInit, InvStep, PTL DEF FilterSpec

\* Every value of the filter stays of its type: the score and what an increment
\* has read of it are numbers, whatever headers a message has.
THEOREM FilterTypeCorrect == FilterSpec => []FilterTypeOK
<1>1. FilterInv => FilterTypeOK
  BY DEF FilterInv, ChecksOK, LookupTypes, LimitTypes, FilterTypeOK
<1>2. QED BY <1>1, FilterInvHolds, PTL

\* A message from an IP that was in the blacklist is rejected, however many
\* lookups and headers add to its score at the same time: what any of them has
\* read already holds the 100 points.
THEOREM TheBlacklistRejects == FilterSpec => []BlacklistedIsRejected
<1>1. FilterInv => BlacklistedIsRejected
  BY DEF FilterInv, ChecksOK, CallOK, Keeps, BlacklistedIsRejected
<1>2. QED BY <1>1, FilterInvHolds, PTL

\* A message over the limit is not accepted without a mark: of its 60 points,
\* 50 stay even for a private address.
THEOREM TheRateHolds == FilterSpec => []OverRateIsHeld
<1>1. FilterInv => OverRateIsHeld
  BY DEF FilterInv, ChecksOK, CallOK, Keeps, OverRateIsHeld
<1>2. QED BY <1>1, FilterInvHolds, PTL

\* No more messages of an IP pass in a window than its limit, as long as its
\* sessions come to checkRateLimit one after the other: the limit in the map
\* has then counted every message that passed.
THEOREM TheLimitCounts == FilterSpec => []RateIsKept
<1>1. FilterInv => RateIsKept
  BY DEF FilterInv, RatesOK, RateOK, RateIsKept
<1>2. QED BY <1>1, FilterInvHolds, PTL
=============================================================================
