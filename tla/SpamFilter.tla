----------------------------- MODULE SpamFilter -----------------------------
(***************************************************************************)
(* The spam filter of the SMTP server (src/ksmtp/antispam.go): CheckEmail, *)
(* its eight checks, the rate limit kept per IP, the lookups in DNS        *)
(* blacklists, and the calls that change the filter.                       *)
(*                                                                         *)
(* Every SMTP session calls CheckEmail on the one filter of its server,    *)
(* and nothing in it is locked.  The maps and the counters are shared by   *)
(* the sessions; the result of a call is shared with the goroutines of its *)
(* lookups, which add to the score whenever their answer comes.  An access *)
(* to what is shared is a step, and an increment is two.                   *)
(***************************************************************************)
EXTENDS Integers, Sequences, FiniteSets

CONSTANTS Checkers,      (* the sessions that call CheckEmail               *)
          IPs,
          PrivateIPs,    (* the private and loopback ones                   *)
          Dnsbls,        (* dnsblServers                                    *)
          Emails,        (* the messages that come, by what the checks see  *)
          MaxEmails,     (* a limit's maxEmails (50 in the code)            *)
          MayConfigure,  (* whether the program turns the filter on and     *)
                         (* off and changes the blacklist of IPs: then each *)
                         (* call may find either                            *)
          Nil            (* nil                                             *)

Email == [large : BOOLEAN,                     \* over maxEmailSize
         sender : {"missing", "malformed", "plain"},
         listed : BOOLEAN, free : BOOLEAN,    \* its domain: blacklisted, of a free TLD
         keywords : 0..5,                     \* spam keywords found, at most 5
         subject : {"missing", "capitals", "plain"},
         exclamations : Nat,                  \* in the subject
         empty : BOOLEAN,                     \* no body
         urls : Nat, suspiciousUrls : Nat,
         headers : SUBSET {"message-id", "date"},
         spamHeaders : 0..4]

ASSUME FilterAssumption ==
    /\ PrivateIPs \subseteq IPs
    /\ Emails \subseteq Email
    /\ MaxEmails \in Nat \ {0}
    /\ MayConfigure \in BOOLEAN
    /\ Nil \notin Checkers

VARIABLES
    rateLimiter,  (* IP -> the limit in the map, named by who made it, or Nil    *)
    count,        (* the count of each limit, in the map or not                  *)
    check,        (* the call of each checker, with its result                   *)
    lookup,       (* the goroutines of the lookups                               *)
    aborted,      (* the runtime found two accesses to a map at once, and ended  *)
                  (* the program                                                 *)
    passed,       (* history: messages of an IP below the limit, in this window  *)
    overlapped    (* history: IPs that two checkers dealt with at the same time  *)

filterVars == <<rateLimiter, count, check, lookup, aborted, passed, overlapped>>

Limits == Checkers \X IPs

Check == [pc : {"idle", "content", "rate", "rate.insert", "rate.count", "rate.write", "rate.test",
                "dnsbl", "headers", "headers.write", "action", "action.medium", "done"},
          ip : IPs \cup {Nil}, mail : Emails \cup {Nil},
          limit : Checkers \cup {Nil},        \* the RateLimit it holds
          read : Int,                          \* what an increment has read
          left : Seq(Nat),                     \* increments for the headers, still to come
          score : Int, details : SUBSET {"IP blacklisted", "Rate limit exceeded"},
          action : {"REJECT", "QUARANTINE", "ACCEPT"}]

NoCheck == [pc |-> "idle", ip |-> Nil, mail |-> Nil, limit |-> Nil, read |-> 0, left |-> <<>>,
            score |-> 0, details |-> {}, action |-> "ACCEPT"]

NoLookup == [stage |-> "none", read |-> 0]

FilterTypeOK ==
    /\ rateLimiter \in [IPs -> Checkers \cup {Nil}]
    /\ count \in [Limits -> Nat]
    /\ check \in [Checkers -> Check]
    /\ lookup \in [Checkers \X Dnsbls -> [stage : {"none", "asked", "adding"}, read : Int]]
    /\ aborted \in BOOLEAN
    /\ passed \in [IPs -> Nat]
    /\ overlapped \subseteq IPs

FilterInit ==
    /\ rateLimiter = [ip \in IPs |-> Nil]
    /\ count = [l \in Limits |-> 0]
    /\ check = [c \in Checkers |-> NoCheck]
    /\ lookup = [l \in Checkers \X Dnsbls |-> NoLookup]
    /\ aborted = FALSE
    /\ passed = [ip \in IPs |-> 0]
    /\ overlapped = {}

-----------------------------------------------------------------------------
(* What the checks add to the score. *)

Points(condition, points) == IF condition THEN points ELSE 0

SizePoints(m) == Points(m.large, 50)

SenderPoints(m) ==
    CASE m.sender = "missing" -> 30
      [] m.sender = "malformed" -> 40
      [] m.sender = "plain" -> Points(m.listed, 80) + Points(m.free, 20)

KeywordPoints(m) == 15 * m.keywords

StructurePoints(m) ==
    Points(m.subject = "missing", 20) + Points(m.subject = "capitals", 25)
    + Points(m.exclamations > 3, 5 * m.exclamations) + Points(m.empty, 30)

UrlPoints(m) == 15 * m.suspiciousUrls + Points(m.urls > 10, 20)

ContentPoints(m) ==
    SizePoints(m) + SenderPoints(m) + KeywordPoints(m) + StructurePoints(m) + UrlPoints(m)

\* The increments of checkSuspiciousHeaders, one after the other.
HeaderPoints(m) ==
    LET missing(h, points) == IF h \in m.headers THEN <<>> ELSE <<points>>
    IN  missing("message-id", 15) \o missing("date", 10) \o [k \in 1..m.spamHeaders |-> 25]

-----------------------------------------------------------------------------
(* CheckEmail *)

\* Mutant: the lookups are started before the rate is checked.
FollowingSwapped(step) ==
    CASE step = "content" -> "dnsbl" [] step = "dnsbl" -> "rate" [] step = "rate" -> "headers"

\* The order of the checks that read or change what is shared.
Following(step) ==
    CASE step = "content" -> "rate" [] step = "rate" -> "dnsbl" [] step = "dnsbl" -> "headers"

\* Bound: a new message of an IP waits while its count is over the limit.
WithinBound(ip) ==
    rateLimiter[ip] # Nil => count[<<rateLimiter[ip], ip>>] <= MaxEmails

\* The filter is on, or the program has turned it off.
Begin(c, ip, m) ==
    /\ check[c].pc = "idle" /\ WithinBound(ip)
    /\ \E enabled \in {TRUE, ~MayConfigure} :
          check' = [check EXCEPT ![c] = IF enabled
                                        THEN [NoCheck EXCEPT !.pc = "content", !.ip = ip, !.mail = m]
                                        ELSE [NoCheck EXCEPT !.pc = "done"]]
    /\ UNCHANGED <<rateLimiter, count, lookup, aborted, passed, overlapped>>

\* checkSenderIP
IPPoints(ip, blacklisted) == IF blacklisted THEN 100 ELSE Points(ip \in PrivateIPs, -10)

\* Checks 1 to 5: the size, the IP, the sender's domain, keywords, structure.
CheckContent(c) ==
    /\ check[c].pc = "content"
    /\ \E blacklisted \in {FALSE, MayConfigure} :
          check' = [check EXCEPT
                       ![c].pc = Following("content"),
                       ![c].score = ContentPoints(check[c].mail) + IPPoints(check[c].ip, blacklisted),
                       ![c].details = {d \in {"IP blacklisted"} : blacklisted}]
    /\ UNCHANGED <<rateLimiter, count, lookup, aborted, passed, overlapped>>

-----------------------------------------------------------------------------
(* checkRateLimit *)

Rating == {"rate.insert", "rate.count", "rate.write", "rate.test"}

\* The map is read: the limit of the IP, or none yet.
RateLookup(c) ==
    /\ check[c].pc = "rate"
    /\ LET ip == check[c].ip  limit == rateLimiter[ip] IN
          /\ check' = [check EXCEPT ![c].pc = IF limit = Nil THEN "rate.insert" ELSE "rate.count",
                                    ![c].limit = limit]
          /\ overlapped' = overlapped \cup
                {i \in {ip} : \E d \in Checkers \ {c} : check[d].ip = i /\ check[d].pc \in Rating}
    /\ UNCHANGED <<rateLimiter, count, lookup, aborted, passed>>

\* A new limit goes into the map; it replaces one that came in meanwhile.
RateInsert(c) ==
    /\ check[c].pc = "rate.insert"
    /\ LET ip == check[c].ip IN
          /\ rateLimiter' = [rateLimiter EXCEPT ![ip] = c]
          /\ count' = [count EXCEPT ![<<c, ip>>] = 1]
          /\ passed' = [passed EXCEPT ![ip] = @ + 1]
    /\ check' = [check EXCEPT ![c].pc = Following("rate")]
    /\ UNCHANGED <<lookup, aborted, overlapped>>

Limit(c) == <<check[c].limit, check[c].ip>>

\* Mutant: one message more, for the one that starts the window.
FreshCountBelow == -1

FreshCount == 0

\* The window is over: the count starts again.
RateReset(c) ==
    /\ check[c].pc = "rate.count"
    /\ count' = [count EXCEPT ![Limit(c)] = FreshCount]
    /\ passed' = [passed EXCEPT ![check[c].ip] = 0]
    /\ check' = [check EXCEPT ![c].pc = "rate.write", ![c].read = FreshCount]
    /\ UNCHANGED <<rateLimiter, lookup, aborted, overlapped>>

\* limit.count++
RateRead(c) ==
    /\ check[c].pc = "rate.count"
    /\ check' = [check EXCEPT ![c].pc = "rate.write", ![c].read = count[Limit(c)]]
    /\ UNCHANGED <<rateLimiter, count, lookup, aborted, passed, overlapped>>

RateWrite(c) ==
    /\ check[c].pc = "rate.write"
    /\ count' = [count EXCEPT ![Limit(c)] = check[c].read + 1]
    /\ check' = [check EXCEPT ![c].pc = "rate.test", ![c].read = 0]
    /\ UNCHANGED <<rateLimiter, lookup, aborted, passed, overlapped>>

\* Mutant: the limit counts from zero.
ExceededByTwo(c) == count[Limit(c)] > MaxEmails + 1

Exceeded(c) == count[Limit(c)] > MaxEmails

RateTest(c) ==
    /\ check[c].pc = "rate.test"
    /\ \/ /\ Exceeded(c)
          /\ check' = [check EXCEPT ![c].pc = Following("rate"), ![c].limit = Nil,
                                    ![c].score = @ + 60,
                                    ![c].details = @ \cup {"Rate limit exceeded"}]
          /\ UNCHANGED passed
       \/ /\ ~Exceeded(c)
          /\ check' = [check EXCEPT ![c].pc = Following("rate"), ![c].limit = Nil]
          /\ passed' = [passed EXCEPT ![check[c].ip] = @ + 1]
    /\ UNCHANGED <<rateLimiter, count, lookup, aborted, overlapped>>

-----------------------------------------------------------------------------
(* checkDNSBL, and its goroutines. *)

\* Private addresses are not looked up (and those that are not IPv4 are not
\* either: a lookup that never answers).
StartLookups(c) ==
    /\ check[c].pc = "dnsbl"
    /\ lookup' = [l \in Checkers \X Dnsbls |->
                     IF l[1] = c /\ check[c].ip \notin PrivateIPs
                     THEN [NoLookup EXCEPT !.stage = "asked"] ELSE lookup[l]]
    /\ check' = [check EXCEPT ![c].pc = Following("dnsbl"),
                              ![c].left = HeaderPoints(check[c].mail), ![c].mail = Nil]
    /\ UNCHANGED <<rateLimiter, count, aborted, passed, overlapped>>

\* A lookup has answered: the IP is not listed, or 40 points are added.
LookupAnswers(c, d) ==
    /\ lookup[<<c, d>>].stage = "asked" /\ check[c].pc # "done"
    /\ lookup' \in {[lookup EXCEPT ![<<c, d>>] = NoLookup],
                    [lookup EXCEPT ![<<c, d>>] = [stage |-> "adding", read |-> check[c].score]]}
    /\ UNCHANGED <<rateLimiter, count, check, aborted, passed, overlapped>>

LookupAdds(c, d) ==
    /\ lookup[<<c, d>>].stage = "adding" /\ check[c].pc # "done"
    /\ check' = [check EXCEPT ![c].score = lookup[<<c, d>>].read + 40]
    /\ lookup' = [lookup EXCEPT ![<<c, d>>] = NoLookup]
    /\ UNCHANGED <<rateLimiter, count, aborted, passed, overlapped>>

-----------------------------------------------------------------------------
(* checkSuspiciousHeaders and determineAction *)

\* Mutant: the headers are looked at when all lookups have answered.
HeadersTurnAfterLookups(c) ==
    /\ check[c].pc = "headers"
    /\ \A d \in Dnsbls : lookup[<<c, d>>].stage = "none"

HeadersTurn(c) == check[c].pc = "headers"

HeadersRead(c) ==
    /\ HeadersTurn(c)
    /\ check' = IF check[c].left = <<>> THEN [check EXCEPT ![c].pc = "action"]
                ELSE [check EXCEPT ![c].pc = "headers.write", ![c].read = check[c].score]
    /\ UNCHANGED <<rateLimiter, count, lookup, aborted, passed, overlapped>>

HeadersWrite(c) ==
    /\ check[c].pc = "headers.write"
    /\ check' = [check EXCEPT ![c].pc = "headers", ![c].score = check[c].read + Head(check[c].left),
                              ![c].left = Tail(@), ![c].read = 0]
    /\ UNCHANGED <<rateLimiter, count, lookup, aborted, passed, overlapped>>

\* Lookups that have not answered yet still add to the score, but nobody
\* reads it any more.
Verdict(c, action) ==
    [NoCheck EXCEPT !.pc = "done", !.details = check[c].details, !.action = action]

\* Mutant: "100+" without the 100.
HighAbove(score) == score > 100

High(score) == score >= 100

Medium(score) == score >= 50

\* The score is read once for REJECT, and again for QUARANTINE.
DetermineHigh(c) ==
    /\ check[c].pc = "action"
    /\ check' = IF High(check[c].score)
                THEN [check EXCEPT ![c] = Verdict(c, "REJECT")]
                ELSE [check EXCEPT ![c].pc = "action.medium"]
    /\ UNCHANGED <<rateLimiter, count, lookup, aborted, passed, overlapped>>

DetermineMedium(c) ==
    /\ check[c].pc = "action.medium"
    /\ check' = [check EXCEPT ![c] =
                     Verdict(c, IF Medium(check[c].score) THEN "QUARANTINE" ELSE "ACCEPT")]
    /\ UNCHANGED <<rateLimiter, count, lookup, aborted, passed, overlapped>>

\* The session goes on.
Return(c) ==
    /\ check[c].pc = "done"
    /\ check' = [check EXCEPT ![c] = NoCheck]
    /\ lookup' = [l \in Checkers \X Dnsbls |-> IF l[1] = c THEN NoLookup ELSE lookup[l]]
    /\ UNCHANGED <<rateLimiter, count, aborted, passed, overlapped>>

Step(c) ==
    \/ CheckContent(c)
    \/ RateLookup(c) \/ RateInsert(c) \/ RateRead(c) \/ RateWrite(c) \/ RateTest(c)
    \/ StartLookups(c) \/ HeadersRead(c) \/ HeadersWrite(c)
    \/ DetermineHigh(c) \/ DetermineMedium(c)

-----------------------------------------------------------------------------
(* The runtime. *)

\* A map is written while somebody else reads or writes it.
MapsCollide ==
    \/ \E c, d \in Checkers :
          /\ c # d /\ check[c].pc = "rate.insert" /\ check[d].pc \in {"rate", "rate.insert"}
    \/ MayConfigure /\ \E c \in Checkers : check[c].pc = "content"

\* "concurrent map writes" and its like cannot be recovered from.
Abort ==
    /\ MapsCollide
    /\ aborted' = TRUE
    /\ UNCHANGED <<rateLimiter, count, check, lookup, passed, overlapped>>

FilterNext ==
    /\ ~aborted
    /\ \/ \E c \in Checkers :
             \/ \E ip \in IPs, m \in Emails : Begin(c, ip, m)
             \/ Step(c) \/ RateReset(c) \/ Return(c)
             \/ \E d \in Dnsbls : LookupAnswers(c, d) \/ LookupAdds(c, d)
       \/ Abort

FilterSpec == FilterInit /\ [][FilterNext]_filterVars

-----------------------------------------------------------------------------
(* Properties *)

\* A message from an IP that was in the blacklist when checkSenderIP looked
\* is rejected, whatever its content: no check takes points away again, and
\* no increment that is lost between CheckEmail and the goroutines of the
\* lookups takes the 100 points with it.
BlacklistedIsRejected ==
    \A c \in Checkers : check[c].pc = "done" /\ "IP blacklisted" \in check[c].details
                            => check[c].action = "REJECT"

\* A message over the limit of its IP is never accepted without a mark: even
\* from a private address, and whatever increments are lost, 50 points stay.
OverRateIsHeld ==
    \A c \in Checkers : check[c].pc = "done" /\ "Rate limit exceeded" \in check[c].details
                            => check[c].action # "ACCEPT"

\* As long as no two sessions of an IP were in checkRateLimit at the same
\* time, no more than maxEmails of its messages pass the limit in a window.
RateIsKept == \A ip \in IPs \ overlapped : passed[ip] <= MaxEmails

\* CheckEmail never waits, whatever the DNS servers do ("Timeout court pour
\* éviter de bloquer"): its next step can always be taken.
CheckNeverWaits ==
    \A c \in Checkers : check[c].pc \notin {"idle", "done"} => ENABLED Step(c)

-----------------------------------------------------------------------------
(* What comments claim and the code does not do. *)

\* "Rate limiting (50 emails/heure/IP)", for every IP.
RateIsAlwaysKept == \A ip \in IPs : passed[ip] <= MaxEmails

\* "DNSBL (listes noires DNS)" is one of the detections: a message is not
\* accepted while a lookup of its IP is still to be answered.
LookupsAreHeard ==
    \A c \in Checkers, d \in Dnsbls :
        check[c].pc = "done" /\ check[c].action = "ACCEPT" => lookup[<<c, d>>].stage = "none"
=============================================================================
