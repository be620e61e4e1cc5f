SPECIFICATION FairSpec
CONSTANTS
    None = None
    Sessions = {s1}
    Callers = {c1}
    Mails = {m1, m2}
    Senders = {a1}
    inside = inside
    outside = outside
    mx1 = mx1
    mx2 = mx2
    Tunnel = tunnel
    Locals = {inside}
    Remotes = {outside}
    Odd = {}
    Servers = {mx1, mx2, tunnel}
    Mx <- TwoServers
    DevRelay = None
    HasTls = TRUE
    HasUsers = TRUE
    requireAuthForRelay = TRUE
    requireAuthForLocal = FALSE
    Endless = {}
INVARIANTS TakenAtMostOnce GivenUpMeansRefused AnsweredIsSettled
PROPERTIES  StopEndsStart
CHECK_DEADLOCK FALSE
