SPECIFICATION FilterSpec
CONSTANTS
    Nil = Nil
    Checkers = {c1, c2}
    IPs = {i1}
    PrivateIPs = {}
    Dnsbls = {d1}
    Emails <- CleanAndUndated
    MaxEmails = 1
    MayConfigure = TRUE
SYMMETRY CheckerSymmetry
INVARIANTS BlacklistedIsRejected OverRateIsHeld RateIsKept
CHECK_DEADLOCK FALSE
