SPECIFICATION FairSpec
CONSTANTS
    None = None
    Producers = {p1}
    Closers = {k1, k2}
    Msgs = {m1, m2, m3, m4}
    RingSize = 2
    BatchSize = 2
    MayFail = TRUE
INVARIANTS WrittenOnce
PROPERTIES  CloseReturns
CHECK_DEADLOCK FALSE
