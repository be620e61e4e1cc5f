SPECIFICATION FairSpec
CONSTANTS
    None = None
    srv = srv
    cli = cli
    w1 = w1
    w2 = w2
    w3 = w3
    m1 = m1
    m2 = m2
    m3 = m3
    m4 = m4
    Sides = {srv, cli}
    Server = srv
    Writers = {w1, w2, w3}
    Owner <- OwnerOf
    Messages = {m1, m2, m3, m4}
    Size <- SizeOf
    Programs <- All
    BufLen = 3
    WriteBuf = 1
    ReadLimit = 3
    WireCap = 6
    Workers = {k1}
    QueueCap = 1
INVARIANTS FramesParse MessagesArriveInOrder LimitIsExact
PROPERTIES  ShutdownReturns
CHECK_DEADLOCK FALSE
