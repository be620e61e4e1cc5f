SPECIFICATION FairSpec
CONSTANTS
    None = None
    Server = Server
    a = a
    b = b
    t = t
    Clients = {a, b}
    Topics = {t}
    Programs <- All
    QueueCap = 1
    LinkCap = 1
    RingCap = 1
INVARIANTS AnswersAreGenuine
PROPERTIES EverybodyGoesOn
CHECK_DEADLOCK FALSE
