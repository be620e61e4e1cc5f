SPECIFICATION Spec
CONSTANTS
    None = None
    s1 = s1
    s2 = s2
    c1 = c1
    c2 = c2
    Sessions = {s1, s2}
    Clients = {c1, c2}
    Ids <- ChangingIds
    Topics = {t1}
    Directs = {}
    Removals = {t1}
    Conns = {k1, k2}
    WsTopicDatas = {j1}
SYMMETRY AddressSymmetry
INVARIANTS RegisteredIsUsable RegisteredHasSession
CHECK_DEADLOCK FALSE
