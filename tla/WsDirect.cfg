SPECIFICATION Spec
CONSTANTS
    None = None
    s1 = s1
    s2 = s2
    c1 = c1
    c2 = c2
    Sessions = {s1, s2}
    Clients = {c1, c2}
    Ids <- OwnIds
    Topics = {t1}
    Directs = {d1}
    Removals = {}
    Conns = {k1, k2, k3}
    WsTopicDatas = {j1, j2, j3}
SYMMETRY AddressSymmetry
INVARIANTS NoEmptyTopics NoGhostSubscribers
CHECK_DEADLOCK FALSE
