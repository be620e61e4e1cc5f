SPECIFICATION Spec
CONSTANTS
    None = None
    Topics = {t1}
    Subs = {s1, s2, s3}
    Msgs = {m1, m2}
    TopicDatas = {i1}
    EventCap = 1
    BatchCap = 2
    CompactAbove = 0
    Discarding = {}
    WsTopics = {t1}
    MayUnsubscribe = {t1}
    MayClose = FALSE
SYMMETRY BusSymmetry
INVARIANTS StopChannelClosedOnce SubscriberStaysInSlice
CHECK_DEADLOCK FALSE
