SPECIFICATION FairSpec
CONSTANTS
    None = None
    Topics = {t1}
    Subs = {s1, s2}
    Msgs = {m1}
    TopicDatas = {i1, i2}
    EventCap = 1
    BatchCap = 2
    CompactAbove = 0
    Discarding = {s1}
    WsTopics = {}
    MayUnsubscribe = {}
    MayClose = TRUE
INVARIANTS MapHoldsTheRunningTopics
PROPERTIES  QueuedEventIsDelivered AbandonedTopicIsRemoved
CHECK_DEADLOCK FALSE
