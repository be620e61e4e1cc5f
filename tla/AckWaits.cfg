SPECIFICATION FairAckSpec
CONSTANTS
    NoAck = NoAck
    Acks = {a1}
    Clients = {c1, c2}
    Waiters = {w1, w2}
    AnyWaiters = {w2}
    AckCap = 1
    Moving = {c2}
INVARIANTS ClosedOnceWhenUnlisted RemainingCountsAnswers CompleteMeansEnoughAnswers
PROPERTIES LastAnswerEndsWait RequestsAreForgotten
CHECK_DEADLOCK FALSE
