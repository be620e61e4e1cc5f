SPECIFICATION FairSpec
CONSTANTS
    None = None
    App = App
    t1 = t1
    t2 = t2
    Topics = {t1, t2}
    Sessions = {n1, n2}
    Reconnectors = {r1}
    Callers = {App}
    QueueCap = 1
    Autorestart = TRUE
    Programs <- OneCallEach
    SendersEnd = TRUE
INVARIANTS OneReader 
PROPERTIES CloseEndsAll
CHECK_DEADLOCK FALSE
