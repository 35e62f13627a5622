SPECIFICATION FairSpec
CONSTANTS
    t1 = t1
    t2 = t2
    w1 = w1
    w2 = w2
    a1 = a1
    a2 = a2
    None = None
    Tasks = {t1,t2}
    Workers = {w1, w2}
    Callers = {a1}
    GetTasks = {t1}
    NumReturns = 1
    MaxRetries = 1
    MaxKills = 1
    MaxLosses = 1
PROPERTIES
    
    ShutdownEnds
CHECK_DEADLOCK FALSE
