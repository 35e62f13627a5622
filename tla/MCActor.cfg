SPECIFICATION FairSpec
CONSTANTS
    k1 = k1
    k2 = k2
    k3 = k3
    None = None
    Calls = {k1, k2, k3}
    MaxRestarts = 1
    MaxCrashes = 2
    CrashPoints <- MidMethod
    MayTerminate = TRUE
INVARIANTS
    OneProcess
    
PROPERTIES CallResolves Recovers TerminateEnds
CHECK_DEADLOCK FALSE
