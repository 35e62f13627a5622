SPECIFICATION FairSpec
CONSTANTS
    s1 = s1
    s2 = s2
    p1 = p1
    p2 = p2
    None = None
    Sessions = {s1, s2}
    Procs = {p1, p2}
    Deployments <- AllDeployments
    MaxFaults = 2
INVARIANTS AliveIsServed ClosedIsClean
PROPERTIES GoneExpires ShutdownReturns
CHECK_DEADLOCK FALSE
