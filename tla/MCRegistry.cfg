SPECIFICATION Spec
CONSTANTS
    Drivers = {d1, d2}
    Callers = {d1}
    Names = {n1}
    Actors = {a1, a2}
    Ports = {p1, p2}
    None = None
    MaxFaults = 1
SYMMETRY Symmetry
INVARIANTS  NameKept 
CHECK_DEADLOCK FALSE
