SPECIFICATION Spec
CONSTANTS
    None = None
    Ids = {i1, i2}
    Threads = {t1, t2}
    Pullers = {r1}
    Borrowers = {b1}
    Threshold = 1
SYMMETRY Symmetry
CONSTRAINTS OneObjectBorrowed NoPullAfterShutdown
INVARIANTS TypeOK  CopiesWhole  FreedIsGone
CHECK_DEADLOCK FALSE
