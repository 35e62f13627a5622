SPECIFICATION Spec
CONSTANTS
    Owner = o
    Borrowers = {b1, b2}
    MaxFaults = 1
SYMMETRY Symmetry
INVARIANTS PinHolds DirectoryExact  
CHECK_DEADLOCK FALSE
