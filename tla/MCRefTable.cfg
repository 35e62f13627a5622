SPECIFICATION TableSpec
CONSTANTS
    Ids = {i1, i2}
    Borrowers = {b1, b2}
    MaxCount = 2
INVARIANTS PresenceIffPinned
PROPERTIES FreedByLastDrop
