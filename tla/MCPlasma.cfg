SPECIFICATION Spec
CONSTANTS
    c1 = c1
    c2 = c2
    i1 = i1
    i2 = i2
    NoId = NoId
    Clients = {c1, c2}
    Ids = {i1, i2}
    Capacity = 8
    Align = 2
    MetaSizes = {1}
    DataSizes = {0, 3}
    MayCreate <- OwnIds
INVARIANTS SlotsOK
PROPERTIES HandleStable Refinement
CHECK_DEADLOCK FALSE
