SPECIFICATION Spec
CONSTANTS
    Nodes = {n1, n2}
    Handlers = {h1}
    BufferCap = 6
    ChannelCap = 1
    MaxBlips = 1
    MaxRestarts = 0
INVARIANTS TypeOK 
CHECK_DEADLOCK FALSE
