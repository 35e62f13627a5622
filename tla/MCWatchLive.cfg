SPECIFICATION FairSpec
CONSTANTS
    Nodes = {n1}
    Handlers = {h1}
    BufferCap = 1
    ChannelCap = 1
    MaxBlips = 2
    MaxRestarts = 1
PROPERTIES  Resubscribes
CHECK_DEADLOCK FALSE
