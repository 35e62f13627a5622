SPECIFICATION FairSpec
CONSTANTS
    i1 = i1
    i2 = i2
    ObjectIds = {i1, i2}
    Writers = {w1}
    Readers = {r1, r2}
    IdLists <- Lists
    Targets = {1}
    Payloads <- ValueAndError
    InlineThreshold = 2
    IndexBytes = 3
INVARIANTS BytesExact NoLostWakeup
PROPERTIES SatisfiedReturns TimedReturns
CHECK_DEADLOCK FALSE
