CONSTANTS
    Workers = {w1, w2}
    PlainCalls = {a}
    RetCalls = {}
    OwnerCalls = 2
    NoOne = NoOne
SPECIFICATION LockFairSpec
PROPERTIES StopReturns
CHECK_DEADLOCK FALSE
