CONSTANTS
    Workers = {w1, w2}
    PlainCalls = {a}
    RetCalls = {r}
    OwnerCalls = 4
    NoOne = NoOne
SPECIFICATION FairSpec
INVARIANTS IInv ExactlyOnce NoPlainTaskDiscarded QuietAfterStop
PROPERTIES ImplementsQueue AcceptedTaskRuns
CHECK_DEADLOCK FALSE
