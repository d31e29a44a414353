CONSTANTS
    Loggers = {t1, t2}
    h1 = h1
    h2 = h2
    file = file
    Handles = {h1, h2}
    Sinks = {file, Console}
    Console = Console
    Null = Null
    SinkLists <- Lists
    RangeLists <- Ranges
    Levels = {2, 4}
    MaxCalls = 2
    MaxInstalls = 2
    MaxSets = 1
SPECIFICATION Spec
SYMMETRY Interchangeable
INVARIANTS IInv HandleOutlivesUse AllOrNone ThreadLines
CHECK_DEADLOCK FALSE
