CONSTANTS
    Clients = {c1, c2}
    Main = Main
    Full = 3
    LogNames = {f1, f2}
    SingleFile = 2
    MaxFaults = 1
    MaxLogs = 2
    MaxFlushes = 1
    MaxSessions = 2
SYMMETRY Interchangeable
INVARIANTS IInv CacheWellFormed NothingLost QuietWhenGone PatternFaithful ParseInverse DecompressWhole
PROPERTIES ReadUpToSpoilt ChunkInOrder
SPECIFICATION Spec
CHECK_DEADLOCK FALSE
CONSTANTS
    Info <- ItemInfo
    Pattern <- LineAndText
    Patterns <- FewPatterns
    Contents <- FewContents
    Messages <- FewMessages
    NotUtf8 = {"bytes"}
    NoText = ""
    Failure = Failure
    Buffer = 3
