CONSTANTS
    Clients = {c1}
    Main = Main
    Full = 2
    LogNames = {f1}
    SingleFile = 2
    MaxFaults = 0
    MaxLogs = 4
    MaxFlushes = 3
    MaxSessions = 1
INVARIANTS FlushComplete
SPECIFICATION Spec
CHECK_DEADLOCK FALSE
CONSTANTS
    Info <- ItemInfo
    Pattern <- LineAndText
    Patterns <- FewPatterns
    Contents <- FewContents
    Messages <- FewMessages
    NotUtf8 = {"bytes"}
    NoText = ""
    Failure = Failure
    Buffer = 3
