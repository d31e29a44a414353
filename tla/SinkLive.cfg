CONSTANTS
    Clients = {c1, c2}
    Main = Main
    Full = 2
    LogNames = {f1}
    SingleFile = 2
    MaxFaults = 0
    MaxLogs = 2
    MaxFlushes = 1
    MaxSessions = 1
PROPERTIES SlaveFreed CallsReturn
SPECIFICATION FairSpec
CHECK_DEADLOCK FALSE
CONSTANTS
    Info <- ItemInfo
    Pattern <- LineAndText
    Patterns <- FewPatterns
    Contents <- FewContents
    Messages <- FewMessages
    NotUtf8 = {"bytes"}
    NoText = ""
    Failure = Failure
    Buffer = 3
