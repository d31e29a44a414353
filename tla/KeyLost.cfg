CONSTANTS
    Base = 2
    DigitOf <- TwoDigits
    SecretLength = 4
    KeyLengths = {2, 3, 4}
    ServerPairs <- Servers
    ClientPairs <- OneClient
    IVs <- TwoIVs
    MaxLogs = 2
SPECIFICATION Spec
INVARIANTS LoggedItemEncrypted
CHECK_DEADLOCK FALSE
