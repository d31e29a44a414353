CONSTANTS
    Delayed = {"once"}
    Repeated = {"many"}
    Loops = {t1, t2}
    Delta <- Periods
    Counts = {0, 3}
    Nothing = Nothing
SPECIFICATION FairSpec
INVARIANTS IInv RunsCounted CancelBites
PROPERTIES Paced PostedTaskRuns StopEnds
CHECK_DEADLOCK FALSE
