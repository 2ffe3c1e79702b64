SPECIFICATION JobsFairSpec
CONSTANTS
    Jobs = {j1, j2}
    MaxRunning = 1
    Fifo = 1
    Troubled = {j1}
    NoJob = NoJob
INVARIANT LiveWithinCap
INVARIANT NoStray
INVARIANT Findable
INVARIANT ExitIsReal
 
PROPERTY SlotIsFreed
CHECK_DEADLOCK FALSE
