SPECIFICATION FairSpec
CONSTANTS
    Base = 1
    ApiId = 0
    Concurrency = 2
    MaxWorkerId = 1
    MaxSequence = 1
    MaxCounter = 1
    MaxTime = 2
    MaxStepsBack = 1
    MaxDeaths = 1
INVARIANTS
    LiveProcessesDiffer
    NoIdTwice
PROPERTIES
    UuidsIncrease
    WaiterProceeds
CHECK_DEADLOCK FALSE
