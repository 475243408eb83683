SPECIFICATION FairSpec
CONSTANTS
    Jobs = {sync, mail}
    Locked = {sync}
    Slots = {s1, s2}
    MaxRetries = 1
    RedisFails = TRUE
    MaxKills = 1
    MaxRequeues = 2
    NoLetter = NoLetter
    Idle = Idle
    Free = Free
    Orphan = Orphan
INVARIANTS
    NoJobForgotten
    
PROPERTIES
    JobsSettle
CHECK_DEADLOCK FALSE
