SPECIFICATION FairSpec
CONSTANTS
    r1 = r1
    r2 = r2
    r3 = r3
    w = w
    NoEntry = NoEntry
    Junk = Junk
    Readers <- MCReaders
    Writers <- OneWriter
    Protected <- MCProtected
    LeaseExpires = TRUE
    LockTimesOut = TRUE
    RedisFails = TRUE
    FactoryErrors <- RedisDown
    MaxExpiries = 1
CHECK_DEADLOCK FALSE
INVARIANTS
    FreshUnlessRaced
    FactoryRunsOnce
    OneRunPerMiss
PROPERTY
    ReaderIsAnswered
