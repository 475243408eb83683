SPECIFICATION ListingSpec
CONSTANTS
    u1 = u1
    u2 = u2
    r1 = r1
    NoKey = NoKey
    Units <- MCUnits
    Keys <- MCKeys
    Text <- MCText
    Stored <- MCStored
    Repertoire <- MCRepertoire
    PoolSize = 2
    Cancellable <- MCCancellable
    MaxStatements = 2
    Readers <- MCReaders
    Styles <- MCStyles
    Limit <- MCLimit
    MaxLimit = 2
CHECK_DEADLOCK FALSE
INVARIANTS
    WalkIsExact
    
PROPERTIES
    NobodyWaitsForever
