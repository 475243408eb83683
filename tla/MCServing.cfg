SPECIFICATION OutboundFairSpec
CONSTANTS
    N = 3
    Storage = 1
    Pool = 2
    Targets = {users}
    DrainDelay = 4
    MaxSignals = 3
    Off = Off
    Period = 1
    CheckTime = 1
    Lag = 1
    MaxRequests = 1
INVARIANTS
    UnwindsInOrder
    NoRequestFails
    
    
PROPERTIES
    DrainEndsInExit
CHECK_DEADLOCK FALSE
