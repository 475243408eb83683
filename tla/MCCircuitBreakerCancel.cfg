SPECIFICATION FairSpec
CONSTANTS
    c1 = c1
    c2 = c2
    c3 = c3
    Callers <- MCCallers
    ContextCallers <- ViaContext
    Cancellable <- MCCallers
    FailureThreshold = 2
    RecoveryTimeout = 2
    HalfOpenMaxCalls = 1
PROPERTY HalfOpenIsLeft
