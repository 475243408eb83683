SPECIFICATION FairSpec
CONSTANTS
    c1 = c1
    c2 = c2
    c3 = c3
    Callers <- MCCallers
    ContextCallers <- ViaContext
    Cancellable <- ViaContext
    FailureThreshold = 2
    RecoveryTimeout = 2
    HalfOpenMaxCalls = 2
INVARIANTS
    SlotsMatchProbes
PROPERTIES
    OpenLastsTheTimeout
    RecoversWithUpstream
