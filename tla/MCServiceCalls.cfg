SPECIFICATION Spec
CONSTANTS
    c1 = c1
    c2 = c2
    p1 = p1
    p2 = p2
    p3 = p3
    NoToken = NoToken
    NoClient = NoClient
    Callers <- MCCallers
    Threads <- MCCallers
    Clients <- MCClients
    Cancellable <- MCCancellable
    Lifetime = 3
    Leeway = 2
    TTL = 0
    MaxRotations = 1
    MaxAttempts <- MCMaxAttempts
    MaxFetchLag = 0
    MaxCallLag = 1
    Horizon = 3
CHECK_DEADLOCK FALSE
INVARIANTS
    RotationIsSurvived
    RetiredKeysExpire
PROPERTIES
    CallsAreAnswered
