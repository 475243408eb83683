SPECIFICATION Spec
CONSTANTS
    r1 = r1
    r2 = r2
    r3 = r3
    k1 = k1
    b1 = b1
    b2 = b2
    NoRequest = NoRequest
    Requests <- MCRequests
    RedisKeys <- MCRedisKeys
    Bodies <- MCBodies
    KeyOf <- MCKeyOf
    BodyOf <- RetryBodyOf
    Outcomes <- NoCancellation
    FailOpen <- Nobody
    RedisFails = FALSE
    Disconnects = FALSE
    MaxExpiries = 0
CHECK_DEADLOCK FALSE
INVARIANT OneRunsAtATime
