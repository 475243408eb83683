SPECIFICATION PSpec
CONSTANTS
    r1 = r1
    r2 = r2
    k1 = k1
    b1 = b1
    admin = admin
    agent = agent
    close = close
    NoRequest = NoRequest
    NoToken = NoToken
    BadToken = BadToken
    RightKey = RightKey
    WrongKey = WrongKey
    Unanswered = Unanswered
    Requests <- MCRequests
    RedisKeys <- MCRedisKeys
    Bodies <- MCBodies
    KeyOf <- MCKeyOf
    BodyOf <- MCBodyOf
    Outcomes <- AllOutcomes
    FailOpen <- MCFailOpen
    RedisFails = TRUE
    Disconnects = TRUE
    MaxExpiries = 1
    Roles <- MCRoles
    Scopes <- MCScopes
    InternalKeySet = TRUE
    KeyedRoute <- MCKeyedRoute
    OtherRoutes <- MCOtherRoutes
    Credentials <- MCCredentials
    Entitled <- MCEntitled
    KeyOptional <- MCKeyOptional
    Returned <- MCReturned
    Raisable <- MCRaisable
    MaxBody = TRUE
    Gzip = TRUE
CHECK_DEADLOCK FALSE
INVARIANTS
    
    OneEffectUnlessReopened
    MarkerHasRunner
    OneAnswer
    BooksMatchTheWire
    RefusalsHaveNoEffect
PROPERTIES
    TimedOutIsOver
    
