SPECIFICATION LimiterFairSpec
CONSTANTS
    Kinds = {"fixed", "sliding", "memory"}
    Keys = {k1, k2, k3}
    SharedKeys = {k1}
    Times = 2
    Window = 3
    MaxKeys = 2
    RedisFails = TRUE
    Untold = Untold
INVARIANTS
    WithinLimit
    AnnouncementsHold
    KeepsRecentKeys
PROPERTIES
    DeniedPassesAgain
