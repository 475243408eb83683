SPECIFICATION FairSpec
CONSTANTS
    c1 = c1
    c2 = c2
    Clients <- MCClients
    AutoExtend <- OneExtends
    Interval = 2
    Delay = 1
    Patience = 1
    MaxSessions = 3
INVARIANTS
    AutoExtendKeepsLock
PROPERTIES
    
    LockIsHandedOn
