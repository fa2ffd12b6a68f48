CONSTANTS
    s1 = s1
    s2 = s2
    Session <- MCSession
    NoSession = NoSession
    StatesCap = 2
SPECIFICATION FairSpec
PROPERTIES ClosedLoopsExit DeadLinkNoticed
INVARIANTS TypeOK OneLiveLoop ConnectionHeld
CHECK_DEADLOCK FALSE
