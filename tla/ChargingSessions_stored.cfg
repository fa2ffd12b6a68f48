SPECIFICATION MCSpec
CONSTANTS
    Sessions = 3
    StreamCap = 4
    StartsFirst = FALSE
INVARIANTS TypeOK ReliablyConverged LatestIsCurrent ReliablyOnlyLatestOpen
PROPERTY HistoryStays
CHECK_DEADLOCK FALSE
