\* The kinds by themselves, three observations of each; the two kinds that meet,
\* and commands of two callers with what they meet, two of each; commands and time.
SPECIFICATION MCSpec
CONSTANTS
    Plain = {"offered", "max"}
    Special = {"phaseMode", "grid", "state", "cloud", "output"}
    Parts = {{"offered"}, {"output"}, {"state"}, {"cloud"}, {"phaseMode"}, {"grid"}, {"phaseMode", "grid"},
             {"offered", "offer"}, {"max", "start"}, {"state", "offer"},
             {"clock", "offer", "start", "stop"}}
    Readings = {0, 1}
    Grids = {1, 3, 50}
    States = {0, 3, 4}
    Length = 3
    JointLength = 2
    Callers = {c1, c2}
    SlowCurrents = {1}
    WaitTime = 2
    Horizon = 3
INVARIANTS TypeOK StoredIsNewest AnnouncedIsCached CacheIsNewestInOrder
    ControlTypeOK NoLostWakeup RequestIsLastAccepted
PROPERTIES UpdatesApart CommandsReturn
CHECK_DEADLOCK FALSE
