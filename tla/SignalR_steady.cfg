CONSTANTS
    s1 = s1
    s2 = s2
    c1 = c1
    c2 = c2
    Session <- OneSession
    NoSession = NoSession
    Charger <- TwoChargers
    NoCharger = NoCharger
    StatesCap = 2
    MaxRetries = 1
SPECIFICATION BoundedSteadySpec
SYMMETRY Symmetry
INVARIANTS TypeOK SubscribedAreServed ManagerCatchesUp
CHECK_DEADLOCK FALSE
