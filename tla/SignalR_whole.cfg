CONSTANTS
    s1 = s1
    s2 = s2
    c1 = c1
    c2 = c2
    Session <- OneSession
    NoSession = NoSession
    Charger <- OneCharger
    NoCharger = NoCharger
    StatesCap = 1
    MaxRetries = 1
SPECIFICATION WholeSpec
INVARIANTS ServedOrOnItsWay
PROPERTIES ChargersHaveClient LossIsNoticed
CHECK_DEADLOCK FALSE
