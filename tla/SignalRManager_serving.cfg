CONSTANTS
    c1 = c1
    c2 = c2
    Charger <- TwoChargers
    NoCharger = NoCharger
    StatesCap = 1
    MaxRetries = 1
SPECIFICATION FairSpec
INVARIANTS TypeOK NoForgottenCharger
PROPERTIES BookSpec EventuallySubscribed
CHECK_DEADLOCK FALSE
