CONSTANTS
    c1 = c1
    c2 = c2
    Charger <- OneCharger
    NoCharger = NoCharger
    StatesCap = 1
    MaxRetries = 1
SPECIFICATION RunningSpec
PROPERTY RegisterReturns
CHECK_DEADLOCK FALSE
