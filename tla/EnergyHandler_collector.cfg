\* Three hours of two moments, a meter that starts again, a channel of two.
SPECIFICATION FairSpec
CONSTANTS
    Last = 6
    PerHour = 2
    Meter <- StartsOver
    Cap = 2
INVARIANTS TypeOK AtMostOneRepeated
PROPERTY ReadingArrives
CHECK_DEADLOCK FALSE
