SPECIFICATION PromptSpec
CONSTANTS
    Last = 4
    PerHour = 2
    Meter <- Growing
    Cap = 2
PROPERTY HandlerReturns
CHECK_DEADLOCK FALSE
