CONSTANTS
    N = 2
    W = 2
    Events = {"refuse", "traffic"}
SPECIFICATION LiveSpec
CHECK_DEADLOCK FALSE
PROPERTIES
    EveryQueryReturns
