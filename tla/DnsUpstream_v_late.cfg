CONSTANTS
    N = 2
    W = 4
    Events = {"reset"}
SPECIFICATION Spec
CHECK_DEADLOCK FALSE
PROPERTIES
    LateQuerySparesStream
