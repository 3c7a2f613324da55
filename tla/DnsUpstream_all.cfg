CONSTANTS
    N = 2
    W = 4
    Events = {"reset", "idle", "close", "refuse"}
SPECIFICATION Spec
CHECK_DEADLOCK FALSE
INVARIANTS
    TypeOK
    OneStream
    OwnAnswer
    IdleSparesQueries
    TimeoutIsOwn
    RetriedFirst
PROPERTIES
    AnswerKept
    ImplementsService
