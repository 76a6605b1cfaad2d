CONSTANTS
    r1 = r1
    r2 = r2
    r3 = r3
    Requests = {r1, r2, r3}
    Workers = {w1, w2}
    Pollers = {}
    Missing = missing
    EmptyLine = emptyLine
    NoAnswer = noAnswer
    NoRequest = noRequest
    ProgramOf <- AllRight
    ResultsDir = TRUE
    MaxCrashes = 1
    MaxPushes = 4
SPECIFICATION Spec
SYMMETRY Symmetry
CHECK_DEADLOCK FALSE
INVARIANTS
    TypeOK
PROPERTIES
    ImplementsJobQueue
