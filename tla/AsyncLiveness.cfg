CONSTANTS
    r1 = r1
    r2 = r2
    r3 = r3
    Requests = {r1}
    Workers = {w1}
    Pollers = {}
    Missing = missing
    EmptyLine = emptyLine
    NoAnswer = noAnswer
    NoRequest = noRequest
    ProgramOf <- AllRight
    ResultsDir = TRUE
    MaxCrashes = 0
    MaxPushes = 4
SPECIFICATION FairSpec
CHECK_DEADLOCK FALSE
PROPERTIES
    EveryRequestIsGraded
