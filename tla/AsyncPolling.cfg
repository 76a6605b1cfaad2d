CONSTANTS
    r1 = r1
    r2 = r2
    r3 = r3
    Requests = {r1, r2}
    Workers = {w1, w2}
    Pollers = {p1}
    Missing = missing
    EmptyLine = emptyLine
    NoAnswer = noAnswer
    NoRequest = noRequest
    ProgramOf <- Mixed
    ResultsDir = TRUE
    MaxCrashes = 1
    MaxPushes = 3
SPECIFICATION Spec
SYMMETRY WorkerSymmetry
CHECK_DEADLOCK FALSE
INVARIANTS
    GradedOnce
    ListedWhileGraded
    VerdictForTheRightClient
PROPERTIES
    ReportsGoForward
