CONSTANTS
    MaxSize = 1
    Workers = {w1}
    Main = main
    c1 = c1
    c2 = c2
    c3 = c3
    c4 = c4
    Conns = {c1, c2, c3, c4}
    Fds = {f1, f2, f3}
    NoFd = noFd
    Junk = noFd
    None = none
    NoAnswer = noAnswer
    ProgramOf <- Hostile
    Impatient = {c1, c2}
    Large = {c3}
    ExpectedPresent = FALSE
    SpuriousWakeups = TRUE
SPECIFICATION Spec
SYMMETRY Symmetry
CHECK_DEADLOCK FALSE
INVARIANTS
    ReportIsOfTheClient
PROPERTIES
    QueueIsFifo
