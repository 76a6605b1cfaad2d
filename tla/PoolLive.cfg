CONSTANTS
    MaxSize = 1
    Workers = {w1}
    Main = main
    c1 = c1
    c2 = c2
    c3 = c3
    c4 = c4
    Conns = {c1, c2, c3, c4}
    Fds = {f1, f2, f3}
    NoFd = noFd
    Junk = noFd
    None = none
    NoAnswer = noAnswer
    ProgramOf <- OneFailing
    Impatient = {}
    Large = {}
    ExpectedPresent = TRUE
    SpuriousWakeups = FALSE
SPECIFICATION FairSpec
CHECK_DEADLOCK FALSE
PROPERTIES
    EveryClientIsAnswered
    WorkersServeForever
