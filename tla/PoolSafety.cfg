CONSTANTS
    MaxSize = 2
    Workers = {w1, w2}
    Main = main
    c1 = c1
    c2 = c2
    c3 = c3
    c4 = c4
    Conns = {c1, c2, c3, c4}
    Fds = {f1, f2, f3, f4}
    NoFd = noFd
    Junk = noFd
    None = none
    NoAnswer = noAnswer
    ProgramOf <- RightAndWrong
    Impatient = {}
    Large = {}
    ExpectedPresent = TRUE
    SpuriousWakeups = FALSE
SPECIFICATION Spec
SYMMETRY Symmetry
CHECK_DEADLOCK FALSE
INVARIANTS
    TypeOK
    QueueWellFormed
    SocketOwnedOnce
    OpenSocketsAreOwned
    VerdictForTheRightClient
    NoLostSpaceSignal
    NoLostItemSignal
PROPERTIES
    ImplementsService
