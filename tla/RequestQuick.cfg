CONSTANTS
    c1 = c1
    c2 = c2
    c3 = c3
    c4 = c4
    Conns = {c1, c2, c3, c4}
    Fds = {f1, f2, f3, f4}
    NoFd = noFd
    None = none
    SourceFile = sourceFile
    NoAnswer = noAnswer
    ProgramOf <- Mixed
    Slow = {}
    Impatient = {c1, c3}
    CreateMayFail = TRUE
SPECIFICATION Spec
SYMMETRY Symmetry
CHECK_DEADLOCK FALSE
INVARIANTS
    TypeOK
    SocketIsMine
    SocketsComeBack
PROPERTIES
    ImplementsService
