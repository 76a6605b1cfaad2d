CONSTANTS
    c1 = c1
    c2 = c2
    c3 = c3
    c4 = c4
    Conns = {c1, c2}
    Fds = {f1, f2, f3, f4}
    NoFd = noFd
    None = none
    SourceFile = sourceFile
    NoAnswer = noAnswer
    ProgramOf <- WrongThenRight
    Slow = {c1}
    Impatient = {}
    CreateMayFail = FALSE
SPECIFICATION Spec
CHECK_DEADLOCK FALSE
INVARIANTS
    VerdictForTheRightClient
