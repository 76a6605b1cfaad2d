CONSTANTS
    hasty = hasty
    slow = slow
    Clients = {hasty, slow}
    LoopNum <- MCLoopNum
    ProgramOf <- MCProgramOf
    Slow = {slow}
    Impatient = {hasty}
    BUFFER_SIZE = 2
    Fds = {4, 5}
    CreateMayFail = TRUE
    NoAnswer = NoAnswer
    None = None
SPECIFICATION Spec
CHECK_DEADLOCK FALSE
INVARIANTS
    TypeOK
    VerdictUnlessOverlapped
    EndsOnlyFor
    CountsAreRight
