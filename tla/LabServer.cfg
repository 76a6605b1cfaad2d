CONSTANTS
    BUFFER_SIZE = 3
    SIZE_MAX = 15
    short = short
    long = long
    Clients = {short, long}
    LoopNum <- MCLoopNum
    SizeOf <- MCSizeOf
    ProgramOf <- MCProgramOf
    Killable = {long}
    NoAnswer = NoAnswer
    Nobody = Nobody
    MaxFds = 2
SPECIFICATION
    FairSpec
CHECK_DEADLOCK FALSE
INVARIANTS
    TypeOK
    GradedIsSent
    VerdictIsDeserved
    OneLeakPerLeaver
PROPERTIES
    EveryClientEnds
