CONSTANTS
    bob = bob
    carol = carol
    Submitters = {bob}
    Askers = {carol}
    Killable = {bob, carol}
    Nobody = Nobody
    MaxFds = 3
    Passing = 1
    SafeThreads = 1
SPECIFICATION FairSpec
CHECK_DEADLOCK FALSE
INVARIANTS
    TypeOK
    OnlyResultsLeak
    OrderlyClientsHarmless
    NoResultIsLost
PROPERTIES
    EveryClientEnds
