CONSTANTS
    c1 = c1
    c2 = c2
    c3 = c3
    Clients = {c1, c2, c3}
    nthreads = 2
    EndingOf <- MCEndingOf
    DetailsOf <- MCDetailsOf
    Killable = {c1}
    Free = Free
    Main = Main
    Nobody = Nobody
    MaxFds = 3
SPECIFICATION FairSpec
CHECK_DEADLOCK FALSE
INVARIANTS
    TypeOK
    QueueIsSafe
PROPERTIES
    SignalledIsServed
