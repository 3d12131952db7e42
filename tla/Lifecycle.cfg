SPECIFICATION FairSpec
CONSTANTS
    MaxRetries = 3
INVARIANTS
    TypeOK
    JoinedAtExit
    ClientOutlivesUsers
    NoSocketLeft
    FaultsNeedSignal
PROPERTIES
    StopsAfterSignal
    StartupDecides
CHECK_DEADLOCK FALSE
