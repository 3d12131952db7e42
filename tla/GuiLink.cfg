SPECIFICATION FairSpec
CONSTANTS
    Requests <- mcRequests
    BufferLength = 8
    MaxRequests = 2
INVARIANTS
    TypeOK
    OwnFramesValid
PROPERTIES
    IsAtLeastOnce
    RequestAnswered
