SPECIFICATION FairSpec
CONSTANTS
    Readings <- mcReadings
    Statuses <- mcStatuses
    Batteries <- mcBatteries
    Commands <- mcCommands
INVARIANTS
    TypeOK
    AttitudeNotOlder
    FramesDecode
PROPERTIES
    PositionBackOnlyOnArrival
    FrameCatchesUp
