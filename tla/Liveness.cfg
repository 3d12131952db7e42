SPECIFICATION FairSpec
CONSTANTS
    m1 = m1
    m2 = m2
    s0 = s0
    s1 = s1
    NoMission = NoMission
    Missions <- mcMissions
    Gotowps <- mcGotowps
    Count = 2
    LegModulus = 3
    Setpoints = {s0}
    ZeroSetpoint = s0
    Packets <- flightPackets
    Messages <- flightMessages
PROPERTIES
    ArrivalConsumed
    LegCommanded
