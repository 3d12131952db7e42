SPECIFICATION Spec
CONSTANTS
    t1 = t1
    t2 = t2
    t3 = t3
    lat = lat
    reached = reached
    NoThread = NoThread
    Threads = {t1, t2, t3}
    Fields <- mcFields
    Values <- mcValues
    Default <- mcDefault
    Band <- mcBand
    AlwaysChanged = FALSE
    CountModulus = 2
INVARIANTS
    Inv
PROPERTIES
    IsAtomic
    WithinBand
