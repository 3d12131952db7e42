SPECIFICATION Spec
CONSTANTS
    p0 = p0
    p1 = p1
    Lines <- mcLines
    Blank = Blank
    NotNumber = NotNumber
    Positions = {p0, p1}
    ZeroPosition = p0
    Count = 2
    IdModulus = 7
    RadiusModulus = 4
    MaxLines = 6
INVARIANTS
    TypeOK
    AcceptsExactly
    ReportsLine
    LegsFromFile
