SPECIFICATION OpenSpec
CONSTANTS
    Windows = {w1, w2}
    Outputs = {o1, o2}
    NoOutput = NoOutput
    Names = {}
    NoName = NoName
    MaxKey = 3
    MaxAway = 1
    MayGoDark = FALSE
SYMMETRY Symmetry
VIEW View
PROPERTY WindowsStayPut
CHECK_DEADLOCK FALSE
