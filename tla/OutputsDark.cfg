SPECIFICATION Spec
CONSTANTS
    Windows = {w1, w2}
    Outputs = {o1, o2}
    NoOutput = NoOutput
    Names = {}
    NoName = NoName
    MaxKey = 3
    MaxAway = 2
    MayGoDark = TRUE
SYMMETRY Symmetry
INVARIANT NothingIsLost
CHECK_DEADLOCK FALSE
