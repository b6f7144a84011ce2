SPECIFICATION Spec
CONSTANTS
    Windows = {w1, w2}
    Outputs = {o1, o2, o3}
    NoOutput = NoOutput
    Names = {}
    NoName = NoName
    MaxKey = 3
    MaxAway = 2
    MayGoDark = FALSE
SYMMETRY Symmetry
INVARIANT IdentitiesAreUnique
CHECK_DEADLOCK FALSE
