SPECIFICATION Spec
CONSTANTS
    Windows = {w1, w2}
    Outputs = {o1, o2, o3}
    NoOutput = NoOutput
    Names = {mail}
    NoName = NoName
    MaxKey = 3
    MaxAway = 1
    MayGoDark = FALSE
SYMMETRY Symmetry
VIEW View
CONSTRAINT InBounds
INVARIANTS TypeOK NothingIsLost IdentitiesAreUnique MinimizedHaveAHome
PROPERTIES HomesAreKept WindowsStayPutUnlessAKeyIsReused
CHECK_DEADLOCK FALSE
