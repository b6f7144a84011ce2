SPECIFICATION ScenesSpec
CONSTANTS
  NoWindow = NoWindow
  NoWorkspace = NoWorkspace
  Windows = {w1, w2, w3, w4}
  ThreeWindows = {w1, w2, w3}
  OneWindow = {w1}
  TwoWindows = {w1, w2}
  MaxKey = 8
  MaxNamed = 1
  RingCapacity = 2
  Configs <- PlainAndAbove
SYMMETRY SceneSymmetry
VIEW ScenesView
INVARIANTS TypeOK OnePlaceEach StripsWellFormed FocusIsShown RingSound EmptyAtTheBottom EmptyAtTheTop HomeIsKept OldColumns
PROPERTY CursorIsKept
