SPECIFICATION StackSpec
CONSTANTS
  NoWindow = NoWindow
  NoWorkspace = NoWorkspace
  Windows = {w1, w2, w3}
  MaxKey = 6
  MaxNamed = 0
  RingCapacity = 2
  Configs <- PlainOnly
SYMMETRY Symmetry
VIEW View
PROPERTY FocusFallsBack
