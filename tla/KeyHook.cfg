SPECIFICATION Spec
CONSTANTS
  alt = alt
  win = win
  tab = tab
  esc = esc
  key = key
  NoKey = NoKey
  Keys = {alt, win, tab, esc, key}
  Modifiers = {alt, win}
  AltKey = alt
  TabKey = tab
  EscKey = esc
  Configs <- MCConfigs
  Scenes <- MCScenes
  MaxQueue = 2
INVARIANTS TypeOK WholePresses ModifiersAreTracked NoSessionWithoutModifier
