SPECIFICATION Spec
CONSTANTS
  Handles = {h1, h2}
  Owners = {o1}
  NoOwner = NoOwner
  NoEntry = NoEntry
  ShellRefuses = FALSE
  MaxKills = 1
INVARIANT KillableAnyTime
