SPECIFICATION FairSpec
CONSTANTS
  Handles = {h1, h2}
  Owners = {o1, o2}
  NoOwner = NoOwner
  NoEntry = NoEntry
  ShellRefuses = TRUE
  MaxKills = 2
INVARIANTS TypeOK ConcealedIsRecorded
PROPERTY RecordedComeBack
CONSTRAINT LastRecovery
