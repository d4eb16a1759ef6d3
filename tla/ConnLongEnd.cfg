SPECIFICATION Spec
CONSTANTS
  Ops = {"query"}
  SeqCount = 12
  Servers = {TRUE}
  Habits = {"long_end"}
  Faults = {}
  MaxCommands = 1
  MaxFrags = 1
  MaxCols = 1
  MaxRows = 1
  MaxResults = 1
INVARIANTS
  RepliesAccepted
CHECK_DEADLOCK FALSE
