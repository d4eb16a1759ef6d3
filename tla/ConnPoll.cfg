SPECIFICATION Spec
CONSTANTS
  Ops = {"query"}
  SeqCount = 12
  Servers = {TRUE}
  Habits = {"poll"}
  Faults = {}
  MaxCommands = 1
  MaxFrags = 1
  MaxCols = 1
  MaxRows = 1
  MaxResults = 2
PROPERTIES
  EveryCallReturns
CHECK_DEADLOCK FALSE
