SPECIFICATION Spec
CONSTANTS
  Ops = {"query"}
  SeqCount = 12
  Servers = {TRUE}
  Habits = {"drain"}
  Faults = {}
  MaxCommands = 1
  MaxFrags = 1
  MaxCols = 1
  MaxRows = 1
  MaxResults = 1
PROPERTIES
  DrainEnds
CHECK_DEADLOCK FALSE
