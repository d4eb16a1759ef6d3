SPECIFICATION Spec
CONSTANTS
  Ops = {"query", "execute", "prepare", "ping", "change_db", "stmt_reset", "set_option", "bind_data", "stmt_close", "quit"}
  SeqCount = 12
  Servers = {TRUE, FALSE}
  Habits = {"large", "legacy", "drain", "poll", "long_end"}
  Faults = {"timeout", "close", "nomem"}
  MaxCommands = 2
  MaxFrags = 2
  MaxCols = 1
  MaxRows = 1
  MaxResults = 2
INVARIANTS
  TypeOK
  NeverRefused
  ReadyMeansQuiet
  MoreIsTrue
PROPERTIES
  OwnReplies
  EofEndsResult
  CommandEnds
  ImplementsExchange
CHECK_DEADLOCK FALSE
