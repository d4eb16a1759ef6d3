SPECIFICATION Spec
CONSTANTS
  Radix = 2
  SeqCount = 2
  Packets <- MCPackets
  MaxSent = 1
  MaxWire = 20
  RetryOn = {"SYSERR"}
  Faults = {"nomem"}
INVARIANTS
  CompletePackets
CHECK_DEADLOCK FALSE
