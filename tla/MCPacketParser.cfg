SPECIFICATION Spec
CONSTANTS
  Radix = 2
  SeqCount = 2
  Packets <- MCPackets
  MaxSent = 2
  MaxWire = 20
  RetryOn = {"INVALID_SEQUENCE_ID"}
  Faults = {"nomem", "badseq", "cut"}
INVARIANTS
  TypeOK
  CompletePackets
  NothingSwallowed
PROPERTIES
  StopsAtWrongSeq
  EveryPacketArrives
CHECK_DEADLOCK FALSE
