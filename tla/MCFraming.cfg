SPECIFICATION FramingSpec
CONSTANTS
  Radix = 2
  SeqCount = 3
  Packets = {}
  MaxSent = 2
  MaxWire = 0
  RetryOn = {}
  Faults = {}
  Command = 1
  Payloads <- MCPayloads
  SizeMax = 20
  DefaultCap = 4
INVARIANTS
  NumbersAgree
PROPERTIES
  ImplementsChannel
