SPECIFICATION Spec
CONSTANTS
  Bits = 4
  Huge = 67108864
  HeadLen = 2
  ScrambleLen = 4
  Reserved = 2
  Zeroes = 3
  StateLen = 2
  PluginMax = 3
  VersionMax = 2
  GtidMax = 3
  MaxPacketLen = 4095
  Near = 24
  Root <- RootName
  NativePlugin <- NativeName
  Sha2Plugin <- Sha2Name
CHECK_DEADLOCK FALSE
INVARIANTS
  ReadsInside
  RoundTrip
  DamageNoticed
  RowsEnd
  CommandsReadBack
  EscapeReadsBack
