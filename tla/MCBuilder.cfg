SPECIFICATION Spec
CONSTANTS
  Byte = {0, 1}
  Inputs <- MCInputs
  Limits <- MCLimits
  Seqs = {0, 3}
  MaxLen = 3
  SeqCount = 4
  SizeMax = 23
  DefaultCap = 5
INVARIANTS
  TypeOK
  InBounds
  FragmentsCut
  Numbered
  PayloadIntact
  SealedReadsBack
  UnderLimit
