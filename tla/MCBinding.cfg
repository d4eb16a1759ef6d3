SPECIFICATION Spec
CONSTANTS
  PoolMax = 1
  Buffers = 3
  Fds = 2
  Addrs = 2
  Objects = {o1, o2}
  Nobody = Nobody
  Foreign = Foreign
SYMMETRY Symmetry
CHECK_DEADLOCK FALSE
INVARIANTS
  TypeOK
  BuffersExclusive
  NoStaleUse
  BufferForNextResult
  NothingLeaks
  ParentUndisturbed
