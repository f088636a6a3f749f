SPECIFICATION Spec
CONSTANTS
  h1 = h1
  h2 = h2
  h3 = h3
  p1 = p1
  p2 = p2
  p3 = p3
  Ptrs <- AllPtrs
  Prints <- MCPrints
  Tolerance = 0
  Contents = {1, 2, 3}
  Heap <- Heap3
  Levels <- NoObjects
  Ops <- BothBuild
  GrantedRoles = {}
  Twins = FALSE
  IdBase = 16
  ChunkSize = 1
  MaxId = 2
  MaxTempId = 1
  MaxChan = 2
  MaxSessions = 1
SYMMETRY MCSymmetry
INVARIANTS
  ConvergedUnselected
CHECK_DEADLOCK FALSE
