SPECIFICATION Spec
CONSTANTS
  h1 = h1
  h2 = h2
  h3 = h3
  p1 = p1
  p2 = p2
  p3 = p3
  Ptrs <- AllPtrs
  Prints <- MCPrints
  Tolerance = 0
  Contents = {1, 2}
  Heap <- Heap3
  Levels <- UpToOneObject
  Ops <- HostPushes
  GrantedRoles = {}
  Twins = FALSE
  IdBase = 16
  ChunkSize = 1
  MaxId = 1
  MaxTempId = 0
  MaxChan = 2
  MaxSessions = 1
PROPERTIES
  RebuildsFromSnapshot
CHECK_DEADLOCK FALSE
