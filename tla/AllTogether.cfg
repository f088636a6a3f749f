SPECIFICATION Spec
CONSTANTS
  h1 = h1
  h2 = h2
  h3 = h3
  p1 = p1
  p2 = p2
  p3 = p3
  Ptrs <- AllPtrs
  Prints <- MCPrints
  Tolerance = 0
  Contents = {1}
  Heap <- Heap2
  Levels <- NoObjects
  Ops <- AllTogether
  GrantedRoles = {"Viewer"}
  Twins = TRUE
  IdBase = 16
  ChunkSize = 1
  MaxId = 1
  MaxTempId = 1
  MaxChan = 2
  MaxSessions = 1
SYMMETRY MCSymmetry
INVARIANTS
  TypeOK
  RegistriesInverse
  IdsHandedOut
  RolesAgree
PROPERTIES
  ViewerChangesNothing
  SnapshotExact
CHECK_DEADLOCK FALSE
