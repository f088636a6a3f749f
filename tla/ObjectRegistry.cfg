SPECIFICATION Spec
CONSTANTS
  p1 = p1
  p2 = p2
  p3 = p3
  Ptrs = {p1, p2, p3}
  Prints <- MCPrints
  Tolerance = 1
  HostIds = {1, 2, 3}
  BindIds = {17}
SYMMETRY MCSymmetry
INVARIANTS
  TypeOK
  RegistryInverse
  IndInv
PROPERTY IdsNeverReused
