SPECIFICATION Spec
CONSTANTS
  n1 = n1
  n2 = n2
  Nodes <- TwoNodes
  Bits = {1, 2}
  Subs = {1, 2}
  SubBits <- TwoSubs
  NULL = NULL
  MaxMeshId = 100
  Stream = TRUE
  Linkable <- OneLink
  MeshIdOf <- TwoMeshIds
  MeshSpan = 2
  MaxQueue = 1
  Budget <- Propagation
INVARIANTS
  Agreement
