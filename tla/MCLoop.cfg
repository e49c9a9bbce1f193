SPECIFICATION LineSpec
CONSTANTS
  n1 = n1
  n2 = n2
  n3 = n3
  Nodes <- ThreeNodes
  Bits = {1}
  Subs = {1}
  SubBits <- OneSub
  NULL = NULL
  MaxMeshId = 100
  Stream = TRUE
  Linkable <- ThirdLink
  MeshIdOf <- ThreeMeshIds
  MeshSpan = 3
  MaxQueue = 2
  Budget <- CloseLoop
INVARIANTS
  MutedIsSilent
  LoopBroken
  TypeOK
