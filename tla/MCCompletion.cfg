SPECIFICATION FairSpec
CONSTANTS
  n1 = n1
  n2 = n2
  Nodes <- TwoNodes
  Bits = {1}
  Subs = {1}
  SubBits <- OneSub
  NULL = NULL
  MaxMeshId = 100
  Stream = FALSE
  Linkable <- OneLink
  MeshIdOf <- TwoMeshIds
  MeshSpan = 2
  MaxQueue = 2
  Budget <- Completion
PROPERTIES
  EveryOpCompletes
  ShutdownUnlessJoined
