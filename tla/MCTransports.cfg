SPECIFICATION Spec
CONSTANTS
    Peers = {k1, k2}
    Dialled = {k1}
    MaxSends = 1
    Streams = {k3}
    Lengths = {4, 5, 23, 24, 256, 65536}
    MaxMessages = 3
    Cuts = {1, 2, 3, 4, 100, 20000}
    Interfaces = {i1, i2}
    Messages = {m1, m2}
    Requests = {q1, q2}
    Local = {q1}
INVARIANTS
    SendsOnce
    OwnersCounted
    MessagesIntact
    ResolvedOnce
PROPERTIES
    AllLetGo
CHECK_DEADLOCK FALSE
