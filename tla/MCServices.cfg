SPECIFICATION Spec
CONSTANTS
    NULL = NULL
    k1 = k1
    k2 = k2
    k3 = k3
    Discovered <- SomeMessages
    NumBuffers = 2
    MaxHellos = 1
    MaxReceived = 1
    Size = 2
    MaxAnswers = 3
    MaxDispatches = 3
    Refusable = {"hello", "goodbye"}
    Answers <- SomeAnswers
    Candidates = {k1, k2, k3}
    LocalOnes = {k3}
    Requests = {k1, k2, k3}
INVARIANTS CalledBackOnce NoneDangling
PROPERTIES AllFinish
CHECK_DEADLOCK FALSE
