SPECIFICATION Spec
CONSTANTS
    NULL = NULL
    r1 = r1
    r2 = r2
    i1 = i1
    x1 = x1
    x2 = x2
    NumLocal = 1
    NumOther = 2
    NumReqs = 4
    NumAcks = 1
    Subs = {x1, x2}
    ExpiredSubs = {x2}
    Remotes = {r1, r2}
    Ids = {i1}
    Scenarios <- Completes
PROPERTIES PublishCompletes StopsInTheEnd
