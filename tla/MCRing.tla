-------------------------------- MODULE MCRing --------------------------------
(***************************************************************************)
(* Three nodes for TLC.  n1 and n2, n2 and n3 are linked and have          *)
(* exchanged keep-alive SUBs; n3 then links to n1, which closes a loop.    *)
(***************************************************************************)
EXTENDS LinkProtocol, TLC

CONSTANTS n1, n2, n3

ThreeNodes == {n1, n2, n3}
ThirdLink == {<<n3, n1>>}
ThreeMeshIds == n1 :> 50 @@ n2 :> 51 @@ n3 :> 52
OneSub == 1 :> {1}

NoEvents == [x \in Events |-> 0]
CloseLoop == [NoEvents EXCEPT !["link"] = 1]
LateAnswers == [NoEvents EXCEPT !["early"] = 1]

\* The remote of the node that called DPS_Link, and of the node it linked to:
\* there is nothing to be interested in, so the latter's revision is still 0.
Caller(mesh) == [NewRemote EXCEPT !.state = "ACTIVE", !.linkRequested = TRUE, !.inMesh = mesh,
                    !.deltaInd = TRUE, !.outRev = 1, !.outInt = {}, !.outNeeds = {}, !.delta = {}]
Called(mesh) == [NewRemote EXCEPT !.state = "ACTIVE", !.inMesh = mesh, !.inRev = 1,
                    !.deltaInd = TRUE, !.outInt = {}, !.outNeeds = {}, !.delta = {}]

LineInit ==
    /\ node = [n \in Nodes |-> CASE n = n1 -> [StartedNode(50) EXCEPT !.remoteNodes = <<n2>>,
                                                !.remote[n2] = Caller(51)]
                                [] n = n2 -> [StartedNode(51) EXCEPT !.remoteNodes = <<n3, n1>>,
                                                !.remote[n1] = Called(50), !.remote[n3] = Caller(52)]
                                [] n = n3 -> [StartedNode(52) EXCEPT !.remoteNodes = <<n2>>,
                                                !.remote[n2] = Called(50)]]
    /\ net = [x \in Nodes |-> [y \in Nodes |-> <<>>]]
    /\ budget = Budget
LineSpec == LineInit /\ [][Next]_vars

\* Later: n1 detected the loop and muted the link, the SAK told n3 to do the same;
\* then n2 was slow, and its answers to a keep-alive SUB that n1 has sent four times
\* arrive when n1 is about to give up on it.
KeepAliveSak == [type |-> "SAK", rev |-> 0, ackRev |-> 1, mesh |-> 51, sakReq |-> FALSE,
                 unlink |-> FALSE, mute |-> FALSE, delta |-> TRUE, unmute |-> FALSE,
                 int |-> NULL, needs |-> NULL]
RingInit ==
    /\ node = [n \in Nodes |-> CASE n = n1 -> [StartedNode(50) EXCEPT !.remoteNodes = <<n3, n2>>,
                                                !.subsPending = "throttled",
                                                !.remote[n2] = [Caller(51) EXCEPT !.sakPending = TRUE,
                                                    !.sakCounter = Retry + RetryLimit - 1,
                                                    !.lastSubMsgType = "SUB"],
                                                !.remote[n3] = [NewRemote EXCEPT !.state = "MUTED",
                                                    !.inRev = 1, !.inMesh = 50]]
                                [] n = n2 -> [StartedNode(51) EXCEPT !.remoteNodes = <<n3, n1>>,
                                                !.remote[n1] = Called(50), !.remote[n3] = Caller(52)]
                                [] n = n3 -> [StartedNode(52) EXCEPT !.remoteNodes = <<n1, n2>>,
                                                !.remote[n2] = Called(50),
                                                !.remote[n1] = [NewRemote EXCEPT !.state = "MUTED",
                                                    !.linkRequested = TRUE, !.inMesh = 50,
                                                    !.outRev = 1]]]
    /\ net = [x \in Nodes |-> [y \in Nodes |-> IF x = n2 /\ y = n1 THEN [i \in 1 .. 4 |-> KeepAliveSak]
                                               ELSE <<>>]]
    /\ budget = Budget
RingSpec == RingInit /\ [][Next]_vars

\* assert(remote->state != REMOTE_MUTED) in DPS_SendSubscription: while loops are
\* detected and links muted under it, no timer or handler sends a muted remote a SUB.
MutedIsSilent == \A n \in Nodes : "sub to muted" \notin node[n].fault

Muted(n, m) == /\ m \in Linked(node[n]) /\ n \in Linked(node[m])
               /\ node[n].remote[m].state = "MUTED" /\ node[m].remote[n].state = "MUTED"
Open(n, m) == /\ m \in Linked(node[n]) /\ n \in Linked(node[m])
              /\ node[n].remote[m].state = "ACTIVE" /\ node[m].remote[n].state = "ACTIVE"
Quiet == \A n, m \in Nodes : /\ net[n][m] = <<>>
                             /\ m \in Linked(node[n]) => /\ ~node[n].remote[m].sakPending
                                                         /\ node[n].remote[m].completion = "none"
\* Whenever all exchanges are over, exactly one of the three links is muted, at
\* both its ends: nodes never mute two links of the loop (the mesh falls apart)
\* and never leave it closed (publications go round).
LoopBroken == Quiet /\ budget["link"] = 0 => \E x, y, z \in Nodes :
    {x, y, z} = Nodes /\ Muted(x, y) /\ Open(y, z) /\ Open(z, x)

\* DPS_UnmuteRemoteNode: "First clear the interests because we don't want to send
\* a delta."
UnmuteIsNotDelta == \A n, m \in Nodes : \A i \in DOMAIN net[n][m] :
    net[n][m][i].unmute => ~net[n][m][i].delta

================================================================================
