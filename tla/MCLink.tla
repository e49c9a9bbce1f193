-------------------------------- MODULE MCLink --------------------------------
(***************************************************************************)
(* Two nodes for TLC.  Each budget below says which outside events happen  *)
(* and how often; all of them may happen at any moment.                    *)
(***************************************************************************)
EXTENDS LinkProtocol, TLC

CONSTANTS n1, n2        \* two nodes

TwoNodes == {n1, n2}
OneLink == {<<n1, n2>>}
TwoMeshIds == n1 :> 50 @@ n2 :> 51

\* Subscriptions and their Bloom filters: disjoint, or one inside the other.
OneSub == 1 :> {1}
TwoSubs == 1 :> {1} @@ 2 :> {2}
NestedSubs == 1 :> {1, 2} @@ 2 :> {1}

NoEvents == [x \in Events |-> 0]

\* Subscriptions come and go and travel over a link, SUBs and SAKs cross and are
\* resent.
Propagation == [NoEvents EXCEPT !["subscribe"] = 2, !["unsubscribe"] = 1, !["link"] = 1,
                                !["early"] = 1]
\* Operations on a link follow each other, and a connection breaks or a send fails.
Operations == [NoEvents EXCEPT !["link"] = 2, !["unlink"] = 1, !["error"] = 1]
SendFails == [NoEvents EXCEPT !["link"] = 1, !["unlink"] = 1, !["sendfail"] = 1]
\* A peer falls silent and SendSubsTimer gives up on it.
Silence == [NoEvents EXCEPT !["link"] = 1, !["early"] = 5]
\* Datagrams are duplicated and reordered, nodes restart.
Datagrams == [NoEvents EXCEPT !["subscribe"] = 1, !["link"] = 1, !["duplicate"] = 1,
                              !["restart"] = 1]
\* Operations that must complete while a datagram gets lost and one node shuts down.
Completion == [NoEvents EXCEPT !["link"] = 1, !["shutdown"] = 1, !["lose"] = 1]
\* A peer links while the node shuts down, and unlinks again.
Leaves == [NoEvents EXCEPT !["link"] = 1, !["unlink"] = 1, !["shutdown"] = 1]
\* Subscriptions alone.
Subscribing == [NoEvents EXCEPT !["subscribe"] = 2, !["link"] = 1]

\* The faults one after the other: each behaviour has the events of one budget.
FaultsInit ==
    /\ node = [n \in Nodes |-> StartedNode(MeshIdOf[n])]
    /\ net = [a \in Nodes |-> [b \in Nodes |-> <<>>]]
    /\ budget \in {Operations, SendFails, Silence, Datagrams}
FaultsSpec == FaultsInit /\ [][Next]_vars

================================================================================
