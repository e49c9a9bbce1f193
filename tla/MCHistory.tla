------------------------------- MODULE MCHistory -------------------------------
(***************************************************************************)
(* A history of five publications for TLC, so that Remove meets every      *)
(* shape of tree; one of them arrives over several paths.                  *)
(***************************************************************************)
EXTENDS History

CONSTANTS a1, a2        \* two neighbours

FiveIds == 1 .. 5
Parity == [i \in Ids |-> i % 2 = 1]
Call(i, sn, ttl, hops, a) == [id |-> i, sn |-> sn, ackRequested |-> TRUE, ttl |-> ttl,
                              hopCount |-> hops, addr |-> a]

\* The local node's publications, with several times to live, and one that the
\* neighbours forward, over a long path first or a short one.
Mixed == {Call(i, 1, i % 3, 0, NULL) : i \in Ids \ {3}}
         \cup {Call(3, 1, 0, 2, a1), Call(3, 2, 0, 1, a1), Call(3, 1, 0, 1, a2)}

\* One publication, forwarded by every neighbour over paths of several lengths.
Forwarded == {Call(1, 1, 0, hops, a) : hops \in 1 .. 3, a \in Addrs}

================================================================================
