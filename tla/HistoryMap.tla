------------------------------ MODULE HistoryMap -------------------------------
(***************************************************************************)
(* What the publication history of a node (src/history.h) promises: for    *)
(* every publication seen, the highest sequence number, the time it may be *)
(* forgotten, and for every neighbour that sent or forwarded it the        *)
(* highest sequence number and the least hop count it came with.           *)
(***************************************************************************)
EXTENDS Integers, FiniteSets

CONSTANTS Ids,          \* publication ids, ordered as DPS_UUIDCompare orders UUIDs
          Addrs,        \* addresses of the neighbours
          NULL,         \* no address, no structure
          Lifetime,     \* PUB_HISTORY_LIFETIME
          Threshold,    \* HISTORY_THRESHOLD
          Calls         \* bound: the calls of DPS_UpdatePubHistory that are made

VARIABLES seen,         \* seen[i], for the publications i in the history
          now           \* uv_now

Greater(x, y) == IF x > y THEN x ELSE y
Lesser(x, y) == IF x < y THEN x ELSE y

Init == seen = [i \in {} |-> NULL] /\ now = 0

\* The paths known for a publication, once it came from c.addr.
From(paths, c) ==
    LET old == IF c.addr \in DOMAIN paths THEN paths[c.addr] ELSE [sn |-> 0, hopCount |-> c.hopCount]
    IN  IF c.addr = NULL THEN paths
        ELSE [a \in DOMAIN paths \cup {c.addr} |->
                IF a = c.addr THEN [sn |-> Greater(old.sn, c.sn),
                                    hopCount |-> Lesser(old.hopCount, c.hopCount)]
                ELSE paths[a]]
Update(c) ==
    LET old == IF c.id \in DOMAIN seen THEN seen[c.id]
               ELSE [sn |-> 0, paths |-> [a \in {} |-> NULL]]
    IN  /\ seen' = [i \in DOMAIN seen \cup {c.id} |->
                     IF i = c.id THEN [sn |-> Greater(old.sn, c.sn), ackRequested |-> c.ackRequested,
                                       expiration |-> now + c.ttl + Lifetime,
                                       paths |-> From(old.paths, c)]
                     ELSE seen[i]]
        /\ UNCHANGED now

Forget(is) == seen' = [i \in DOMAIN seen \ is |-> seen[i]] /\ UNCHANGED now
Delete(i) == i \in DOMAIN seen /\ Forget({i})
Freshen == Cardinality(DOMAIN seen) > Threshold
           /\ Forget({i \in DOMAIN seen : seen[i].expiration <= now})
Free == Forget(DOMAIN seen)
Tick == now' > now /\ UNCHANGED seen

Next == \/ \E c \in Calls : Update(c)
        \/ \E i \in Ids : Delete(i)
        \/ Freshen \/ Free \/ Tick
Spec == Init /\ [][Next]_<<seen, now>>

================================================================================
