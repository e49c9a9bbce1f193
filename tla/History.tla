-------------------------------- MODULE History --------------------------------
(***************************************************************************)
(* The publication history of a node, src/history.c: every DPS_PubHistory  *)
(* is in a binary tree ordered by publication id and in a doubly linked    *)
(* list ordered by expiration.  There is one structure per id, so an id    *)
(* stands for the pointer to it.  Every operation runs with history->lock  *)
(* held and is one step.                                                   *)
(***************************************************************************)
EXTENDS Integers, Sequences, FiniteSets

CONSTANTS Ids,          \* publication ids, ordered as DPS_UUIDCompare orders UUIDs
          Addrs,        \* addresses of the neighbours
          NULL,         \* a null pointer; no address
          Lifetime,     \* PUB_HISTORY_LIFETIME
          Threshold,    \* HISTORY_THRESHOLD
          Odd,          \* Odd[i]: the last bit of id i is set
          Calls,        \* bound: the calls of DPS_UpdatePubHistory that are made
          MaxTime       \* bound: the loop's clock stops here

ASSUME HistoryAssumption ==
    /\ Ids \subseteq Nat /\ IsFiniteSet(Ids)
    /\ NULL \notin Ids /\ NULL \notin Addrs
    /\ Lifetime \in Nat /\ Threshold \in Nat /\ MaxTime \in Nat
    /\ Odd \in [Ids -> BOOLEAN]
    /\ Calls \subseteq [id : Ids, sn : Nat, ackRequested : BOOLEAN, ttl : Nat,
                        hopCount : Nat, addr : Addrs \cup {NULL}]

VARIABLES h,            \* DPS_History and the structures it points to
          now,          \* uv_now(history->loop)
          open          \* DPS_HistoryFree has not been called

vars == <<h, now, open>>

--------------------------------------------------------------------------------
Pointer == Ids \cup {NULL}
Path == [addr : Addrs, sn : Nat, hopCount : Nat]
\* calloc
Blank == [sn |-> 0, ackRequested |-> FALSE, expiration |-> 0, addrs |-> <<>>]

Init == /\ h = [root |-> NULL, latest |-> NULL, soonest |-> NULL, count |-> 0,
                live |-> {},                     \* the structures allocated
                ph |-> [i \in Ids |-> Blank],
                left |-> [i \in Ids |-> NULL], right |-> [i \in Ids |-> NULL],
                parent |-> [i \in Ids |-> NULL],
                prev |-> [i \in Ids |-> NULL], next |-> [i \in Ids |-> NULL]]
        /\ now = 0 /\ open = TRUE

--------------------------------------------------------------------------------
(* The tree. *)

Find(s, i) ==
    LET From[c \in Pointer] == IF c \in {NULL, i} THEN c
                               ELSE IF i < c THEN From[s.left[c]] ELSE From[s.right[c]]
    IN  From[s.root]

\* The structure below which a search for i, which is not there, ends.
Leaf(s, i) ==
    LET From[c \in Ids] == LET d == IF i < c THEN s.left[c] ELSE s.right[c]
                           IN  IF d = NULL THEN c ELSE From[d]
    IN  From[s.root]
\* Insert, when i was not found.
Insert(s, i) ==
    LET p == Leaf(s, i)
        t == [s EXCEPT !.live = @ \cup {i}]
    IN  IF s.root = NULL THEN [t EXCEPT !.root = i]
        ELSE IF i < p THEN [t EXCEPT !.left[p] = i, !.parent[i] = p]
        ELSE [t EXCEPT !.right[p] = i, !.parent[i] = p]

\* "Fix up parent pointers": repl takes the place of i.
Replace(s, i, repl) ==
    LET p == s.parent[i]
        t == IF repl = NULL THEN s ELSE [s EXCEPT !.parent[repl] = p]
    IN  IF p = NULL THEN [t EXCEPT !.root = repl]
        ELSE IF s.left[p] = i THEN [t EXCEPT !.left[p] = repl]
        ELSE [t EXCEPT !.right[p] = repl]

\* Remove of a structure with at most one child.
RemoveSimple(s, i) == Replace(s, i, IF s.left[i] # NULL THEN s.left[i] ELSE s.right[i])

\* The neighbour of i in the order of ids, below i on the side its last bit says.
Replacement(s, i) ==
    LET Rightmost[c \in Ids] == IF s.right[c] = NULL THEN c ELSE Rightmost[s.right[c]]
        Leftmost[c \in Ids] == IF s.left[c] = NULL THEN c ELSE Leftmost[s.left[c]]
    IN  IF Odd[i] THEN Rightmost[s.left[i]] ELSE Leftmost[s.right[i]]

\* Mutant: the replacement does not adopt the right child.
RemoveLosesChild(s, i) ==
    IF s.left[i] = NULL \/ s.right[i] = NULL THEN RemoveSimple(s, i)
    ELSE LET r == Replacement(s, i)
             t == RemoveSimple(s, r)
         IN  Replace([t EXCEPT !.left[r] = t.left[i],
                               !.parent = [j \in Ids |-> IF j = t.left[i] THEN r ELSE t.parent[j]]],
                     i, r)

Remove(s, i) ==
    IF s.left[i] = NULL \/ s.right[i] = NULL THEN RemoveSimple(s, i)
    ELSE LET r == Replacement(s, i)
             t == RemoveSimple(s, r)
             children == {t.left[i], t.right[i]}
         IN  Replace([t EXCEPT !.left[r] = t.left[i], !.right[r] = t.right[i],
                               !.parent = [j \in Ids |-> IF j \in children THEN r ELSE t.parent[j]]],
                     i, r)

--------------------------------------------------------------------------------
(* The list. *)

\* Mutant: the last structure is not remembered when one is linked behind it.
LinkForgetsLatest(s, i) ==
    LET x == s.ph[i].expiration
        Before[c \in Ids] == IF x < s.ph[c].expiration THEN Before[s.prev[c]] ELSE c
        b == Before[s.latest]
        n == s.next[b]
        first == s.soonest
    IN  IF s.count = 0 THEN [s EXCEPT !.soonest = i, !.latest = i, !.count = 1]
        ELSE IF x <= s.ph[first].expiration
          THEN [s EXCEPT !.next[i] = first, !.prev[first] = i, !.soonest = i, !.count = @ + 1]
          ELSE [s EXCEPT !.next = [@ EXCEPT ![i] = n, ![b] = i],
                         !.prev = [j \in Ids |-> IF j = i THEN b ELSE IF j = n THEN i ELSE @[j]],
                         !.count = @ + 1]

LinkPub(s, i) ==
    LET x == s.ph[i].expiration
        Before[c \in Ids] == IF x < s.ph[c].expiration THEN Before[s.prev[c]] ELSE c
        b == Before[s.latest]
        n == s.next[b]
        first == s.soonest
    IN  IF s.count = 0 THEN [s EXCEPT !.soonest = i, !.latest = i, !.count = 1]
        ELSE IF x <= s.ph[first].expiration
          THEN [s EXCEPT !.next[i] = first, !.prev[first] = i, !.soonest = i, !.count = @ + 1]
          ELSE [s EXCEPT !.next = [@ EXCEPT ![i] = n, ![b] = i],
                         !.prev = [j \in Ids |-> IF j = i THEN b ELSE IF j = n THEN i ELSE @[j]],
                         !.latest = IF @ = b THEN i ELSE @,
                         !.count = @ + 1]

UnlinkPub(s, i) ==
    LET p == s.prev[i]
        n == s.next[i]
    IN  [s EXCEPT !.next = [j \in Ids |-> IF j = p THEN n ELSE IF j = i THEN NULL ELSE @[j]],
                  !.prev = [j \in Ids |-> IF j = n THEN p ELSE IF j = i THEN NULL ELSE @[j]],
                  !.soonest = IF p = NULL THEN n ELSE @,
                  !.latest = IF n = NULL THEN p ELSE @,
                  !.count = @ - 1]

FreePubHistory(s, i) ==
    [s EXCEPT !.live = @ \ {i}, !.ph[i] = Blank, !.left[i] = NULL, !.right[i] = NULL,
              !.parent[i] = NULL, !.prev[i] = NULL, !.next[i] = NULL]

\* What DPS_DeletePubHistory and DPS_FreshenHistory do to a structure.
Drop(s, i) == FreePubHistory(Remove(UnlinkPub(s, i), i), i)

--------------------------------------------------------------------------------
(* The operations. *)

Greater(x, y) == IF x > y THEN x ELSE y
Lesser(x, y) == IF x < y THEN x ELSE y

\* Mutant: the unset address of a local publication is recorded.
NotePathLocal(addrs, c) == Append(addrs, [addr |-> c.addr, sn |-> c.sn, hopCount |-> c.hopCount])
\* Mutant: the hop count of a known address is the last one, not the least.
NotePathLast(addrs, c) ==
    LET known == {k \in DOMAIN addrs : addrs[k].addr = c.addr}
    IN  IF c.addr = NULL THEN addrs
        ELSE IF known = {}
          THEN Append(addrs, [addr |-> c.addr, sn |-> c.sn, hopCount |-> c.hopCount])
          ELSE [k \in DOMAIN addrs |->
                  IF k \in known THEN [addrs[k] EXCEPT !.sn = Greater(@, c.sn), !.hopCount = c.hopCount]
                  ELSE addrs[k]]
\* The list of addresses a publication came from, after call c.
NotePath(addrs, c) ==
    LET known == {k \in DOMAIN addrs : addrs[k].addr = c.addr}
    IN  IF c.addr = NULL THEN addrs
        ELSE IF known = {}
          THEN Append(addrs, [addr |-> c.addr, sn |-> c.sn, hopCount |-> c.hopCount])
          ELSE [k \in DOMAIN addrs |->
                  IF k \in known THEN [addrs[k] EXCEPT !.sn = Greater(@, c.sn),
                                                       !.hopCount = Lesser(@, c.hopCount)]
                  ELSE addrs[k]]

UpdatePubHistory(c) ==
    LET i == c.id
        s == IF Find(h, i) = NULL THEN Insert(h, i) ELSE UnlinkPub(h, i)
    IN  /\ open
        /\ h' = LinkPub([s EXCEPT !.ph[i] =
                            [sn |-> Greater(@.sn, c.sn), ackRequested |-> c.ackRequested,
                             expiration |-> now + c.ttl + Lifetime, addrs |-> NotePath(@.addrs, c)]],
                        i)
        /\ UNCHANGED <<now, open>>

DeletePubHistory(i) ==
    /\ open /\ Find(h, i) # NULL
    /\ h' = Drop(h, i)
    /\ UNCHANGED <<now, open>>

\* The loop over the structures that have expired, soonest first.
FreshenHistory ==
    LET Expire[k \in 0 .. Cardinality(Ids)] ==
            LET s == IF k = 0 THEN h ELSE Expire[k - 1]
            IN  IF k > 0 /\ s.soonest # NULL /\ s.ph[s.soonest].expiration <= now
                  THEN Drop(s, s.soonest) ELSE s
    IN  /\ open /\ h.count > Threshold
        /\ h' = Expire[Cardinality(Ids)]
        /\ UNCHANGED <<now, open>>

\* DPS_HistoryFree walks the list; the tree's root is left as it is.
HistoryFree ==
    LET Freed[k \in 0 .. Cardinality(Ids)] ==
            IF k = 0 THEN [s |-> h, at |-> h.soonest]
            ELSE LET f == Freed[k - 1]
                 IN  IF f.at = NULL THEN f
                     ELSE [s |-> FreePubHistory(f.s, f.at), at |-> f.s.next[f.at]]
        s == Freed[Cardinality(Ids)].s
    IN  /\ open /\ open' = FALSE
        /\ h' = [s EXCEPT !.latest = NULL, !.soonest = NULL, !.count = 0]
        /\ UNCHANGED now

Tick == open /\ now < MaxTime /\ now' = now + 1 /\ UNCHANGED <<h, open>>

Next == \/ \E c \in Calls : UpdatePubHistory(c)
        \/ \E i \in Ids : DeletePubHistory(i)
        \/ FreshenHistory \/ HistoryFree \/ Tick
Spec == Init /\ [][Next]_vars

--------------------------------------------------------------------------------
(* Queries. *)

PublicationIsStale(s, i, sn) == Find(s, i) # NULL /\ sn <= s.ph[i].sn

\* The address an acknowledgement of i is sent to: the last one whose hop count is
\* less than that of the first.
LookupPublisherForAck(s, i) ==
    LET addrs == s.ph[i].addrs
        shorter == {k \in DOMAIN addrs : addrs[k].hopCount < addrs[1].hopCount}
    IN  IF Find(s, i) = NULL \/ ~s.ph[i].ackRequested \/ addrs = <<>> THEN NULL
        ELSE IF shorter = {} THEN addrs[1].addr
        ELSE addrs[CHOOSE k \in shorter : \A l \in shorter : l <= k].addr

\* Mutant: the loop over the addresses goes on after a match.
ReceivedFromLast(s, i, sn, source, destination) ==
    \/ source = destination
    \/ LET k == Len(s.ph[i].addrs)
       IN  /\ Find(s, i) # NULL /\ k > 0
           /\ sn <= s.ph[i].addrs[k].sn /\ s.ph[i].addrs[k].addr = destination
PublicationReceivedFrom(s, i, sn, source, destination) ==
    \/ source = destination
    \/ Find(s, i) # NULL /\ \E k \in DOMAIN s.ph[i].addrs :
            sn <= s.ph[i].addrs[k].sn /\ s.ph[i].addrs[k].addr = destination

--------------------------------------------------------------------------------
(* Properties. *)

\* The type invariant; every address of a publication is a neighbour's.
TypeOK ==
    /\ h \in [root : Pointer, latest : Pointer, soonest : Pointer, count : Nat, live : SUBSET Ids,
              ph : [Ids -> [sn : Nat, ackRequested : BOOLEAN, expiration : Nat, addrs : Seq(Path)]],
              left : [Ids -> Pointer], right : [Ids -> Pointer], parent : [Ids -> Pointer],
              prev : [Ids -> Pointer], next : [Ids -> Pointer]]
    /\ now \in Nat /\ open \in BOOLEAN

\* The publications in the history: those a search finds.
Found == {i \in Ids : Find(h, i) = i}
\* The tree finds exactly the structures that are allocated: Remove never cuts off
\* a subtree and never leaves a pointer to what FreePubHistory frees.  Children and
\* parents point to each other.
TreeSound ==
    open => /\ Found = h.live
            /\ \A i \in h.live : \A c \in {h.left[i], h.right[i]} \ {NULL} : h.parent[c] = i

\* Following next from soonest visits the same structures, soonest to expire
\* first, ends at latest, and prev leads back.
ListSound ==
    LET Nth[k \in 1 .. h.count] == IF k = 1 THEN h.soonest ELSE h.next[Nth[k - 1]]
        Exp(k) == h.ph[Nth[k]].expiration
    IN  IF h.count = 0 THEN h.live = {} /\ h.soonest = NULL /\ h.latest = NULL
        ELSE /\ \A k \in 1 .. h.count : Nth[k] # NULL
             /\ {Nth[k] : k \in 1 .. h.count} = h.live /\ h.count = Cardinality(h.live)
             /\ h.latest = Nth[h.count] /\ h.next[h.latest] = NULL
             /\ h.prev[h.soonest] = NULL
             /\ \A k \in 2 .. h.count : h.prev[Nth[k]] = Nth[k - 1] /\ Exp(k - 1) <= Exp(k)

\* The history implements a map from publication ids to what was seen of them.
PathsOf(addrs) ==
    [a \in {addrs[k].addr : k \in DOMAIN addrs} |->
        LET k == CHOOSE l \in DOMAIN addrs : addrs[l].addr = a
        IN  [sn |-> addrs[k].sn, hopCount |-> addrs[k].hopCount]]
Seen == [i \in IF open THEN Found ELSE h.live |->
            [sn |-> h.ph[i].sn, ackRequested |-> h.ph[i].ackRequested,
             expiration |-> h.ph[i].expiration, paths |-> PathsOf(h.ph[i].addrs)]]
Map == INSTANCE HistoryMap WITH seen <- Seen
ImplementsMap == Map!Spec

\* A publication that was seen, or was seen coming from a neighbour, stays so for as
\* long as its history is kept: it is not delivered again and not sent back.
StaysSeen ==
    [][\A i \in h.live \cap h'.live, c \in Calls :
        /\ PublicationIsStale(h, i, c.sn) => PublicationIsStale(h', i, c.sn)
        /\ PublicationReceivedFrom(h, i, c.sn, NULL, c.addr)
             => PublicationReceivedFrom(h', i, c.sn, NULL, c.addr)]_vars

\* LookupPublisherForAck: "See if there is another, shorter, path to the publisher
\* before returning".
ShortestPath ==
    \A i \in h.live : \A k, l \in DOMAIN h.ph[i].addrs :
        open /\ LookupPublisherForAck(h, i) = h.ph[i].addrs[k].addr
            => h.ph[i].addrs[k].hopCount <= h.ph[i].addrs[l].hopCount

================================================================================
