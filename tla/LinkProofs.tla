------------------------------- MODULE LinkProofs -------------------------------
(***************************************************************************)
(* Theorems about RemoteNodes and LinkProtocol, for any number of nodes,   *)
(* any subscriptions and any bounds.  First, what the functions of         *)
(* RemoteNodes preserve, for every node state and every outcome of         *)
(* DPS_NetSend; then the inductive invariant IInv, which says of every     *)
(* node that did not crash: the callbacks owed are those of the operations *)
(* in progress, a queued LinkExists has its link operation, the next       *)
(* remote of SendSubsTimer is on the list, and the messages it sent        *)
(* announce what they should.  Last, what a node counts is exactly what    *)
(* its subscriptions and its remotes contribute, and a muted remote is     *)
(* never sent a SUB.                                                       *)
(***************************************************************************)
EXTENDS MCRing, WellFoundedInduction, FiniteSetTheorems, TLAPS

\* As many callbacks are owed for a peer as operations are in progress on it.
Owed(s) == \A m \in Nodes : s.owed[m] =
    IF m \in Linked(s) /\ s.remote[m].completion # "none" THEN 1 ELSE 0
\* A queued LinkExists belongs to a link operation in progress.
Queued(s) == \A m \in s.requests \ {"shutdown"} :
    m \in Linked(s) /\ s.remote[m].completion = "link"
\* Messages that wait to be sent announce what they should.
OutWellFormed(s) == \A m \in Nodes : \A i \in DOMAIN s.out[m] : WellFormed(s.out[m][i])
Operations(s) == s \in NodeType /\ Owed(s) /\ Queued(s)
GoodNode(s) == /\ Operations(s)
               /\ "null interests" \in s.fault \/ OutWellFormed(s)

\* t differs from s in nothing that these invariants depend on.
Same(s, t) == /\ t \in NodeType
              /\ Linked(t) = Linked(s) /\ t.walk = s.walk
              /\ t.owed = s.owed /\ t.requests = s.requests
              /\ t.out = s.out /\ s.fault \subseteq t.fault
              /\ \A m \in Nodes : /\ t.remote[m].completion = s.remote[m].completion
                                  /\ t.remote[m].inRev = s.remote[m].inRev
\* A handler may take s to t: no remote appears, and none forgets a revision.
Kept(s, t) == /\ Linked(t) \subseteq Linked(s) /\ t.walk = s.walk
              /\ s.fault \subseteq t.fault
              /\ \A m \in Linked(t) : t.remote[m].inRev >= s.remote[m].inRev
Preserves(s, t) == GoodNode(t) /\ Kept(s, t)

--------------------------------------------------------------------------------
(* Numbers, lists and types of fields. *)

\* DPS_MinMeshId finds its minimum: a set of natural numbers has a least one.
LEMMA MinNat == ASSUME NEW S \in SUBSET Nat, S # {}
                PROVE  \E i \in S : \A j \in S : i <= j
<1> DEFINE R == {p \in Nat \X Nat : p[1] < p[2]}
<1>1. IsWellFoundedOn(R, Nat)
  BY NatLessThanWellFounded, Zenon DEF OpToRel
<1>2. \A x, y \in Nat : <<y, x>> \in R <=> y < x
  OBVIOUS
<1> HIDE DEF R
<1>3. PICK x \in S : \A y \in S : ~ (<<y, x>> \in R)
  BY <1>1, WFMin
<1>4. \A y \in S : ~ (y < x)
  BY <1>2, <1>3
<1>5. \A y \in S : x <= y
  BY <1>4
<1> QED BY <1>5

\* The remotes of a node are nodes.
LEMMA LinkedNodes == ASSUME NEW s \in NodeType PROVE Linked(s) \subseteq Nodes
BY DEF Linked, NodeType, Lists

\* DPS_MinMeshId returns a mesh id.
LEMMA MinMeshIdType == ASSUME NEW s \in NodeType, NEW x PROVE MinMeshId(s, x) \in Nat
<1> DEFINE ids == {s.meshId} \cup
               {s.remote[m].inMesh : m \in {y \in Linked(s) \ {x} :
                                     s.remote[y].state \in {"ACTIVE", "LINKING"}}}
<1>0. Linked(s) \subseteq Nodes
  BY LinkedNodes
<1>1. ids \in SUBSET Nat
  BY <1>0 DEF NodeType, RemoteType
<1>2. \E i \in ids : \A j \in ids : i <= j
  BY <1>1, MinNat
<1>3. MinMeshId(s, x) = CHOOSE i \in ids : \A j \in ids : i <= j
  BY DEF MinMeshId
<1> HIDE DEF ids
<1> QED BY <1>1, <1>2, <1>3

\* RemoveRemoteNode takes exactly m off the list, which keeps its order.
LEMMA RemoveNode ==
    ASSUME NEW s \in NodeType, NEW m \in Linked(s)
    PROVE  LET t == RemoveRemoteNode(s, m)
           IN  /\ t \in NodeType
               /\ t = [s EXCEPT !.remoteNodes = t.remoteNodes]
               /\ Linked(t) = Linked(s) \ {m}
<1> DEFINE l == s.remoteNodes
           i == CHOOSE j \in DOMAIN l : l[j] = m
           k == [j \in 1 .. Len(l) - 1 |-> IF j < i THEN l[j] ELSE l[j + 1]]
<1>1. l \in Seq(Nodes) /\ \A x, y \in DOMAIN l : l[x] = l[y] => x = y
  BY DEF NodeType, Lists
<1>2. i \in 1 .. Len(l) /\ l[i] = m
  BY <1>1 DEF Linked
<1>3. RemoveRemoteNode(s, m) = [s EXCEPT !.remoteNodes = k]
  BY DEF RemoveRemoteNode
<1> HIDE DEF i
<1>4. k \in Seq(Nodes) /\ DOMAIN k = 1 .. Len(l) - 1
  BY <1>1, <1>2
<1>5. \A x, y \in DOMAIN k : k[x] = k[y] => x = y
  BY <1>1, <1>2, <1>4, SMTT(40)
<1>6. {k[j] : j \in DOMAIN k} = {l[j] : j \in DOMAIN l} \ {m}
  <2>1. \A j \in DOMAIN k : k[j] \in {l[x] : x \in DOMAIN l} \ {m}
    BY <1>1, <1>2, <1>4
  <2>2. ASSUME NEW x \in DOMAIN l, l[x] # m PROVE \E j \in DOMAIN k : k[j] = l[x]
    <3>1. CASE x < i
      <4>1. x \in DOMAIN k /\ k[x] = l[x]
        BY <3>1, <1>1, <1>2, <1>4
      <4> QED BY <4>1
    <3>2. CASE x > i
      <4>1. x - 1 \in DOMAIN k /\ k[x - 1] = l[x]
        BY <3>2, <1>1, <1>2, <1>4
      <4> QED BY <4>1
    <3> QED BY <3>1, <3>2, <2>2, <1>1, <1>2
  <2> HIDE DEF k
  <2> QED BY <2>1, <2>2
<1>7. k \in Lists
  BY <1>4, <1>5 DEF Lists
<1> HIDE DEF k
<1>8. [s EXCEPT !.remoteNodes = k] \in NodeType
  BY <1>7 DEF NodeType
<1>9. [s EXCEPT !.remoteNodes = k].remoteNodes = k
  BY DEF NodeType
<1> QED BY <1>3, <1>6, <1>8, <1>9 DEF Linked

\* InsertRemoteNode adds exactly m.
LEMMA InsertNode ==
    ASSUME NEW s \in NodeType, NEW m \in Nodes \ Linked(s)
    PROVE  LET t == InsertRemoteNode(s, m)
           IN  /\ t \in NodeType
               /\ t = [s EXCEPT !.remoteNodes = t.remoteNodes]
               /\ Linked(t) = Linked(s) \cup {m}
<1> DEFINE l == s.remoteNodes
           k == <<m>> \o l
<1>1. l \in Seq(Nodes) /\ \A x, y \in DOMAIN l : l[x] = l[y] => x = y
  BY DEF NodeType, Lists
<1>2. /\ k \in Seq(Nodes) /\ DOMAIN k = 1 .. Len(l) + 1
      /\ k[1] = m /\ \A j \in 2 .. Len(l) + 1 : k[j] = l[j - 1]
  BY <1>1
<1>3. \A x \in DOMAIN l : l[x] # m
  BY DEF Linked
<1>4. \A x, y \in DOMAIN k : k[x] = k[y] => x = y
  BY <1>1, <1>2, <1>3
<1>5. {k[j] : j \in DOMAIN k} = {l[j] : j \in DOMAIN l} \cup {m}
  <2>1. \A j \in DOMAIN k : k[j] \in {l[x] : x \in DOMAIN l} \cup {m}
    BY <1>1, <1>2
  <2>2. ASSUME NEW x \in DOMAIN l PROVE \E j \in DOMAIN k : k[j] = l[x]
    <3>1. x + 1 \in DOMAIN k /\ k[x + 1] = l[x]
      BY <1>1, <1>2
    <3> QED BY <3>1
  <2>3. \E j \in DOMAIN k : k[j] = m
    BY <1>1, <1>2
  <2> HIDE DEF k
  <2> QED BY <2>1, <2>2, <2>3
<1>6. k \in Lists
  BY <1>2, <1>4 DEF Lists
<1>7. InsertRemoteNode(s, m) = [s EXCEPT !.remoteNodes = k]
  BY DEF InsertRemoteNode
<1> HIDE DEF k
<1>8. [s EXCEPT !.remoteNodes = k] \in NodeType
  BY <1>6 DEF NodeType
<1>9. [s EXCEPT !.remoteNodes = k].remoteNodes = k
  BY DEF NodeType
<1> QED BY <1>5, <1>7, <1>8, <1>9 DEF Linked

\* Count vectors stay count vectors; a deleted entry was there to delete.
LEMMA CountVectors ==
    ASSUME NEW X, NEW cv \in CountVector(X), NEW v
    PROVE  /\ CVAdd(cv, v) \in CountVector(X)
           /\ CVDel(cv, v) \in CountVector(X)
           /\ CVUnion(cv) \in SUBSET X
           /\ CVIntersection(cv) \in SUBSET X
BY DEF CountVector, CVAdd, CVDel, CVUnion, CVIntersection

--------------------------------------------------------------------------------
(* Changes that do not matter. *)

\* A function that does nothing changes nothing the invariants depend on.
LEMMA SameRefl == ASSUME NEW s \in NodeType PROVE Same(s, s)
BY DEF Same

\* Two functions in a row that change nothing the invariants depend on.
LEMMA SameTrans == ASSUME NEW s, NEW t, NEW u, Same(s, t), Same(t, u) PROVE Same(s, u)
BY DEF Same

\* Such a function preserves the invariants.
LEMMA SamePreserves == ASSUME NEW s, NEW t, GoodNode(s), Same(s, t) PROVE Preserves(s, t)
<1>1. s \in NodeType /\ t \in NodeType /\ Linked(s) \subseteq Nodes
  BY LinkedNodes DEF GoodNode, Operations, Same
<1>2. Owed(t)
  BY <1>1 DEF GoodNode, Operations, Same, Owed
<1>5. s.requests \ {"shutdown"} \subseteq Nodes
  BY <1>1 DEF NodeType
<1>6. Queued(t)
  BY <1>1, <1>5 DEF GoodNode, Operations, Same, Queued
<1>3. "null interests" \in t.fault \/ OutWellFormed(t)
  BY DEF GoodNode, Same, OutWellFormed
<1>4. \A m \in Linked(t) : t.remote[m].inRev \in Nat /\ t.remote[m].inRev = s.remote[m].inRev
  BY <1>1 DEF Same, NodeType, RemoteType
<1>7. Kept(s, t)
  BY <1>4 DEF Same, Kept
<1> QED BY <1>1, <1>2, <1>3, <1>6, <1>7 DEF Preserves, GoodNode, Operations

\* Two functions in a row that preserve the invariants.
LEMMA PreservesTrans ==
    ASSUME NEW s \in NodeType, NEW t, NEW u, Preserves(s, t), Preserves(t, u)
    PROVE  Preserves(s, u)
<1>1. t \in NodeType /\ u \in NodeType
  BY DEF Preserves, GoodNode, Operations
<1>2. Linked(s) \subseteq Nodes
  BY LinkedNodes
<1>3. Linked(u) \subseteq Linked(t) /\ Linked(t) \subseteq Linked(s)
  BY DEF Preserves, Kept
<1>4. \A m \in Linked(u) : /\ s.remote[m].inRev \in Nat /\ t.remote[m].inRev \in Nat
                           /\ u.remote[m].inRev \in Nat
  BY <1>1, <1>2, <1>3 DEF NodeType, RemoteType
<1>5. \A m \in Linked(u) : u.remote[m].inRev >= s.remote[m].inRev
  BY <1>3, <1>4 DEF Preserves, Kept
<1> QED BY <1>3, <1>5 DEF Preserves, Kept

\* Fields of a remote other than its completion and inbound revision.
LEMMA PutSame ==
    ASSUME NEW s \in NodeType, NEW m \in Nodes, NEW r \in RemoteType,
           r.completion = s.remote[m].completion, r.inRev = s.remote[m].inRev
    PROVE  Same(s, Put(s, m, r)) /\ Put(s, m, r).remote[m] = r
BY DEF Same, Put, NodeType, Linked

\* An assertion that fails only adds to the faults.
LEMMA CheckSame ==
    ASSUME NEW s \in NodeType, NEW cond, NEW w \in Faults
    PROVE  /\ Same(s, Check(s, cond, w))
           /\ Check(s, cond, w).remote = s.remote
           /\ cond \/ w \in Check(s, cond, w).fault
BY ZenonT(40) DEF Same, Check, Fault, NodeType, Linked

\* DPS_UpdateSubs only schedules SendSubsTask.
LEMMA UpdateSubsSame ==
    ASSUME NEW s \in NodeType, NEW p \in {"throttled", "now"} PROVE Same(s, UpdateSubs(s, p))
BY ZenonT(40) DEF Same, UpdateSubs, NodeType, Linked

\* OnShutdown touches no remote.
LEMMA OnShutdownSame == ASSUME NEW s \in NodeType PROVE Same(s, OnShutdown(s))
BY ZenonT(40) DEF Same, OnShutdown, NodeType, Linked

\* The count vectors play no part in the invariants.
LEMMA CountsSame ==
    ASSUME NEW s \in NodeType, NEW i \in CountVector(Bits), NEW n \in CountVector(FHBits)
    PROVE  Same(s, [s EXCEPT !.interests = i, !.needs = n])
BY DEF Same, NodeType, Linked

\* DPS_ClearInboundInterests keeps the list, the operations and the revisions.
LEMMA ClearInboundSame ==
    ASSUME NEW s \in NodeType, NEW m \in Nodes
    PROVE  Same(s, ClearInboundInterests(s, m))
<1> DEFINE r == s.remote[m]
           t == Check(s, s.interests.entries # 0 /\ s.needs.entries # 0, "count")
           u == Put(t, m, [r EXCEPT !.inInt = NULL, !.inNeeds = NULL])
           v == [u EXCEPT !.interests = CVDel(@, r.inInt), !.needs = CVDel(@, r.inNeeds)]
<1>1. Same(s, t) /\ t.remote = s.remote
  BY CheckSame DEF Faults
<1>2. t \in NodeType /\ r \in RemoteType
  BY <1>1 DEF Same, NodeType
<1> HIDE DEF t
<1>3. [r EXCEPT !.inInt = NULL, !.inNeeds = NULL] \in RemoteType
  BY <1>2 DEF RemoteType, Vector
<1>4. Same(t, u)
  BY <1>1, <1>2, <1>3, PutSame DEF RemoteType
<1>5. u \in NodeType /\ u.interests \in CountVector(Bits) /\ u.needs \in CountVector(FHBits)
  BY <1>4 DEF Same, NodeType
<1> HIDE DEF u
<1>6. CVDel(u.interests, r.inInt) \in CountVector(Bits) /\ CVDel(u.needs, r.inNeeds) \in CountVector(FHBits)
  BY <1>5, CountVectors
<1>7. Same(u, v)
  BY <1>5, <1>6, CountsSame
<1>8. Same(s, v)
  BY <1>1, <1>4, <1>7, SameTrans
<1>9. r.inInt # NULL => ClearInboundInterests(s, m) = v
  BY DEF ClearInboundInterests, u, t
<1> QED BY <1>8, <1>9, SameRefl DEF ClearInboundInterests

--------------------------------------------------------------------------------
(* Deleting a remote and calling the application. *)

\* The operation on m is over and its callback is still to be called.
Completing(s, m) ==
    /\ s \in NodeType /\ s.owed[m] = 1
    /\ m \in Linked(s) => s.remote[m].completion = "none"
    /\ \A k \in Nodes \ {m} : s.owed[k] =
            IF k \in Linked(s) /\ s.remote[k].completion # "none" THEN 1 ELSE 0
    /\ \A k \in s.requests \ {"shutdown", m} : k \in Linked(s) /\ s.remote[k].completion = "link"
    /\ "null interests" \in s.fault \/ OutWellFormed(s)

\* A remote as DPS_AddRemoteNode makes it is well typed.
LEMMA NewRemoteType == NewRemote \in RemoteType
BY MeshAssumption DEF NewRemote, RemoteType, RemoteStates, Vector

\* The tail of RemoteCompletion changes the requests and the callbacks owed, no more.
LEMMA CallBackFrame ==
    ASSUME NEW s \in NodeType, NEW m \in Nodes
    PROVE  LET t == CallBack(s, m)
           IN  /\ t \in NodeType /\ Linked(t) = Linked(s)
               /\ t.remote = s.remote /\ t.remoteNodes = s.remoteNodes
               /\ t.walk = s.walk /\ t.out = s.out /\ t.fault = s.fault
               /\ t.requests = s.requests \ {m}
               /\ t.owed = [s.owed EXCEPT ![m] = @ - 1]
<1> DEFINE o == [s.owed EXCEPT ![m] = @ - 1]
           r == s.requests \ {m}
           t == [s EXCEPT !.requests = r, !.owed = o]
<1>1. o \in [Nodes -> Int] /\ r \in SUBSET (Nodes \cup {"shutdown"})
  BY DEF NodeType
<1>2. CallBack(s, m) = t
  BY DEF CallBack, NodeType
<1> HIDE DEF o, r
<1>3. t \in NodeType
  BY <1>1 DEF NodeType
<1>4. /\ t.remote = s.remote /\ t.remoteNodes = s.remoteNodes /\ t.walk = s.walk
      /\ t.out = s.out /\ t.fault = s.fault /\ t.requests = r /\ t.owed = o
  BY DEF NodeType
<1> QED BY <1>2, <1>3, <1>4 DEF Linked, o, r

\* The one callback an operation is owed is called, its queued request is gone.
LEMMA CallBackGood ==
    ASSUME NEW s, NEW m \in Nodes, Completing(s, m)
    PROVE  GoodNode(CallBack(s, m)) /\ Kept(s, CallBack(s, m))
<1> DEFINE t == CallBack(s, m)
<1>1. s \in NodeType /\ s.owed \in [Nodes -> Int] /\ s.requests \subseteq Nodes \cup {"shutdown"}
  BY DEF Completing, NodeType
<1>2. /\ t \in NodeType /\ Linked(t) = Linked(s) /\ t.remote = s.remote
      /\ t.walk = s.walk /\ t.out = s.out /\ t.fault = s.fault
      /\ t.requests = s.requests \ {m} /\ t.owed = [s.owed EXCEPT ![m] = @ - 1]
  BY <1>1, CallBackFrame
<1> HIDE DEF t
<1>3. Owed(t)
  <2>0. s.owed[m] = 1
    BY DEF Completing
  <2>1. t.owed[m] = 0 /\ \A k \in Nodes \ {m} : t.owed[k] = s.owed[k]
    BY <1>1, <1>2, <2>0
  <2>2. ~ (m \in Linked(t) /\ t.remote[m].completion # "none")
    BY <1>2 DEF Completing
  <2>3. ASSUME NEW k \in Nodes, k # m
        PROVE  t.owed[k] = IF k \in Linked(t) /\ t.remote[k].completion # "none" THEN 1 ELSE 0
    <3>1. s.owed[k] = IF k \in Linked(s) /\ s.remote[k].completion # "none" THEN 1 ELSE 0
      BY <2>3 DEF Completing
    <3> QED BY <1>2, <2>1, <2>3, <3>1
  <2> QED BY <2>1, <2>2, <2>3 DEF Owed
<1>4. Queued(t)
  BY <1>1, <1>2 DEF Completing, Queued
<1>5. "null interests" \in t.fault \/ OutWellFormed(t)
  BY <1>2 DEF Completing, OutWellFormed
<1>6. \A k \in Linked(t) : t.remote[k].inRev \in Nat
  BY <1>2, LinkedNodes DEF NodeType, RemoteType
<1>7. Kept(s, t)
  BY <1>2, <1>6 DEF Kept
<1> QED BY <1>2, <1>3, <1>4, <1>5, <1>7 DEF GoodNode, Operations, t

\* DPS_DeleteRemoteNode up to its callback.
Dropped(s, m) == Put(RemoveRemoteNode(ClearInboundInterests(s, m), m), m, NewRemote)

\* Up to its callback DPS_DeleteRemoteNode only removes m.
LEMMA DroppedFrame ==
    ASSUME NEW s \in NodeType, NEW m \in Linked(s)
    PROVE  LET t == Dropped(s, m)
           IN  /\ t \in NodeType /\ Linked(t) = Linked(s) \ {m} /\ Kept(s, t)
               /\ t.owed = s.owed /\ t.requests = s.requests /\ t.out = s.out
               /\ \A k \in Nodes \ {m} : t.remote[k].completion = s.remote[k].completion
<1> DEFINE u == ClearInboundInterests(s, m)
           v == RemoveRemoteNode(u, m)
           t == Put(v, m, NewRemote)
<1>0. m \in Nodes
  BY LinkedNodes
<1>1. Same(s, u)
  BY <1>0, ClearInboundSame
<1> HIDE DEF u
<1>2. u \in NodeType /\ m \in Linked(u)
  BY <1>1 DEF Same
<1>3. v \in NodeType /\ v = [u EXCEPT !.remoteNodes = v.remoteNodes] /\ Linked(v) = Linked(u) \ {m}
  BY <1>2, RemoveNode
<1> HIDE DEF v
<1>4. /\ v.owed = u.owed /\ v.requests = u.requests /\ v.out = u.out
      /\ v.walk = u.walk /\ v.fault = u.fault /\ v.remote = u.remote
  BY <1>2, <1>3 DEF NodeType
<1>5. /\ t \in NodeType /\ t.remoteNodes = v.remoteNodes
      /\ t.owed = v.owed /\ t.requests = v.requests /\ t.out = v.out
      /\ t.walk = v.walk /\ t.fault = v.fault
      /\ \A k \in Nodes \ {m} : t.remote[k] = v.remote[k]
  BY <1>0, <1>3, NewRemoteType DEF NodeType, Put
<1> HIDE DEF t
<1>6. Linked(t) = Linked(s) \ {m}
  <2>1. Linked(t) = Linked(v)
    BY <1>5 DEF Linked
  <2> QED BY <1>1, <1>3, <2>1 DEF Same
<1>7. \A k \in Nodes \ {m} : /\ t.remote[k].completion = s.remote[k].completion
                             /\ t.remote[k].inRev = s.remote[k].inRev
                             /\ t.remote[k].inRev \in Nat
  BY <1>1, <1>4, <1>5 DEF Same, NodeType, RemoteType
<1>8. Kept(s, t)
  BY <1>1, <1>4, <1>5, <1>6, <1>7, LinkedNodes DEF Same, Kept
<1>9. /\ t.owed = s.owed /\ t.requests = s.requests /\ t.out = s.out
  BY <1>1, <1>4, <1>5 DEF Same
<1>10. t = Dropped(s, m)
  BY DEF Dropped, t, v, u
<1> QED BY <1>5, <1>6, <1>7, <1>8, <1>9, <1>10

\* DPS_DeleteRemoteNode completes the operation in progress on the remote.
LEMMA DeleteGood ==
    ASSUME NEW s, NEW m \in Nodes, GoodNode(s)
    PROVE  /\ Preserves(s, DeleteRemoteNode(s, m))
           /\ Linked(DeleteRemoteNode(s, m)) = Linked(s) \ {m}
<1>0. s \in NodeType
  BY DEF GoodNode, Operations
<1>1. CASE m \notin Linked(s)
  BY <1>0, <1>1, SameRefl, SamePreserves DEF DeleteRemoteNode
<1>2. CASE m \in Linked(s)
  <2> DEFINE t == Dropped(s, m)
             u == CallBack(t, m)
  <2>1. /\ t \in NodeType /\ Linked(t) = Linked(s) \ {m} /\ Kept(s, t)
        /\ t.owed = s.owed /\ t.requests = s.requests /\ t.out = s.out
        /\ \A k \in Nodes \ {m} : t.remote[k].completion = s.remote[k].completion
    BY <1>0, <1>2, DroppedFrame
  <2>2. DeleteRemoteNode(s, m) = IF s.remote[m].completion = "none" THEN t ELSE OnShutdown(u)
    BY <1>2 DEF DeleteRemoteNode, CompleteMissing, Dropped
  <2> HIDE DEF t
  <2>3. "null interests" \in t.fault \/ OutWellFormed(t)
    BY <2>1 DEF GoodNode, OutWellFormed, Kept
  <2>4. \A k \in Nodes \ {m} : t.owed[k] =
            IF k \in Linked(t) /\ t.remote[k].completion # "none" THEN 1 ELSE 0
    BY <2>1 DEF GoodNode, Operations, Owed
  <2>5. s.requests \subseteq Nodes \cup {"shutdown"}
    BY <1>0 DEF NodeType
  <2>6. \A k \in t.requests \ {"shutdown", m} : k \in Linked(t) /\ t.remote[k].completion = "link"
    BY <2>1, <2>5 DEF GoodNode, Operations, Queued
  <2>7. CASE s.remote[m].completion = "none"
    <3>1. t.owed[m] = 0
      BY <2>1, <2>7 DEF GoodNode, Operations, Owed
    <3>2. Owed(t)
      BY <2>1, <2>4, <3>1 DEF Owed
    <3>3. m \notin s.requests \ {"shutdown"}
      BY <2>7 DEF GoodNode, Operations, Queued
    <3>4. Queued(t)
      BY <2>1, <2>6, <3>3 DEF Queued
    <3> QED BY <2>1, <2>2, <2>3, <2>7, <3>2, <3>4 DEF Preserves, GoodNode, Operations
  <2>8. CASE s.remote[m].completion # "none"
    <3>1. t.owed[m] = 1
      BY <1>2, <2>1, <2>8 DEF GoodNode, Operations, Owed
    <3>2. Completing(t, m)
      BY <2>1, <2>3, <2>4, <2>6, <3>1 DEF Completing
    <3>3. GoodNode(u) /\ Kept(t, u)
      BY <3>2, CallBackGood
    <3>4. u \in NodeType /\ Linked(u) = Linked(t) /\ u.remote = t.remote
      BY <2>1, CallBackFrame
    <3> HIDE DEF u
    <3>5. Same(u, OnShutdown(u)) /\ Preserves(u, OnShutdown(u))
      BY <3>3, <3>4, OnShutdownSame, SamePreserves
    <3>6. Preserves(s, u)
      <4>1. \A k \in Linked(u) : u.remote[k].inRev >= s.remote[k].inRev
        BY <2>1, <3>4 DEF Kept
      <4> QED BY <2>1, <3>3, <3>4, <4>1 DEF Preserves, Kept
    <3>7. Preserves(s, OnShutdown(u))
      BY <1>0, <3>5, <3>6, PreservesTrans
    <3>8. Linked(OnShutdown(u)) = Linked(s) \ {m}
      BY <2>1, <3>4, <3>5 DEF Same
    <3> QED BY <2>2, <2>8, <3>7, <3>8
  <2> QED BY <2>7, <2>8
<1> QED BY <1>1, <1>2

--------------------------------------------------------------------------------
(* Outbound interests and the messages that carry them. *)

\* Freeing or clearing the outbound interests keeps completion and inbound revision.
LEMMA OutboundTypes ==
    ASSUME NEW r \in RemoteType
    PROVE  /\ FreeOutbound(r) \in RemoteType /\ ClearOutboundInterests(r) \in RemoteType
           /\ Unmuted(r) \in RemoteType
           /\ FreeOutbound(r).completion = r.completion /\ FreeOutbound(r).inRev = r.inRev
           /\ ClearOutboundInterests(r).completion = r.completion
           /\ ClearOutboundInterests(r).inRev = r.inRev
           /\ Unmuted(r).completion = r.completion /\ Unmuted(r).inRev = r.inRev
<1>1. /\ FreeOutbound(r) \in RemoteType
      /\ FreeOutbound(r).completion = r.completion /\ FreeOutbound(r).inRev = r.inRev
  BY DEF FreeOutbound, RemoteType, Vector
<1>2. /\ ClearOutboundInterests(r) \in RemoteType
      /\ ClearOutboundInterests(r).completion = r.completion
      /\ ClearOutboundInterests(r).inRev = r.inRev
  BY DEF ClearOutboundInterests, RemoteType, Vector
<1>3. /\ Unmuted(r) \in RemoteType
      /\ Unmuted(r).completion = r.completion /\ Unmuted(r).inRev = r.inRev
  BY ZenonT(40) DEF Unmuted, RemoteType, RemoteStates
<1> QED BY <1>1, <1>2, <1>3

\* DPS_UpdateOutboundInterests changes the remote's outbound half only.
LEMMA UpdateOutboundSame ==
    ASSUME NEW s \in NodeType, NEW m \in Nodes
    PROVE  Same(s, UpdateOutboundInterests(s, m))
<1> DEFINE r == s.remote[m]
           i == OutboundInterests(s, m)
           n == OutboundNeeds(s, m)
           rev == r.outRev + (IF Changes(s, m) THEN 1 ELSE 0)
           t == Check(s, Changes(s, m) \/ r.outNeeds = n, "needs")
           d == IF r.outInt = NULL THEN r.delta ELSE Xor(r.outInt, i)
           b == r.outInt # NULL
           q == [r EXCEPT !.outInt = i, !.outNeeds = n, !.outRev = rev, !.deltaInd = b, !.delta = d]
           p == [FreeOutbound(r) EXCEPT !.outRev = rev]
<1>1. r \in RemoteType /\ s.interests \in CountVector(Bits) /\ s.needs \in CountVector(FHBits)
  BY DEF NodeType
<1>2. i \in SUBSET Bits /\ n \in SUBSET FHBits
  <2>1. /\ CVDel(s.interests, r.inInt) \in CountVector(Bits)
        /\ CVDel(s.needs, r.inNeeds) \in CountVector(FHBits)
    BY <1>1, CountVectors
  <2>2. /\ CVUnion(CVDel(s.interests, r.inInt)) \in SUBSET Bits
        /\ CVIntersection(CVDel(s.needs, r.inNeeds)) \in SUBSET FHBits
        /\ CVUnion(s.interests) \in SUBSET Bits /\ CVIntersection(s.needs) \in SUBSET FHBits
    BY <1>1, <2>1, CountVectors
  <2> QED BY <2>2 DEF OutboundInterests, OutboundNeeds
<1>3. UpdateOutboundInterests(s, m) = IF r.state = "UNLINKING" THEN Put(s, m, p) ELSE Put(t, m, q)
  BY DEF UpdateOutboundInterests, NodeType, RemoteType
<1>4. Same(s, t) /\ t.remote = s.remote
  BY CheckSame DEF Faults
<1> HIDE DEF t, i, n
<1>5. r.outRev \in Nat /\ r.outInt \in Vector(Bits) /\ r.delta \in Vector(Bits)
  BY <1>1 DEF RemoteType
<1>6. rev \in Nat
  BY <1>5
<1> HIDE DEF rev
<1>7. d \in Vector(Bits) /\ b \in BOOLEAN
  BY <1>2, <1>5 DEF Vector, Xor
<1> HIDE DEF d, b
<1>8. q \in RemoteType /\ q.completion = r.completion /\ q.inRev = r.inRev
  BY <1>1, <1>2, <1>6, <1>7 DEF RemoteType, Vector
<1>9. p \in RemoteType /\ p.completion = r.completion /\ p.inRev = r.inRev
  BY <1>1, <1>6, OutboundTypes DEF RemoteType
<1>10. t \in NodeType
  BY <1>4 DEF Same
<1> HIDE DEF p, q
<1>11. Same(s, Put(s, m, p)) /\ Same(t, Put(t, m, q))
  BY <1>4, <1>8, <1>9, <1>10, PutSame
<1> QED BY <1>3, <1>4, <1>11, SameTrans

\* The SUBs and SAKs a node builds are messages.
LEMMA MessageTypes ==
    ASSUME NEW s \in NodeType, NEW m \in Nodes, NEW req \in BOOLEAN
    PROVE  SubMsg(s, m) \in Messages /\ AckMsg(s, m, req) \in Messages
<1> DEFINE r == s.remote[m]
<1>1. r \in RemoteType
  BY DEF NodeType
<1>2. MinMeshId(s, m) \in Nat
  BY MinMeshIdType
<1> QED BY <1>1, <1>2 DEF SubMsg, AckMsg, Messages, RemoteType, Vector

\* An element of an appended sequence is the new one or an old one.
LEMMA AppendFacts ==
    ASSUME NEW S, NEW o \in Seq(S), NEW x \in S
    PROVE  /\ Append(o, x) \in Seq(S)
           /\ \A i \in DOMAIN Append(o, x) : Append(o, x)[i] = x \/ (i \in DOMAIN o /\ Append(o, x)[i] = o[i])
OBVIOUS

\* A message handed to DPS_NetSend: well-formed, or the assertion has failed.
Sendable(s, msg) == WellFormed(msg) \/ "null interests" \in s.fault
\* DPS_NetSend of a message that announces what it should preserves the invariants.
LEMMA EmitGood ==
    ASSUME NEW s, NEW m \in Nodes, NEW msg \in Messages, GoodNode(s), Sendable(s, msg)
    PROVE  /\ Preserves(s, Emit(s, m, msg))
           /\ Linked(Emit(s, m, msg)) = Linked(s) /\ Emit(s, m, msg).remote = s.remote
<1> DEFINE q == Append(s.out[m], msg)
           t == [s EXCEPT !.out = [@ EXCEPT ![m] = q]]
<1>1. s \in NodeType /\ s.out \in [Nodes -> Seq(Messages)]
  BY DEF GoodNode, Operations, NodeType
<1>2. /\ q \in Seq(Messages)
      /\ \A i \in DOMAIN q : q[i] = msg \/ (i \in DOMAIN s.out[m] /\ q[i] = s.out[m][i])
  <2>1. s.out[m] \in Seq(Messages)
    BY <1>1
  <2> QED BY <2>1, AppendFacts
<1>3. Emit(s, m, msg) = t
  BY <1>1 DEF Emit, NodeType
<1> HIDE DEF q
<1>4. /\ t \in NodeType /\ t.remoteNodes = s.remoteNodes /\ t.walk = s.walk
      /\ t.fault = s.fault /\ t.remote = s.remote /\ t.owed = s.owed /\ t.requests = s.requests
      /\ t.out = [s.out EXCEPT ![m] = q]
  BY <1>1, <1>2 DEF NodeType
<1> HIDE DEF t
<1>5. Linked(t) = Linked(s)
  BY <1>4 DEF Linked
<1>6. "null interests" \in t.fault \/ OutWellFormed(t)
  BY <1>1, <1>2, <1>4 DEF GoodNode, OutWellFormed, Sendable
<1>7. Owed(t)
  BY <1>4, <1>5 DEF GoodNode, Operations, Owed
<1>8. Queued(t)
  BY <1>4, <1>5 DEF GoodNode, Operations, Queued
<1>9. Linked(t) \subseteq Nodes
  BY <1>4, LinkedNodes
<1>10. \A k \in Linked(t) : t.remote[k].inRev >= s.remote[k].inRev
  <2>1. \A k \in Nodes : s.remote[k].inRev \in Nat
    BY <1>1 DEF NodeType, RemoteType
  <2> QED BY <1>4, <1>9, <2>1
<1>11. Kept(s, t)
  BY <1>4, <1>5, <1>10 DEF Kept
<1> QED BY <1>3, <1>4, <1>5, <1>6, <1>7, <1>8, <1>11 DEF Preserves, GoodNode, Operations

\* A message may be sent once the assertion about its interests was evaluated.
LEMMA CheckedSendable ==
    ASSUME NEW s \in NodeType, NEW msg
    PROVE  LET t == Check(s, WellFormed(msg), "null interests")
           IN  Same(s, t) /\ t.remote = s.remote /\ Sendable(t, msg)
<1> DEFINE t == Check(s, WellFormed(msg), "null interests")
<1>1. /\ Same(s, t) /\ t.remote = s.remote
      /\ WellFormed(msg) \/ "null interests" \in t.fault
  BY CheckSame, Zenon DEF Faults
<1> QED BY <1>1, Zenon DEF Sendable

\* What may be sent before a harmless change may be sent after it.
LEMMA SendableSame ==
    ASSUME NEW s, NEW t, NEW msg, Sendable(s, msg), Same(s, t) PROVE Sendable(t, msg)
BY DEF Sendable, Same, WellFormed

\* The set of SUBs being sent plays no part in the invariants.
LEMMA SendingSame ==
    ASSUME NEW s \in NodeType, NEW m \in Nodes
    PROVE  Same(s, [s EXCEPT !.sending = @ \cup {m}])
BY DEF Same, NodeType, Linked

\* DPS_SendSubscription: the remote is told, or deleted when the send fails.
LEMMA SendSubscriptionGood ==
    ASSUME NEW s, NEW m \in Nodes, NEW e, GoodNode(s)
    PROVE  Preserves(s, SendSubscription(s, m, e))
<1> DEFINE r == s.remote[m]
           msg == SubMsg(s, m)
           c == Check(s, r.state # "MUTED", "sub to muted")
           t == Check(c, WellFormed(msg), "null interests")
           failed == [r EXCEPT !.sakPending = FALSE]
           n == IF r.sakPending THEN r.sakCounter ELSE 0
           sent == [r EXCEPT !.sakPending = TRUE, !.lastSubMsgType = "SUB", !.sakCounter = n]
           u == Put(t, m, sent)
           v == [u EXCEPT !.sending = @ \cup {m}]
           w == Put(t, m, failed)
<1>1. s \in NodeType /\ r \in RemoteType
  BY DEF GoodNode, Operations, NodeType
<1>2. msg \in Messages
  BY <1>1, MessageTypes
<1>3. SendSubscription(s, m, e) = IF m \in e.fail THEN DeleteRemoteNode(w, m) ELSE Emit(v, m, msg)
  BY <1>1 DEF SendSubscription, RemoteType
<1> HIDE DEF msg
<1>4. Same(s, c) /\ c.remote = s.remote
  BY <1>1, CheckSame DEF Faults
<1>5. c \in NodeType
  BY <1>4 DEF Same
<1> HIDE DEF c
<1>6. Same(c, t) /\ t.remote = c.remote /\ Sendable(t, msg)
  BY <1>5, CheckedSendable
<1> HIDE DEF t
<1>7. t \in NodeType /\ t.remote[m] = r
  BY <1>4, <1>6 DEF Same
<1>8. n \in Nat
  BY <1>1 DEF RemoteType
<1>9. /\ failed \in RemoteType /\ failed.completion = r.completion /\ failed.inRev = r.inRev
      /\ sent \in RemoteType /\ sent.completion = r.completion /\ sent.inRev = r.inRev
  BY <1>1, <1>8 DEF RemoteType
<1> HIDE DEF failed, sent, n, r
<1>10. Same(t, u) /\ Same(t, w)
  BY <1>7, <1>9, PutSame
<1> HIDE DEF u, w
<1>11. Same(s, u) /\ Same(s, w) /\ u \in NodeType
  <2>1. Same(s, t)
    BY <1>4, <1>6, SameTrans
  <2>2. Same(s, u) /\ Same(s, w)
    BY <1>10, <2>1, SameTrans
  <2> QED BY <2>2 DEF Same
<1>12. Same(u, v)
  BY <1>11, SendingSame
<1> HIDE DEF v
<1>13. Same(s, v) /\ Sendable(v, msg)
  BY <1>6, <1>10, <1>11, <1>12, SameTrans, SendableSame
<1>14. Preserves(s, v) /\ Preserves(s, w)
  BY <1>11, <1>13, SamePreserves
<1>15. GoodNode(v) /\ GoodNode(w)
  BY <1>14 DEF Preserves
<1>16. Preserves(v, Emit(v, m, msg)) /\ Preserves(w, DeleteRemoteNode(w, m))
  BY <1>2, <1>13, <1>15, EmitGood, DeleteGood
<1> QED BY <1>1, <1>3, <1>14, <1>16, PreservesTrans

\* DPS_SendSubscriptionAck.
LEMMA SendAckGood ==
    ASSUME NEW s, NEW m \in Nodes, NEW e, NEW collision \in BOOLEAN, GoodNode(s)
    PROVE  Preserves(s, SendSubscriptionAck(s, m, collision, e))
<1> DEFINE r == Unmuted(s.remote[m])
           req == ~collision /\ r.sendInterests
           msg == AckMsg(s, m, req)
           t == Check(s, WellFormed(msg), "null interests")
           failed == [r EXCEPT !.sakPending = FALSE]
           n == IF req /\ ~r.sakPending THEN 0 ELSE r.sakCounter
           last == IF req THEN "SAK" ELSE "none"
           sent == [r EXCEPT !.sakPending = req, !.lastSubMsgType = last, !.sakCounter = n]
           v == Put(t, m, sent)
           w == Put(t, m, failed)
<1>1. s \in NodeType /\ s.remote[m] \in RemoteType
  BY DEF GoodNode, Operations, NodeType
<1>2. r \in RemoteType /\ r.completion = s.remote[m].completion /\ r.inRev = s.remote[m].inRev
  BY <1>1, OutboundTypes
<1>3. SendSubscriptionAck(s, m, collision, e) =
        IF m \in e.fail THEN DeleteRemoteNode(w, m) ELSE Emit(v, m, msg)
  BY <1>2 DEF SendSubscriptionAck, RemoteType
<1> HIDE DEF r
<1>4. req \in BOOLEAN /\ n \in Nat /\ last \in {"none", "SUB", "SAK"}
  BY <1>2 DEF RemoteType
<1> HIDE DEF req, n, last
<1>5. msg \in Messages
  BY <1>1, <1>4, MessageTypes
<1> HIDE DEF msg
<1>6. Same(s, t) /\ t.remote = s.remote /\ Sendable(t, msg)
  BY <1>1, CheckedSendable
<1> HIDE DEF t
<1>7. t \in NodeType
  BY <1>6 DEF Same
<1>8. /\ failed \in RemoteType /\ failed.completion = r.completion /\ failed.inRev = r.inRev
      /\ sent \in RemoteType /\ sent.completion = r.completion /\ sent.inRev = r.inRev
  BY <1>2, <1>4 DEF RemoteType
<1> HIDE DEF failed, sent
<1>9. Same(t, v) /\ Same(t, w)
  BY <1>2, <1>6, <1>7, <1>8, PutSame
<1> HIDE DEF v, w
<1>10. Same(s, v) /\ Same(s, w) /\ Sendable(v, msg)
  BY <1>6, <1>9, SameTrans, SendableSame
<1>11. Preserves(s, v) /\ Preserves(s, w)
  BY <1>10, SamePreserves
<1>12. GoodNode(v) /\ GoodNode(w)
  BY <1>11 DEF Preserves
<1>13. Preserves(v, Emit(v, m, msg)) /\ Preserves(w, DeleteRemoteNode(w, m))
  BY <1>5, <1>10, <1>12, EmitGood, DeleteGood
<1> QED BY <1>1, <1>3, <1>11, <1>13, PreservesTrans

--------------------------------------------------------------------------------
(* Muting, unlinking, completing. *)

\* DPS_MuteRemoteNode moves the remote to the head of the list and keeps all others.
LEMMA MuteSame ==
    ASSUME NEW s \in NodeType, NEW m \in Linked(s) PROVE Same(s, MuteRemoteNode(s, m))
<1> DEFINE f == FreeOutbound(s.remote[m])
           r == [f EXCEPT !.state = "MUTED", !.sendInterests = FALSE]
           t == Put(s, m, r)
           u == RemoveRemoteNode(t, m)
           v == InsertRemoteNode(u, m)
<1>1. m \in Nodes
  BY LinkedNodes
<1>2. s.remote[m] \in RemoteType
  BY <1>1 DEF NodeType
<1>3. r \in RemoteType /\ r.completion = s.remote[m].completion /\ r.inRev = s.remote[m].inRev
  <2>1. f \in RemoteType /\ f.completion = s.remote[m].completion /\ f.inRev = s.remote[m].inRev
    BY <1>2, OutboundTypes
  <2> HIDE DEF f
  <2> QED BY <2>1 DEF RemoteType, RemoteStates
<1> HIDE DEF r
<1>4. Same(s, t)
  BY <1>1, <1>3, PutSame
<1>5. t \in NodeType /\ m \in Linked(t)
  BY <1>4 DEF Same
<1> HIDE DEF t
<1>6. u \in NodeType /\ u = [t EXCEPT !.remoteNodes = u.remoteNodes] /\ Linked(u) = Linked(t) \ {m}
  BY <1>5, RemoveNode
<1> HIDE DEF u
<1>7. v \in NodeType /\ v = [u EXCEPT !.remoteNodes = v.remoteNodes] /\ Linked(v) = Linked(u) \cup {m}
  BY <1>1, <1>6, InsertNode
<1> HIDE DEF v
<1>8. /\ v.owed = t.owed /\ v.requests = t.requests /\ v.out = t.out
      /\ v.walk = t.walk /\ v.fault = t.fault /\ v.remote = t.remote
  <2>1. /\ u.owed = t.owed /\ u.requests = t.requests /\ u.out = t.out
        /\ u.walk = t.walk /\ u.fault = t.fault /\ u.remote = t.remote
    BY <1>5, <1>6 DEF NodeType
  <2>2. /\ v.owed = u.owed /\ v.requests = u.requests /\ v.out = u.out
        /\ v.walk = u.walk /\ v.fault = u.fault /\ v.remote = u.remote
    BY <1>6, <1>7 DEF NodeType
  <2> QED BY <2>1, <2>2
<1>9. Same(t, v)
  BY <1>5, <1>6, <1>7, <1>8 DEF Same
<1>10. Same(s, v)
  BY <1>4, <1>9, SameTrans
<1> QED BY <1>10, SameRefl DEF MuteRemoteNode, t, u, v, r

\* DPS_UnmuteRemoteNode, whose SUB may fail and delete the remote, preserves the invariants.
LEMMA UnmuteGood ==
    ASSUME NEW s, NEW m \in Nodes, NEW e, e.fresh \in Nat, GoodNode(s)
    PROVE  Preserves(s, UnmuteRemoteNode(s, m, e))
<1> DEFINE f == ClearOutboundInterests(s.remote[m])
           r == [f EXCEPT !.state = "UNMUTING", !.sakCounter = 0]
           u == Put(s, m, r)
           t == [u EXCEPT !.meshId = e.fresh]
           v == UpdateOutboundInterests(t, m)
<1>1. s \in NodeType /\ s.remote[m] \in RemoteType
  BY DEF GoodNode, Operations, NodeType
<1>2. r \in RemoteType /\ r.completion = s.remote[m].completion /\ r.inRev = s.remote[m].inRev
  <2>1. f \in RemoteType /\ f.completion = s.remote[m].completion /\ f.inRev = s.remote[m].inRev
    BY <1>1, OutboundTypes
  <2> HIDE DEF f
  <2> QED BY <2>1 DEF RemoteType, RemoteStates
<1>3. UnmuteRemoteNode(s, m, e) = IF s.remote[m].state \notin {"MUTED", "UNMUTING"} THEN s
                                  ELSE SendSubscription(v, m, e)
  BY DEF UnmuteRemoteNode
<1> HIDE DEF r
<1>4. Same(s, u)
  BY <1>1, <1>2, PutSame
<1>5. u \in NodeType
  BY <1>4 DEF Same
<1> HIDE DEF u
<1>6. Same(u, t)
  BY <1>5 DEF Same, NodeType, Linked
<1>7. t \in NodeType
  BY <1>6 DEF Same
<1> HIDE DEF t
<1>8. Same(t, v)
  BY <1>7, UpdateOutboundSame
<1> HIDE DEF v
<1>9. Same(s, v)
  BY <1>4, <1>6, <1>8, SameTrans
<1>10. Preserves(s, v)
  BY <1>9, SamePreserves
<1>11. GoodNode(v)
  BY <1>10 DEF Preserves
<1>12. Preserves(s, SendSubscription(v, m, e))
  BY <1>1, <1>10, <1>11, SendSubscriptionGood, PreservesTrans
<1>13. Preserves(s, s)
  BY <1>1, SameRefl, SamePreserves
<1> QED BY <1>3, <1>12, <1>13

\* Unlink: an operation starts on each remote of ms, none of which had one.
LEMMA UnlinkGood ==
    ASSUME NEW s, NEW ms \in SUBSET Linked(s), GoodNode(s),
           \A m \in ms : s.remote[m].completion = "none"
    PROVE  Preserves(s, Unlink(s, ms))
<1> DEFINE o == [m \in Nodes |-> s.owed[m] + (IF m \in ms THEN 1 ELSE 0)]
           Unlinking(r) == [r EXCEPT !.linkRequested = FALSE, !.completion = "unlink",
                                     !.state = IF r.sakPending THEN @ ELSE "UNLINKING"]
           q == [m \in Nodes |-> IF m \in ms THEN Unlinking(s.remote[m]) ELSE s.remote[m]]
           t == [s EXCEPT !.owed = o, !.remote = q]
<1>1. /\ s \in NodeType /\ s.owed \in [Nodes -> Int] /\ s.remote \in [Nodes -> RemoteType]
      /\ s.requests \subseteq Nodes \cup {"shutdown"}
  BY DEF GoodNode, Operations, NodeType
<1>2. o \in [Nodes -> Int]
  BY <1>1
<1>0. \A r \in RemoteType : /\ Unlinking(r) \in RemoteType /\ Unlinking(r).inRev = r.inRev
                            /\ Unlinking(r).completion = "unlink"
  <2> SUFFICES ASSUME NEW r \in RemoteType
               PROVE  /\ Unlinking(r) \in RemoteType /\ Unlinking(r).inRev = r.inRev
                      /\ Unlinking(r).completion = "unlink"
    OBVIOUS
  <2> QED BY DEF RemoteType, RemoteStates
<1> HIDE DEF Unlinking
<1>3. \A m \in Nodes : q[m] \in RemoteType /\ q[m].inRev = s.remote[m].inRev
  BY <1>0, <1>1
<1>4. \A m \in Nodes : q[m].completion = IF m \in ms THEN "unlink" ELSE s.remote[m].completion
  BY <1>0, <1>1
<1>5. q \in [Nodes -> RemoteType]
  BY <1>3
<1>6. Unlink(s, ms) \in {t, UpdateSubs(t, "now")}
  BY DEF Unlink, Unlinking
<1>7. \A m \in Nodes : o[m] = s.owed[m] + (IF m \in ms THEN 1 ELSE 0)
  OBVIOUS
<1> HIDE DEF o, q
<1>8. /\ t \in NodeType /\ t.owed = o /\ t.remote = q /\ t.remoteNodes = s.remoteNodes
      /\ t.walk = s.walk /\ t.fault = s.fault /\ t.out = s.out /\ t.requests = s.requests
  BY <1>1, <1>2, <1>5 DEF NodeType
<1> HIDE DEF t
<1>9. Linked(t) = Linked(s)
  BY <1>8 DEF Linked
<1>10. Owed(t)
  <2>1. \A m \in Nodes : s.owed[m] = IF m \in Linked(s) /\ s.remote[m].completion # "none" THEN 1 ELSE 0
    BY DEF GoodNode, Operations, Owed
  <2>2. ASSUME NEW m \in Nodes, m \in ms PROVE t.owed[m] = 1 /\ t.remote[m].completion = "unlink"
    BY <1>4, <1>7, <1>8, <2>1, <2>2
  <2>3. ASSUME NEW m \in Nodes, m \notin ms
        PROVE  t.owed[m] = s.owed[m] /\ t.remote[m].completion = s.remote[m].completion
    BY <1>1, <1>4, <1>7, <1>8, <2>3
  <2> QED BY <1>9, <2>1, <2>2, <2>3 DEF Owed
<1>11. Queued(t)
  BY <1>1, <1>4, <1>8, <1>9 DEF GoodNode, Operations, Queued
<1>12. "null interests" \in t.fault \/ OutWellFormed(t)
  BY <1>8 DEF GoodNode, OutWellFormed
<1>13. Kept(s, t)
  <2>1. \A m \in Linked(t) : t.remote[m].inRev = s.remote[m].inRev /\ s.remote[m].inRev \in Nat
    BY <1>1, <1>3, <1>8, <1>9, LinkedNodes DEF RemoteType
  <2> QED BY <1>8, <1>9, <2>1 DEF Kept
<1>14. Preserves(s, t)
  BY <1>8, <1>10, <1>11, <1>12, <1>13 DEF Preserves, GoodNode, Operations
<1>15. Preserves(t, UpdateSubs(t, "now"))
  BY <1>8, <1>14, UpdateSubsSame, SamePreserves DEF Preserves
<1> QED BY <1>1, <1>6, <1>14, <1>15, PreservesTrans

\* What a handler that ends in RemoteCompletion leaves: a good node, or a
\* completion called twice.
Finishes(s, t) == /\ t \in NodeType /\ Kept(s, t)
                  /\ "called twice" \in t.fault \/ GoodNode(t)

\* A function that preserves the invariants finishes a handler properly.
LEMMA PreservesFinishes == ASSUME NEW s, NEW t, Preserves(s, t) PROVE Finishes(s, t)
BY DEF Preserves, Finishes, GoodNode, Operations

\* Two functions in a row that add no remote and forget no revision.
LEMMA KeptTrans ==
    ASSUME NEW s \in NodeType, NEW t \in NodeType, NEW u \in NodeType, Kept(s, t), Kept(t, u)
    PROVE  Kept(s, u)
<1>1. Linked(s) \subseteq Nodes /\ Linked(u) \subseteq Linked(t) /\ Linked(t) \subseteq Linked(s)
  BY LinkedNodes DEF Kept
<1>2. \A m \in Linked(u) : /\ s.remote[m].inRev \in Nat /\ t.remote[m].inRev \in Nat
                           /\ u.remote[m].inRev \in Nat
  BY <1>1 DEF NodeType, RemoteType
<1>3. \A m \in Linked(u) : u.remote[m].inRev >= s.remote[m].inRev
  BY <1>1, <1>2 DEF Kept
<1> QED BY <1>1, <1>3 DEF Kept

\* A handler that preserves the invariants and then finishes properly.
LEMMA FinishesTrans ==
    ASSUME NEW s \in NodeType, NEW t, NEW u, Preserves(s, t), Finishes(t, u)
    PROVE  Finishes(s, u)
<1>1. t \in NodeType /\ u \in NodeType
  BY DEF Preserves, GoodNode, Operations, Finishes
<1>2. Kept(s, u)
  BY <1>1, KeptTrans DEF Preserves, Finishes
<1> QED BY <1>1, <1>2 DEF Finishes

\* Clearing remote->completion leaves one callback to call.
LEMMA CompletingPut ==
    ASSUME NEW s, NEW m \in Linked(s), GoodNode(s), s.remote[m].completion # "none",
           NEW r \in RemoteType, r.completion = "none", r.inRev = s.remote[m].inRev
    PROVE  /\ Completing(Put(s, m, r), m) /\ Kept(s, Put(s, m, r))
           /\ Linked(Put(s, m, r)) = Linked(s) /\ Put(s, m, r).remote[m] = r
<1> DEFINE t == Put(s, m, r)
<1>0. s \in NodeType /\ s.remote \in [Nodes -> RemoteType] /\ s.requests \subseteq Nodes \cup {"shutdown"}
  BY DEF GoodNode, Operations, NodeType
<1>1. m \in Nodes /\ Linked(s) \subseteq Nodes
  BY <1>0, LinkedNodes
<1>2. /\ t \in NodeType /\ t.remoteNodes = s.remoteNodes /\ t.remote = [s.remote EXCEPT ![m] = r]
      /\ t.owed = s.owed /\ t.requests = s.requests /\ t.walk = s.walk
      /\ t.out = s.out /\ t.fault = s.fault
  BY <1>0, <1>1 DEF Put, NodeType
<1> HIDE DEF t
<1>3. Linked(t) = Linked(s)
  BY <1>2 DEF Linked
<1>4. t.remote[m] = r /\ \A k \in Nodes \ {m} : t.remote[k] = s.remote[k]
  BY <1>0, <1>1, <1>2
<1>5. t.owed[m] = 1
  BY <1>1, <1>2 DEF GoodNode, Operations, Owed
<1>6. \A k \in Nodes \ {m} : t.owed[k] =
            IF k \in Linked(t) /\ t.remote[k].completion # "none" THEN 1 ELSE 0
  BY <1>2, <1>3, <1>4, ZenonT(40) DEF GoodNode, Operations, Owed
<1>7. ASSUME NEW k \in t.requests \ {"shutdown", m}
      PROVE  k \in Linked(t) /\ t.remote[k].completion = "link"
  <2>1. k \in Linked(s) /\ s.remote[k].completion = "link"
    BY <1>2 DEF GoodNode, Operations, Queued
  <2>2. k \in Nodes \ {m}
    BY <1>1, <2>1
  <2> QED BY <1>3, <1>4, <2>1, <2>2
<1>8. "null interests" \in t.fault \/ OutWellFormed(t)
  BY <1>2 DEF GoodNode, OutWellFormed
<1>9. Completing(t, m)
  BY <1>2, <1>4, <1>5, <1>6, <1>7, <1>8 DEF Completing
<1>10. \A k \in Nodes : t.remote[k].inRev = s.remote[k].inRev /\ s.remote[k].inRev \in Nat
  BY <1>0, <1>4 DEF RemoteType
<1>11. Kept(s, t)
  BY <1>1, <1>2, <1>3, <1>10 DEF Kept
<1> QED BY <1>3, <1>4, <1>9, <1>11 DEF t

\* A link operation completes: one callback, and during a shutdown an unlink
\* operation takes its place.
LEMMA LinkCompletionGood ==
    ASSUME NEW s, NEW m \in Linked(s), GoodNode(s), s.remote[m].completion = "link"
    PROVE  Preserves(s, LinkCompletion(s, m))
<1> DEFINE r == s.remote[m]
           st == IF r.state = "LINKING" THEN "ACTIVE" ELSE r.state
           q == [r EXCEPT !.completion = "none", !.state = st]
           u == Put(s, m, q)
           t == CallBack(u, m)
<1>0. s \in NodeType
  BY DEF GoodNode, Operations
<1>1. m \in Nodes /\ r \in RemoteType
  BY <1>0, LinkedNodes DEF NodeType
<1>2. st \in RemoteStates
  BY <1>1 DEF RemoteType, RemoteStates
<1>3. LinkCompletion(s, m) = IF s.onShutdown THEN Unlink(t, {m}) ELSE t
  BY <1>1 DEF LinkCompletion, RemoteType
<1> HIDE DEF st
<1>4. q \in RemoteType /\ q.completion = "none" /\ q.inRev = r.inRev
  BY <1>1, <1>2 DEF RemoteType
<1> HIDE DEF q
<1>5. /\ Completing(u, m) /\ Kept(s, u)
      /\ Linked(u) = Linked(s) /\ u.remote[m] = q
  BY <1>4, CompletingPut
<1>6. u \in NodeType
  BY <1>5 DEF Completing
<1> HIDE DEF u
<1>7. GoodNode(t) /\ Kept(u, t)
  BY <1>1, <1>5, CallBackGood
<1>8. Linked(t) = Linked(s) /\ t.remote[m].completion = "none" /\ t \in NodeType
  BY <1>1, <1>4, <1>5, <1>6, CallBackFrame
<1> HIDE DEF t
<1>9. Preserves(s, t)
  BY <1>0, <1>5, <1>6, <1>7, <1>8, KeptTrans DEF Preserves
<1>10. Preserves(t, Unlink(t, {m}))
  <2>1. {m} \in SUBSET Linked(t) /\ \A k \in {m} : t.remote[k].completion = "none"
    BY <1>8
  <2> QED BY <1>7, <2>1, UnlinkGood
<1> QED BY <1>0, <1>3, <1>9, <1>10, PreservesTrans

\* An unlink operation completes, or the unlink that waited is sent.
LEMMA UnlinkCompletionFinishes ==
    ASSUME NEW s, NEW m \in Linked(s), NEW e, GoodNode(s), s.remote[m].completion = "unlink"
    PROVE  Finishes(s, UnlinkCompletion(s, m, e))
<1> DEFINE r == s.remote[m]
<1>0. s \in NodeType
  BY DEF GoodNode, Operations
<1>1. m \in Nodes /\ r \in RemoteType
  BY <1>0, LinkedNodes DEF NodeType
<1>2. CASE r.state # "UNLINKING"
  <2> DEFINE q == [r EXCEPT !.state = "UNLINKING"]
             u == Put(s, m, q)
             t == UpdateOutboundInterests(u, m)
             v == SendSubscription(t, m, e)
             w == CallBack(v, m)
  <2>1. UnlinkCompletion(s, m, e) = IF m \in e.fail THEN Fault(w, "called twice") ELSE v
    BY <1>2 DEF UnlinkCompletion, CalledTwice, Put
  <2>2. q \in RemoteType /\ q.completion = r.completion /\ q.inRev = r.inRev
    BY <1>1 DEF RemoteType, RemoteStates
  <2> HIDE DEF q
  <2>3. Same(s, u)
    BY <1>0, <1>1, <2>2, PutSame
  <2>4. u \in NodeType
    BY <2>3 DEF Same
  <2> HIDE DEF u
  <2>5. Same(s, t)
    BY <1>1, <2>3, <2>4, UpdateOutboundSame, SameTrans
  <2> HIDE DEF t
  <2>6. Preserves(s, t)
    BY <2>5, SamePreserves
  <2>7. Preserves(t, v)
    BY <1>1, <2>6, SendSubscriptionGood DEF Preserves
  <2> HIDE DEF v
  <2>8. Preserves(s, v)
    BY <1>0, <2>6, <2>7, PreservesTrans
  <2>9. v \in NodeType
    BY <2>8 DEF Preserves, GoodNode, Operations
  <2>10. /\ w \in NodeType /\ Linked(w) = Linked(v) /\ w.remote = v.remote
         /\ w.walk = v.walk /\ w.fault = v.fault
    BY <1>1, <2>9, CallBackFrame
  <2> HIDE DEF w
  <2>11. LET x == Fault(w, "called twice")
         IN  /\ x \in NodeType /\ Linked(x) = Linked(w) /\ x.remote = w.remote
             /\ x.walk = w.walk /\ w.fault \subseteq x.fault /\ "called twice" \in x.fault
    BY <2>10, ZenonT(40) DEF Fault, NodeType, Faults, Linked
  <2>12. Finishes(s, Fault(w, "called twice"))
    BY <2>8, <2>10, <2>11 DEF Finishes, Preserves, Kept
  <2> QED BY <2>1, <2>8, <2>12, PreservesFinishes
<1>3. CASE r.state = "UNLINKING"
  <2> DEFINE q == [r EXCEPT !.completion = "none"]
             u == Put(s, m, q)
             v == Dropped(u, m)
             t == CallBack(v, m)
  <2>1. q \in RemoteType /\ q.completion = "none" /\ q.inRev = r.inRev
    BY <1>1 DEF RemoteType
  <2>2. /\ Completing(u, m) /\ Kept(s, u)
        /\ Linked(u) = Linked(s) /\ u.remote[m] = q
    <3> HIDE DEF q
    <3>1. r.completion # "none"
      OBVIOUS
    <3> QED BY <2>1, <3>1, CompletingPut
  <2>3. DeleteRemoteNode(u, m) = v
    BY <2>1, <2>2 DEF DeleteRemoteNode, CompleteMissing, Dropped
  <2>4. UnlinkCompletion(s, m, e) = OnShutdown(t)
    BY <1>3, <2>3 DEF UnlinkCompletion, Put
  <2>5. u \in NodeType
    BY <2>2 DEF Completing
  <2> HIDE DEF q, u
  <2>6. /\ v \in NodeType /\ Linked(v) = Linked(u) \ {m} /\ Kept(u, v)
        /\ v.owed = u.owed /\ v.requests = u.requests /\ v.out = u.out
        /\ \A k \in Nodes \ {m} : v.remote[k].completion = u.remote[k].completion
    BY <2>2, <2>5, DroppedFrame
  <2> HIDE DEF v
  <2>7. Completing(v, m)
    <3>1. u.requests \subseteq Nodes \cup {"shutdown"}
      BY <2>5 DEF NodeType
    <3>2. ASSUME NEW k \in Nodes \ {m}
          PROVE  v.owed[k] = IF k \in Linked(v) /\ v.remote[k].completion # "none" THEN 1 ELSE 0
      <4>1. u.owed[k] = IF k \in Linked(u) /\ u.remote[k].completion # "none" THEN 1 ELSE 0
        BY <2>2 DEF Completing
      <4> QED BY <2>6, <4>1
    <3>3. ASSUME NEW k \in v.requests \ {"shutdown", m}
          PROVE  k \in Linked(v) /\ v.remote[k].completion = "link"
      <4>1. k \in Linked(u) /\ u.remote[k].completion = "link"
        BY <2>2, <2>6 DEF Completing
      <4>2. k \in Nodes \ {m}
        BY <2>6, <3>1
      <4> QED BY <2>6, <4>1, <4>2
    <3>4. "null interests" \in v.fault \/ OutWellFormed(v)
      BY <2>2, <2>6 DEF Completing, OutWellFormed, Kept
    <3>5. v.owed[m] = 1
      BY <2>2, <2>6 DEF Completing
    <3> QED BY <2>6, <3>2, <3>3, <3>4, <3>5 DEF Completing
  <2>8. GoodNode(t) /\ Kept(v, t) /\ t \in NodeType
    BY <1>1, <2>7, CallBackGood DEF GoodNode, Operations
  <2> HIDE DEF t
  <2>9. Preserves(s, t)
    BY <1>0, <2>2, <2>5, <2>6, <2>8, KeptTrans DEF Preserves
  <2>10. Preserves(t, OnShutdown(t))
    BY <2>8, OnShutdownSame, SamePreserves
  <2>11. Preserves(s, OnShutdown(t))
    BY <1>0, <2>9, <2>10, PreservesTrans
  <2> QED BY <2>4, <2>9, <2>11, PreservesFinishes
<1> QED BY <1>2, <1>3

\* RemoteCompletion, for whichever operation is in progress.
LEMMA RemoteCompletionFinishes ==
    ASSUME NEW s, NEW m \in Linked(s), NEW e, GoodNode(s)
    PROVE  Finishes(s, RemoteCompletion(s, m, e))
<1>1. s \in NodeType
  BY DEF GoodNode, Operations
<1>2. Finishes(s, s)
  BY <1>1, SameRefl, SamePreserves, PreservesFinishes
<1>3. s.remote[m].completion = "link" => Finishes(s, LinkCompletion(s, m))
  BY LinkCompletionGood, PreservesFinishes
<1>4. s.remote[m].completion = "unlink" => Finishes(s, UnlinkCompletion(s, m, e))
  BY UnlinkCompletionFinishes
<1> QED BY <1>2, <1>3, <1>4 DEF RemoteCompletion

--------------------------------------------------------------------------------
(* Receiving. *)

\* One field of the remote changes, neither completion nor revision.
LEMMA FieldSame ==
    ASSUME NEW s \in NodeType, NEW m \in Nodes, NEW b \in BOOLEAN
    PROVE  /\ Same(s, [s EXCEPT !.remote[m].sendInterests = b])
           /\ Same(s, [s EXCEPT !.remote[m].linkRequested = b])
           /\ Same(s, [s EXCEPT !.remote[m].lastSubMsgType = "none"])
<1> DEFINE r == s.remote[m]
           r1 == [r EXCEPT !.sendInterests = b]
           r2 == [r EXCEPT !.linkRequested = b]
           r3 == [r EXCEPT !.lastSubMsgType = "none"]
<1>1. r \in RemoteType
  BY DEF NodeType
<1>2. /\ r1 \in RemoteType /\ r1.completion = r.completion /\ r1.inRev = r.inRev
      /\ r2 \in RemoteType /\ r2.completion = r.completion /\ r2.inRev = r.inRev
      /\ r3 \in RemoteType /\ r3.completion = r.completion /\ r3.inRev = r.inRev
  BY <1>1 DEF RemoteType
<1> HIDE DEF r1, r2, r3
<1>3. Same(s, Put(s, m, r1)) /\ Same(s, Put(s, m, r2)) /\ Same(s, Put(s, m, r3))
  BY <1>2, PutSame
<1> QED BY <1>3 DEF Put, r1, r2, r3

\* UpdateInboundInterests keeps the list, the operations and the revisions.
LEMMA UpdateInboundSame ==
    ASSUME NEW s \in NodeType, NEW m \in Nodes, NEW msg \in Messages,
           msg.int # NULL, msg.needs # NULL
    PROVE  Same(s, UpdateInboundInterests(s, m, msg))
<1> DEFINE old == s.remote[m].inInt
           int == IF msg.delta /\ old # NULL THEN Xor(msg.int, old) ELSE msg.int
           t == ClearInboundInterests(s, m)
           r == [t.remote[m] EXCEPT !.inInt = int, !.inNeeds = msg.needs]
           u == Put(t, m, r)
           v == [u EXCEPT !.interests = CVAdd(@, int), !.needs = CVAdd(@, msg.needs)]
<1>1. old \in Vector(Bits) /\ msg.int \in SUBSET Bits /\ msg.needs \in SUBSET FHBits
  BY DEF NodeType, RemoteType, Messages, Vector
<1>2. int \in SUBSET Bits
  BY <1>1 DEF Vector, Xor
<1>3. UpdateInboundInterests(s, m, msg) = IF int = {} THEN t ELSE v
  BY DEF UpdateInboundInterests
<1> HIDE DEF int
<1>4. Same(s, t)
  BY ClearInboundSame
<1> HIDE DEF t
<1>5. t \in NodeType /\ t.remote[m] \in RemoteType
  BY <1>4 DEF Same, NodeType
<1>6. r \in RemoteType /\ r.completion = t.remote[m].completion /\ r.inRev = t.remote[m].inRev
  BY <1>1, <1>2, <1>5 DEF RemoteType, Vector
<1> HIDE DEF r
<1>7. Same(t, u)
  BY <1>5, <1>6, PutSame
<1>8. u \in NodeType /\ u.interests \in CountVector(Bits) /\ u.needs \in CountVector(FHBits)
  BY <1>7 DEF Same, NodeType
<1> HIDE DEF u
<1>9. CVAdd(u.interests, int) \in CountVector(Bits) /\ CVAdd(u.needs, msg.needs) \in CountVector(FHBits)
  BY <1>8, CountVectors
<1>10. Same(u, [u EXCEPT !.interests = CVAdd(u.interests, int), !.needs = CVAdd(u.needs, msg.needs)])
  BY <1>8, <1>9, CountsSame
<1>11. v = [u EXCEPT !.interests = CVAdd(u.interests, int), !.needs = CVAdd(u.needs, msg.needs)]
  BY <1>8 DEF NodeType
<1> HIDE DEF v
<1>12. Same(s, v)
  BY <1>4, <1>7, <1>10, <1>11, SameTrans
<1> QED BY <1>3, <1>4, <1>12

\* The remote's structure is replaced, its operation is not.
LEMMA PutGood ==
    ASSUME NEW s, NEW m \in Nodes, NEW r \in RemoteType, GoodNode(s),
           r.completion = s.remote[m].completion
    PROVE  LET t == Put(s, m, r)
           IN  /\ GoodNode(t) /\ Linked(t) = Linked(s) /\ t.walk = s.walk /\ t.fault = s.fault
               /\ t.remote[m] = r /\ \A k \in Nodes \ {m} : t.remote[k] = s.remote[k]
<1> DEFINE t == Put(s, m, r)
<1>0. s \in NodeType /\ s.remote \in [Nodes -> RemoteType] /\ s.requests \subseteq Nodes \cup {"shutdown"}
  BY DEF GoodNode, Operations, NodeType
<1>1. /\ t \in NodeType /\ t.remoteNodes = s.remoteNodes /\ t.remote = [s.remote EXCEPT ![m] = r]
      /\ t.owed = s.owed /\ t.requests = s.requests /\ t.walk = s.walk
      /\ t.out = s.out /\ t.fault = s.fault
  BY <1>0 DEF Put, NodeType
<1> HIDE DEF t
<1>2. Linked(t) = Linked(s)
  BY <1>1 DEF Linked
<1>3. t.remote[m] = r /\ \A k \in Nodes \ {m} : t.remote[k] = s.remote[k]
  BY <1>0, <1>1
<1>4. \A k \in Nodes : t.remote[k].completion = s.remote[k].completion
  BY <1>3
<1>5. Owed(t)
  BY <1>1, <1>2, <1>4 DEF GoodNode, Operations, Owed
<1>6. Queued(t)
  <2> SUFFICES ASSUME NEW k \in t.requests \ {"shutdown"}
               PROVE  k \in Linked(t) /\ t.remote[k].completion = "link"
    BY DEF Queued
  <2>1. k \in Linked(s) /\ s.remote[k].completion = "link" /\ k \in Nodes
    BY <1>0, <1>1 DEF GoodNode, Operations, Queued
  <2> QED BY <1>2, <1>4, <2>1
<1>7. "null interests" \in t.fault \/ OutWellFormed(t)
  BY <1>1 DEF GoodNode, OutWellFormed
<1>8. GoodNode(t)
  BY <1>1, <1>5, <1>6, <1>7 DEF GoodNode, Operations
<1> QED BY <1>1, <1>2, <1>3, <1>8 DEF t

\* A good node is well typed.
LEMMA GoodType == ASSUME NEW s, GoodNode(s) PROVE s \in NodeType
BY DEF GoodNode, Operations

\* A harmless change keeps a node good.
LEMMA SameGood == ASSUME NEW s, NEW t, GoodNode(s), Same(s, t) PROVE GoodNode(t)
BY SamePreserves DEF Preserves

\* What the environment decides during a handler.
Choice(e) == e.fresh \in Nat

\* DecodeSubscription of a message that is not stale.
LEMMA AcceptGood ==
    ASSUME NEW s, NEW m \in Linked(s), NEW msg \in Messages, NEW collision \in BOOLEAN, NEW e,
           GoodNode(s), Choice(e), ~ Stale(s, m, msg),
           msg.sakReq => msg.int # NULL /\ msg.needs # NULL
    PROVE  Preserves(s, Accept(s, m, msg, collision, e))
<1> DEFINE dup == s.remote[m].inRev = msg.rev
           s1 == [s EXCEPT !.remote[m].inRev = msg.rev]
           loop == /\ s1.remote[m].state \notin {"MUTED", "UNMUTING"}
                   /\ msg.mute \/ MeshHasLoop(s1, m, msg.mesh)
           s2 == IF msg.unmute THEN UnmuteRemoteNode(s1, m, e)
                 ELSE IF loop THEN MuteRemoteNode(s1, m) ELSE s1
           s3 == IF msg.sakReq /\ ~dup THEN UpdateInboundInterests(s2, m, msg) ELSE s2
           u == UpdateOutboundInterests(Check(s3, ~dup, "duplicate from new"), m)
           s4 == IF msg.sakReq /\ s3.remote[m].state = "NEW"
                   THEN [u EXCEPT !.remote[m].sendInterests = Changes(s3, m)]
                   ELSE s3
           s5 == IF msg.sakReq THEN SendSubscriptionAck(s4, m, collision, e)
                 ELSE [s4 EXCEPT !.remote[m].lastSubMsgType = "none"]
           s6 == Put(s5, m, [s5.remote[m] EXCEPT !.inMesh = msg.mesh,
                                                 !.state = IF @ = "NEW" THEN "ACTIVE" ELSE @])
<1>0. s \in NodeType
  BY GoodType
<1>1. m \in Nodes /\ s.remote[m] \in RemoteType /\ msg.rev \in Nat /\ msg.mesh \in Nat
  BY <1>0, LinkedNodes DEF NodeType, Messages
<1>2. Accept(s, m, msg, collision, e) = IF m \notin Linked(s2) THEN Fault(s2, "freed remote")
                                        ELSE IF m \notin Linked(s5) THEN Fault(s5, "freed remote")
                                        ELSE s6
  <2>1. MuteOrUnmute(s1, m, msg, e) = s2
    BY DEF MuteOrUnmute
  <2>2. Learn(s2, m, msg, dup) = s3
    BY DEF Learn
  <2>3. Answer(s3, m, msg, collision, dup, e) = s5
    <3> HIDE DEF s3, dup
    <3>1. CASE msg.sakReq
      <4>1. FirstSak(s3, m, dup) = s4
        BY <3>1 DEF FirstSak
      <4> HIDE DEF s4
      <4> QED BY <3>1, <4>1 DEF Answer
    <3>2. CASE ~ msg.sakReq
      BY <3>2 DEF Answer
    <3> QED BY <3>1, <3>2
  <2>4. Accept(s, m, msg, collision, e) = Exchange(s2, m, msg, collision, dup, e)
    BY <2>1 DEF Accept
  <2> HIDE DEF s2, dup
  <2>5. Exchange(s2, m, msg, collision, dup, e) = IF m \notin Linked(s2) THEN Fault(s2, "freed remote")
                                                  ELSE Conclude(s5, m, msg)
    BY <2>2, <2>3 DEF Exchange
  <2> HIDE DEF s5
  <2> QED BY <2>4, <2>5 DEF Conclude
<1>3. Preserves(s, s1) /\ Linked(s1) = Linked(s)
  <2> DEFINE r == [s.remote[m] EXCEPT !.inRev = msg.rev]
  <2>1. r \in RemoteType /\ r.completion = s.remote[m].completion /\ r.inRev = msg.rev
    BY <1>1 DEF RemoteType
  <2>2. s1 = Put(s, m, r)
    BY DEF Put
  <2> HIDE DEF r, s1
  <2>3. /\ GoodNode(s1) /\ Linked(s1) = Linked(s) /\ s1.walk = s.walk /\ s1.fault = s.fault
        /\ s1.remote[m] = r /\ \A k \in Nodes \ {m} : s1.remote[k] = s.remote[k]
    BY <1>1, <2>1, <2>2, PutGood
  <2>4. \A k \in Nodes : s.remote[k].inRev \in Nat
    BY <1>0 DEF NodeType, RemoteType
  <2>5. s1.remote[m].inRev >= s.remote[m].inRev
    BY <1>1, <2>1, <2>3, <2>4 DEF Stale
  <2>6. \A k \in Nodes : s1.remote[k].inRev >= s.remote[k].inRev
    BY <2>3, <2>4, <2>5
  <2>7. Linked(s) \subseteq Nodes
    BY <1>0, LinkedNodes
  <2> QED BY <2>3, <2>6, <2>7 DEF Preserves, Kept
<1>4. GoodNode(s1) /\ s1 \in NodeType
  BY <1>3, GoodType DEF Preserves
<1> HIDE DEF s1
<1>5. Preserves(s1, s2)
  <2>1. Preserves(s1, UnmuteRemoteNode(s1, m, e))
    BY <1>1, <1>4, UnmuteGood DEF Choice
  <2>2. Preserves(s1, MuteRemoteNode(s1, m))
    BY <1>3, <1>4, MuteSame, SamePreserves
  <2>3. Preserves(s1, s1)
    BY <1>4, SameRefl, SamePreserves
  <2> HIDE DEF loop
  <2> QED BY <2>1, <2>2, <2>3
<1>6. GoodNode(s2) /\ s2 \in NodeType
  BY <1>5, GoodType DEF Preserves
<1> HIDE DEF s2
<1>7. Same(s2, s3)
  <2>1. CASE msg.sakReq /\ ~dup
    <3>1. Same(s2, UpdateInboundInterests(s2, m, msg))
      BY <1>1, <1>6, <2>1, UpdateInboundSame
    <3> QED BY <2>1, <3>1
  <2>2. CASE ~ (msg.sakReq /\ ~dup)
    BY <1>6, <2>2, SameRefl
  <2> QED BY <2>1, <2>2
<1>8. GoodNode(s3) /\ s3 \in NodeType
  BY <1>6, <1>7, SameGood, GoodType
<1> HIDE DEF s3
<1>9. Same(s3, s4)
  <2> DEFINE c == Check(s3, ~dup, "duplicate from new")
             b == Changes(s3, m)
  <2>1. Same(s3, c)
    BY <1>8, CheckSame DEF Faults
  <2>2. c \in NodeType
    BY <2>1 DEF Same
  <2> HIDE DEF c
  <2>3. Same(c, UpdateOutboundInterests(c, m))
    BY <1>1, <2>2, UpdateOutboundSame
  <2>4. Same(s3, u)
    BY <2>1, <2>3, SameTrans DEF c
  <2> HIDE DEF u
  <2>5. u \in NodeType
    BY <2>4 DEF Same
  <2>6. b \in BOOLEAN
    BY DEF Changes
  <2> HIDE DEF b
  <2>7. Same(u, [u EXCEPT !.remote[m].sendInterests = b])
    BY <1>1, <2>5, <2>6, FieldSame
  <2>8. Same(s3, [u EXCEPT !.remote[m].sendInterests = b])
    BY <2>4, <2>7, SameTrans
  <2>9. Same(s3, s3)
    BY <1>8, SameRefl
  <2> QED BY <2>8, <2>9 DEF b
<1>10. GoodNode(s4) /\ s4 \in NodeType
  BY <1>8, <1>9, SameGood, GoodType
<1> HIDE DEF s4
<1>11. Preserves(s4, s5)
  <2>1. Preserves(s4, SendSubscriptionAck(s4, m, collision, e))
    BY <1>1, <1>10, SendAckGood
  <2>2. Preserves(s4, [s4 EXCEPT !.remote[m].lastSubMsgType = "none"])
    BY <1>1, <1>10, FieldSame, SamePreserves
  <2> QED BY <2>1, <2>2
<1>12. GoodNode(s5) /\ s5 \in NodeType
  BY <1>11, GoodType DEF Preserves
<1> HIDE DEF s5
<1>13. Same(s5, s6)
  <2> DEFINE r == s5.remote[m]
             st == IF r.state = "NEW" THEN "ACTIVE" ELSE r.state
             q == [r EXCEPT !.inMesh = msg.mesh, !.state = st]
  <2>1. r \in RemoteType
    BY <1>1, <1>12 DEF NodeType
  <2>2. st \in RemoteStates
    BY <2>1 DEF RemoteType, RemoteStates
  <2>3. s6 = Put(s5, m, q)
    BY <2>1 DEF RemoteType
  <2> HIDE DEF st
  <2>4. q \in RemoteType /\ q.completion = r.completion /\ q.inRev = r.inRev
    BY <1>1, <2>1, <2>2 DEF RemoteType
  <2> HIDE DEF q, s6
  <2> QED BY <1>1, <1>12, <2>3, <2>4, PutSame
<1> HIDE DEF s6
<1>14. Preserves(s, s2)
  BY <1>0, <1>3, <1>5, PreservesTrans
<1>15. Preserves(s, s5)
  <2>1. Preserves(s2, s4)
    BY <1>6, <1>7, <1>9, SameTrans, SamePreserves
  <2>2. Preserves(s, s4)
    BY <1>0, <1>14, <2>1, PreservesTrans
  <2> QED BY <1>0, <1>11, <2>2, PreservesTrans
<1>16. Preserves(s, s6)
  BY <1>0, <1>12, <1>13, <1>15, SamePreserves, PreservesTrans
<1>17. ASSUME NEW x, Preserves(s, x) PROVE Preserves(s, Fault(x, "freed remote"))
  <2>1. GoodNode(x) /\ x \in NodeType
    BY <1>17, GoodType DEF Preserves
  <2>2. Same(x, Fault(x, "freed remote"))
    <3>1. Same(x, Check(x, FALSE, "freed remote"))
      BY <2>1, CheckSame DEF Faults
    <3> QED BY <3>1 DEF Check
  <2> QED BY <1>0, <1>17, <2>1, <2>2, SamePreserves, PreservesTrans
<1> QED BY <1>2, <1>14, <1>15, <1>16, <1>17

\* UnlinkRemote: the remote is acknowledged and deleted.
LEMMA ReceiveUnlinkGood ==
    ASSUME NEW s, NEW m \in Linked(s), NEW msg \in Messages, NEW e, GoodNode(s)
    PROVE  Preserves(s, ReceiveUnlink(s, m, msg, e))
<1> DEFINE r == [s.remote[m] EXCEPT !.sendInterests = FALSE, !.inRev = msg.rev]
           p == Put(s, m, r)
           t == SendSubscriptionAck(p, m, FALSE, e)
           c == Check(t, m \notin e.fail, "freed remote")
           u == [c EXCEPT !.remote[m].linkRequested = FALSE]
           d == DeleteRemoteNode(u, m)
           f == UpdateSubs(d, "now")
<1>0. s \in NodeType /\ Linked(s) \subseteq Nodes
  BY GoodType, LinkedNodes
<1>1. m \in Nodes /\ s.remote[m] \in RemoteType /\ msg.rev \in Nat
  BY <1>0 DEF NodeType, Messages
<1>2. r \in RemoteType /\ r.completion = s.remote[m].completion
  BY <1>1 DEF RemoteType
<1>3. ReceiveUnlink(s, m, msg, e) = f
  BY DEF ReceiveUnlink
<1> HIDE DEF r
<1>4. /\ GoodNode(p) /\ Linked(p) = Linked(s) /\ p.walk = s.walk /\ p.fault = s.fault
      /\ \A k \in Nodes \ {m} : p.remote[k] = s.remote[k]
  BY <1>1, <1>2, PutGood
<1> HIDE DEF p
<1>5. Preserves(p, t)
  BY <1>1, <1>4, SendAckGood
<1> HIDE DEF t
<1>6. GoodNode(t) /\ t \in NodeType
  BY <1>5, GoodType DEF Preserves
<1>7. Same(t, c)
  BY <1>6, CheckSame DEF Faults
<1>8. c \in NodeType
  BY <1>7 DEF Same
<1> HIDE DEF c
<1>9. Same(t, u)
  BY <1>1, <1>7, <1>8, FieldSame, SameTrans
<1> HIDE DEF u
<1>10. Preserves(t, u) /\ GoodNode(u)
  BY <1>6, <1>9, SamePreserves DEF Preserves
<1>11. Preserves(u, d) /\ Linked(d) = Linked(u) \ {m}
  BY <1>1, <1>10, DeleteGood
<1> HIDE DEF d
<1>12. GoodNode(d) /\ d \in NodeType
  BY <1>11, GoodType DEF Preserves
<1>13. Same(d, f)
  BY <1>12, UpdateSubsSame
<1> HIDE DEF f
<1>14. Preserves(p, f) /\ Linked(f) \subseteq Linked(p) \ {m}
  <2>1. Preserves(d, f)
    BY <1>12, <1>13, SamePreserves
  <2>2. p \in NodeType
    BY <1>4, GoodType
  <2>3. Preserves(p, u)
    BY <1>5, <1>10, <2>2, PreservesTrans
  <2>4. Preserves(p, d)
    BY <1>11, <2>2, <2>3, PreservesTrans
  <2>5. Preserves(p, f)
    BY <2>1, <2>2, <2>4, PreservesTrans
  <2>6. Linked(f) = Linked(d) /\ Linked(u) \subseteq Linked(p)
    BY <1>13, <2>3 DEF Same, Preserves, Kept
  <2> QED BY <1>11, <2>5, <2>6
<1>15. \A k \in Linked(f) : f.remote[k].inRev >= s.remote[k].inRev
  <2> SUFFICES ASSUME NEW k \in Linked(f) PROVE f.remote[k].inRev >= s.remote[k].inRev
    OBVIOUS
  <2>1. f.remote[k].inRev >= p.remote[k].inRev
    BY <1>14 DEF Preserves, Kept
  <2>2. k \in Nodes \ {m}
    BY <1>0, <1>4, <1>14
  <2> QED BY <1>4, <2>1, <2>2
<1>16. Kept(s, f)
  BY <1>4, <1>14, <1>15 DEF Preserves, Kept
<1> QED BY <1>3, <1>14, <1>16 DEF Preserves

\* The end of DPS_DecodeSubscription.
LEMMA FinishSubFinishes ==
    ASSUME NEW s, NEW m, NEW e, GoodNode(s) PROVE Finishes(s, FinishSub(s, m, e))
<1>1. Finishes(s, s)
  BY GoodType, SameRefl, SamePreserves, PreservesFinishes
<1>2. m \in Linked(s) => Finishes(s, RemoteCompletion(s, m, e))
  BY RemoteCompletionFinishes
<1> QED BY <1>1, <1>2 DEF FinishSub

\* What a message handler leaves.  It may add a remote, which Kept excludes.
Handled(s, t) == /\ t \in NodeType /\ t.walk = s.walk /\ s.fault \subseteq t.fault
                 /\ \A k \in Linked(s) \cap Linked(t) : t.remote[k].inRev >= s.remote[k].inRev
                 /\ "called twice" \in t.fault \/ GoodNode(t)

\* A handler that adds no remote.
LEMMA FinishesHandled == ASSUME NEW s, NEW t, Finishes(s, t) PROVE Handled(s, t)
BY DEF Finishes, Handled, Kept

\* DPS_AddRemoteNode for a peer that was not known.
LEMMA AddRemoteGood ==
    ASSUME NEW s, NEW m \in Nodes \ Linked(s), GoodNode(s),
           NEW r \in RemoteType, r.completion = "none"
    PROVE  LET t == InsertRemoteNode(Put(s, m, r), m)
           IN  /\ GoodNode(t) /\ Linked(t) = Linked(s) \cup {m}
               /\ t.walk = s.walk /\ t.fault = s.fault /\ t.remote[m] = r
               /\ \A k \in Nodes \ {m} : t.remote[k] = s.remote[k]
<1> DEFINE p == Put(s, m, r)
           t == InsertRemoteNode(p, m)
<1>0. s \in NodeType /\ s.remote \in [Nodes -> RemoteType] /\ s.requests \subseteq Nodes \cup {"shutdown"}
  BY DEF GoodNode, Operations, NodeType
<1>1. /\ p \in NodeType /\ p.remoteNodes = s.remoteNodes /\ p.remote = [s.remote EXCEPT ![m] = r]
      /\ p.owed = s.owed /\ p.requests = s.requests /\ p.walk = s.walk
      /\ p.out = s.out /\ p.fault = s.fault
  BY <1>0 DEF Put, NodeType
<1> HIDE DEF p
<1>2. Linked(p) = Linked(s)
  BY <1>1 DEF Linked
<1>3. t \in NodeType /\ t = [p EXCEPT !.remoteNodes = t.remoteNodes] /\ Linked(t) = Linked(s) \cup {m}
  BY <1>1, <1>2, InsertNode
<1> HIDE DEF t
<1>4. /\ t.remote = p.remote /\ t.owed = p.owed /\ t.requests = p.requests /\ t.walk = p.walk
      /\ t.out = p.out /\ t.fault = p.fault
  BY <1>1, <1>3 DEF NodeType
<1>5. t.remote[m] = r /\ \A k \in Nodes \ {m} : t.remote[k] = s.remote[k]
  BY <1>0, <1>1, <1>4
<1>6. Owed(t)
  <2> SUFFICES ASSUME NEW k \in Nodes
               PROVE  t.owed[k] = IF k \in Linked(t) /\ t.remote[k].completion # "none" THEN 1 ELSE 0
    BY DEF Owed
  <2>1. s.owed[k] = IF k \in Linked(s) /\ s.remote[k].completion # "none" THEN 1 ELSE 0
    BY DEF GoodNode, Operations, Owed
  <2> QED BY <1>1, <1>3, <1>4, <1>5, <2>1
<1>7. Queued(t)
  <2> SUFFICES ASSUME NEW k \in t.requests \ {"shutdown"}
               PROVE  k \in Linked(t) /\ t.remote[k].completion = "link"
    BY DEF Queued
  <2>1. k \in Linked(s) /\ s.remote[k].completion = "link" /\ k \in Nodes \ {m}
    BY <1>0, <1>1, <1>4 DEF GoodNode, Operations, Queued
  <2> QED BY <1>3, <1>5, <2>1
<1>8. "null interests" \in t.fault \/ OutWellFormed(t)
  BY <1>1, <1>4 DEF GoodNode, OutWellFormed
<1>9. GoodNode(t)
  BY <1>3, <1>6, <1>7, <1>8 DEF GoodNode, Operations
<1> QED BY <1>1, <1>3, <1>4, <1>5, <1>9 DEF t, p

\* DPS_DecodeSubscription.
LEMMA DecodeSubscriptionHandled ==
    ASSUME NEW s, NEW m \in Nodes, NEW msg \in Messages, NEW e, GoodNode(s), Choice(e),
           WellFormed(msg), msg.type = "SUB"
    PROVE  Handled(s, DecodeSubscription(s, m, msg, e))
<1> DEFINE t == AddRemoteNode(s, m)
           col == m \in Linked(s) /\ s.remote[m].sakPending
           a == Accept(t, m, msg, col, e)
           b == ReceiveSub(t, m, msg, col, e)
<1>0. s \in NodeType
  BY GoodType
<1>1. CASE msg.unlink
  <2>1. m \in Linked(s) => Handled(s, ReceiveUnlink(s, m, msg, e))
    BY ReceiveUnlinkGood, PreservesFinishes, FinishesHandled
  <2>2. Handled(s, s)
    BY <1>0, SameRefl, SamePreserves, PreservesFinishes, FinishesHandled
  <2> QED BY <1>1, <2>1, <2>2 DEF DecodeSubscription
<1>2. CASE ~ msg.unlink
  <2>1. DecodeSubscription(s, m, msg, e) = FinishSub(b, m, e)
    BY <1>2 DEF DecodeSubscription
  <2>2. msg.sakReq => msg.int # NULL /\ msg.needs # NULL
    BY <1>2 DEF WellFormed
  <2>3. /\ GoodNode(t) /\ m \in Linked(t) /\ t.walk = s.walk /\ t.fault = s.fault
        /\ \A k \in Linked(s) : k \in Linked(t) /\ t.remote[k] = s.remote[k]
    <3>1. CASE m \in Linked(s)
      BY <3>1 DEF AddRemoteNode
    <3>2. CASE m \notin Linked(s)
      <4> DEFINE r == ClearOutboundInterests(NewRemote)
                 new == InsertRemoteNode(Put(s, m, r), m)
      <4>1. r \in RemoteType /\ r.completion = "none"
        BY NewRemoteType, OutboundTypes DEF NewRemote
      <4>2. t = new
        BY <3>2 DEF AddRemoteNode
      <4> HIDE DEF r, t
      <4>3. /\ GoodNode(new) /\ Linked(new) = Linked(s) \cup {m}
            /\ new.walk = s.walk /\ new.fault = s.fault
            /\ \A k \in Nodes \ {m} : new.remote[k] = s.remote[k]
        BY <3>2, <4>1, AddRemoteGood
      <4>4. Linked(s) \subseteq Nodes \ {m}
        BY <1>0, <3>2, LinkedNodes
      <4> QED BY <4>2, <4>3, <4>4
    <3> QED BY <3>1, <3>2
  <2> HIDE DEF t
  <2>4. col \in BOOLEAN
    BY <1>0 DEF NodeType, RemoteType
  <2> HIDE DEF col
  <2>5. ~ Stale(t, m, msg) => Preserves(t, a)
    BY <2>2, <2>3, <2>4, AcceptGood
  <2>6. b = IF Stale(t, m, msg) THEN t ELSE Propagate(a, m, e)
    BY DEF ReceiveSub
  <2> HIDE DEF a, b
  <2>7. Preserves(t, b)
    <3>1. t \in NodeType /\ Preserves(t, t)
      BY <2>3, GoodType, SameRefl, SamePreserves
    <3>2. ASSUME ~ Stale(t, m, msg)
          PROVE  Preserves(t, a) /\ Preserves(t, UpdateSubs(a, "throttled"))
      <4>1. GoodNode(a) /\ a \in NodeType
        BY <2>5, <3>2, GoodType DEF Preserves
      <4>2. Preserves(a, UpdateSubs(a, "throttled"))
        BY <4>1, UpdateSubsSame, SamePreserves
      <4> QED BY <2>5, <3>1, <3>2, <4>2, PreservesTrans
    <3> QED BY <2>6, <3>1, <3>2 DEF Propagate
  <2>8. Finishes(t, FinishSub(b, m, e))
    <3>1. GoodNode(b) /\ t \in NodeType
      BY <2>3, <2>7, GoodType DEF Preserves
    <3> QED BY <2>7, <3>1, FinishSubFinishes, FinishesTrans
  <2> QED BY <2>1, <2>3, <2>8 DEF Finishes, Handled, Kept
<1> QED BY <1>1, <1>2

\* DPS_DecodeSubscriptionAck.
LEMMA DecodeAckHandled ==
    ASSUME NEW s, NEW m \in Nodes, NEW msg \in Messages, NEW e, GoodNode(s), Choice(e),
           WellFormed(msg), msg.type = "SAK"
    PROVE  Handled(s, DecodeSubscriptionAck(s, m, msg, e))
<1> DEFINE a == Accept(s, m, msg, FALSE, e)
           r == a.remote[m]
           st == IF r.state = "UNMUTING" THEN "ACTIVE" ELSE r.state
           q == [r EXCEPT !.sendInterests = FALSE, !.sakPending = FALSE, !.state = st]
           p == Put(a, m, q)
<1>0. s \in NodeType
  BY GoodType
<1>1. CASE m \notin Linked(s) \/ Stale(s, m, msg)
  <2>1. Handled(s, s)
    BY <1>0, SameRefl, SamePreserves, PreservesFinishes, FinishesHandled
  <2> QED BY <1>1, <2>1 DEF DecodeSubscriptionAck
<1>2. CASE m \in Linked(s) /\ ~ Stale(s, m, msg)
  <2>1. Preserves(s, a)
    BY <1>2, AcceptGood DEF WellFormed
  <2>2. GoodNode(a) /\ a \in NodeType
    BY <2>1, GoodType DEF Preserves
  <2>3. r \in RemoteType
    BY <2>2 DEF NodeType
  <2>4. DecodeSubscriptionAck(s, m, msg, e) =
           IF m \notin Linked(a) \/ r.outRev # msg.ackRev THEN a ELSE RemoteCompletion(p, m, e)
    BY <1>2, <2>3 DEF DecodeSubscriptionAck, Acknowledged, RemoteType
  <2> HIDE DEF a
  <2>5. st \in RemoteStates
    BY <2>3 DEF RemoteType, RemoteStates
  <2> HIDE DEF st
  <2>6. q \in RemoteType /\ q.completion = r.completion /\ q.inRev = r.inRev
    BY <2>3, <2>5 DEF RemoteType
  <2> HIDE DEF q
  <2>7. Same(a, p)
    BY <2>2, <2>6, PutSame
  <2> HIDE DEF p
  <2>8. Preserves(s, p) /\ GoodNode(p) /\ Linked(p) = Linked(a)
    BY <1>0, <2>1, <2>2, <2>7, SamePreserves, PreservesTrans DEF Preserves, Same
  <2>9. m \in Linked(a) => Finishes(s, RemoteCompletion(p, m, e))
    BY <1>0, <2>8, RemoteCompletionFinishes, FinishesTrans
  <2> HIDE DEF r
  <2> QED BY <2>1, <2>4, <2>9, PreservesFinishes, FinishesHandled
<1> QED BY <1>1, <1>2

--------------------------------------------------------------------------------
(* The protocol. *)

\* SendSubsTimer's `next` is null or still on the list.
GoodWalk(s) == s.walk = NULL \/ s.walk.next = NULL \/ s.walk.next \in Linked(s)
Sent(n) == \A m \in Nodes : \A i \in DOMAIN net[n][m] : WellFormed(net[n][m][i])
NodeInv(n) == Crashed(n) \/ /\ Owed(node[n]) /\ Queued(node[n]) /\ GoodWalk(node[n])
                            /\ Sent(n)
NothingKept == \A n \in Nodes : node[n].out = [m \in Nodes |-> <<>>]
IInv == TypeOK /\ NothingKept /\ \A n \in Nodes : NodeInv(n)

\* What a handler may do to its node.
Advance(s, t) ==
    /\ t \in NodeType
    /\ \A k \in Linked(s) \cap Linked(t) : t.remote[k].inRev >= s.remote[k].inRev
    /\ Faulty(t) \/ (GoodNode(t) /\ GoodWalk(t))

--------------------------------------------------------------------------------
\* Between handlers a node that did not crash is good.
LEMMA NodeIsGood ==
    ASSUME IInv, NEW n \in Nodes, ~Crashed(n)
    PROVE  GoodNode(node[n]) /\ GoodWalk(node[n]) /\ node[n] \in NodeType
<1>1. node[n] \in NodeType /\ node[n].out = [m \in Nodes |-> <<>>]
  BY DEF IInv, TypeOK, NothingKept
<1>2. Owed(node[n]) /\ Queued(node[n]) /\ GoodWalk(node[n])
  BY DEF IInv, NodeInv
<1>3. OutWellFormed(node[n])
  BY <1>1 DEF OutWellFormed
<1> QED BY <1>1, <1>2, <1>3 DEF GoodNode, Operations

\* The messages on the way to n when a handler of n runs, less one it received.
Fewer(rest) ==
    /\ rest \in [Nodes -> [Nodes -> Seq(Messages)]]
    /\ \A a, b \in Nodes : \A i \in DOMAIN rest[a][b] :
           \E j \in DOMAIN net[a][b] : rest[a][b][i] = net[a][b][j]

\* An element of a concatenation comes from one of its parts.
LEMMA ConcatElement ==
    ASSUME NEW S, NEW p \in Seq(S), NEW q \in Seq(S), NEW i \in DOMAIN (p \o q)
    PROVE  \/ i \in DOMAIN p /\ (p \o q)[i] = p[i]
           \/ \E j \in DOMAIN q : (p \o q)[i] = q[j]
<1>1. /\ i \in 1 .. Len(p) + Len(q) /\ DOMAIN p = 1 .. Len(p) /\ DOMAIN q = 1 .. Len(q)
      /\ Len(p) \in Nat /\ Len(q) \in Nat
  OBVIOUS
<1>2. CASE i <= Len(p)
  BY <1>1, <1>2
<1>3. CASE i > Len(p)
  <2>1. i - Len(p) \in DOMAIN q /\ (p \o q)[i] = q[i - Len(p)]
    BY <1>1, <1>3
  <2> QED BY <2>1
<1> QED BY <1>1, <1>2, <1>3

\* A handler that advances its node preserves the invariant.
LEMMA ReturnGood ==
    ASSUME IInv, NEW n \in Nodes, ~Crashed(n), NEW s, NEW rest,
           Return(n, s, rest), Advance(node[n], s), Fewer(rest),
           budget' \in [Events -> Nat]
    PROVE  IInv' /\ RevisionsGrow
<1> DEFINE t == [s EXCEPT !.out = [m \in Nodes |-> <<>>]]
<1>1. /\ node \in [Nodes -> NodeType] /\ s \in NodeType
      /\ node' = [node EXCEPT ![n] = t]
      /\ net' = [rest EXCEPT ![n] = [m \in Nodes |-> rest[n][m] \o s.out[m]]]
  BY DEF IInv, TypeOK, Return, Advance
<1>2. [m \in Nodes |-> <<>>] \in [Nodes -> Seq(Messages)]
  OBVIOUS
<1>3. /\ t \in NodeType /\ t.out = [m \in Nodes |-> <<>>] /\ t.remoteNodes = s.remoteNodes
      /\ t.remote = s.remote /\ t.owed = s.owed /\ t.requests = s.requests
      /\ t.walk = s.walk /\ t.fault = s.fault
  BY <1>1, <1>2 DEF NodeType
<1> HIDE DEF t
<1>4. Linked(t) = Linked(s)
  BY <1>3 DEF Linked
<1>5. /\ node'[n] = t /\ \A k \in Nodes \ {n} : node'[k] = node[k]
      /\ node' \in [Nodes -> NodeType]
  BY <1>1, <1>3
<1>6. s.out \in [Nodes -> Seq(Messages)] /\ rest \in [Nodes -> [Nodes -> Seq(Messages)]]
  BY <1>1 DEF NodeType, Fewer
<1>7. /\ net' \in [Nodes -> [Nodes -> Seq(Messages)]]
      /\ \A k \in Nodes \ {n} : net'[k] = rest[k]
      /\ \A m \in Nodes : net'[n][m] = rest[n][m] \o s.out[m]
  <2> DEFINE q == [m \in Nodes |-> rest[n][m] \o s.out[m]]
  <2>1. ASSUME NEW m \in Nodes PROVE rest[n][m] \o s.out[m] \in Seq(Messages)
    <3>1. rest[n][m] \in Seq(Messages) /\ s.out[m] \in Seq(Messages)
      BY <1>6
    <3> QED BY <3>1
  <2>2. q \in [Nodes -> Seq(Messages)] /\ \A m \in Nodes : q[m] = rest[n][m] \o s.out[m]
    BY <2>1
  <2>3. net' = [rest EXCEPT ![n] = q]
    BY <1>1
  <2> HIDE DEF q
  <2> QED BY <2>2, <2>3, <1>6
<1>8. TypeOK'
  BY <1>5, <1>7 DEF TypeOK
<1>9. NothingKept'
  BY <1>3, <1>5 DEF IInv, NothingKept
<1>10. ASSUME NEW k \in Nodes \ {n} PROVE NodeInv(k)'
  <2>1. node'[k] = node[k] /\ net'[k] = rest[k]
    BY <1>5, <1>7
  <2>2. NodeInv(k)
    BY DEF IInv
  <2>3. ASSUME Sent(k), NEW m \in Nodes, NEW i \in DOMAIN net'[k][m]
        PROVE  WellFormed(net'[k][m][i])
    <3>0. i \in DOMAIN rest[k][m] /\ net'[k][m][i] = rest[k][m][i]
      BY <2>1
    <3>1. PICK j \in DOMAIN net[k][m] : rest[k][m][i] = net[k][m][j]
      BY <3>0 DEF Fewer
    <3>2. WellFormed(net[k][m][j])
      BY <2>3 DEF Sent
    <3> QED BY <3>0, <3>1, <3>2
  <2>4. Sent(k) => Sent(k)'
    BY <2>3 DEF Sent
  <2> QED BY <2>1, <2>2, <2>4 DEF NodeInv, Crashed
<1>11. NodeInv(n)'
  <2>1. CASE Faulty(s)
    BY <2>1, <1>3, <1>5 DEF NodeInv, Crashed, Faulty
  <2>2. CASE ~Faulty(s)
    <3>1. GoodNode(s) /\ GoodWalk(s) /\ OutWellFormed(s)
      BY <2>2 DEF Advance, GoodNode, Faulty
    <3>2. Owed(t) /\ Queued(t) /\ GoodWalk(t)
      BY <3>1, <1>3, <1>4 DEF GoodNode, Operations, Owed, Queued, GoodWalk
    <3>3. Sent(n)
      BY DEF IInv, NodeInv
    <3>4. ASSUME NEW m \in Nodes, NEW i \in DOMAIN net'[n][m] PROVE WellFormed(net'[n][m][i])
      <4>1. /\ rest[n][m] \in Seq(Messages) /\ s.out[m] \in Seq(Messages)
            /\ net'[n][m] = rest[n][m] \o s.out[m]
        BY <1>6, <1>7
      <4>2. \/ i \in DOMAIN rest[n][m] /\ net'[n][m][i] = rest[n][m][i]
            \/ \E j \in DOMAIN s.out[m] : net'[n][m][i] = s.out[m][j]
        <5>1. i \in DOMAIN (rest[n][m] \o s.out[m])
          BY <4>1
        <5>2. \/ i \in DOMAIN rest[n][m] /\ (rest[n][m] \o s.out[m])[i] = rest[n][m][i]
              \/ \E j \in DOMAIN s.out[m] : (rest[n][m] \o s.out[m])[i] = s.out[m][j]
          <6>1. \A p, q \in Seq(Messages) : \A x \in DOMAIN (p \o q) :
                    \/ x \in DOMAIN p /\ (p \o q)[x] = p[x]
                    \/ \E j \in DOMAIN q : (p \o q)[x] = q[j]
            BY ConcatElement
          <6> QED BY <4>1, <5>1, <6>1, Zenon
        <5> QED BY <4>1, <5>2, Zenon
      <4>3. CASE i \in DOMAIN rest[n][m] /\ net'[n][m][i] = rest[n][m][i]
        <5>1. PICK j \in DOMAIN net[n][m] : rest[n][m][i] = net[n][m][j]
          BY <4>3 DEF Fewer
        <5>2. WellFormed(net[n][m][j])
          BY <3>3 DEF Sent
        <5> QED BY <4>3, <5>1, <5>2
      <4>4. CASE \E j \in DOMAIN s.out[m] : net'[n][m][i] = s.out[m][j]
        BY <4>4, <3>1 DEF OutWellFormed
      <4> QED BY <4>2, <4>3, <4>4
    <3>5. Sent(n)'
      BY <3>4 DEF Sent
    <3> QED BY <3>2, <3>5, <1>5 DEF NodeInv
  <2> QED BY <2>1, <2>2
<1>12. IInv'
  BY <1>8, <1>9, <1>10, <1>11 DEF IInv
<1>13. RevisionsGrow
  <2> SUFFICES ASSUME NEW k \in Nodes, NEW m \in Nodes,
                      m \in Linked(node[k]), m \in Linked(node'[k])
               PROVE  node'[k].remote[m].inRev >= node[k].remote[m].inRev
    BY DEF RevisionsGrow
  <2>1. CASE k = n
    BY <2>1, <1>3, <1>4, <1>5 DEF Advance
  <2>2. CASE k # n
    <3>1. node[k] \in NodeType /\ node'[k] = node[k]
      BY <2>2, <1>1, <1>5
    <3>2. node[k].remote[m] \in RemoteType
      BY <3>1 DEF NodeType
    <3>3. node[k].remote[m].inRev \in Nat
      BY <3>2 DEF RemoteType
    <3> QED BY <3>1, <3>3
  <2> QED BY <2>1, <2>2
<1> QED BY <1>12, <1>13

\* A handler that leaves the network alone.
LEMMA SameNet == ASSUME IInv PROVE Fewer(net)
BY DEF IInv, TypeOK, Fewer

\* A budget stays a budget.
LEMMA SpendType ==
    ASSUME TypeOK, NEW x \in Events, Spend(x) PROVE budget' \in [Events -> Nat]
BY DEF TypeOK, Spend

\* Only nodes that did not crash, and no SendSubsTimer, run when all are idle.
LEMMA IdleNode ==
    ASSUME IInv, Idle, NEW n \in Nodes
    PROVE  ~Crashed(n) /\ node[n].walk = NULL /\ GoodNode(node[n]) /\ node[n] \in NodeType
BY NodeIsGood DEF Idle

\* A handler that preserves its node advances it.
LEMMA HandledAdvance ==
    ASSUME NEW s \in NodeType, NEW t, Handled(s, t), s.walk = NULL PROVE Advance(s, t)
BY DEF Handled, Advance, GoodWalk, Faulty
\* A handler that preserves the invariants advances its node.
LEMMA PreservesAdvance ==
    ASSUME NEW s \in NodeType, NEW t, Preserves(s, t), s.walk = NULL PROVE Advance(s, t)
BY HandledAdvance, PreservesFinishes, FinishesHandled
\* A handler that changes nothing the invariants depend on advances its node.
LEMMA SameAdvance ==
    ASSUME NEW s \in NodeType, NEW t, GoodNode(s), Same(s, t), s.walk = NULL PROVE Advance(s, t)
BY PreservesAdvance, SamePreserves

--------------------------------------------------------------------------------
(* Calls of the application. *)

\* Subscriptions and what they add to the counts.
LEMMA SubsSame ==
    ASSUME NEW s \in NodeType, NEW S \in SUBSET Subs,
           NEW i \in CountVector(Bits), NEW h \in CountVector(FHBits)
    PROVE  Same(s, [s EXCEPT !.subs = S, !.interests = i, !.needs = h])
BY DEF Same, NodeType, Linked

\* DPS_Subscribe
LEMMA SubscribeStep ==
    ASSUME IInv, NEW n \in Nodes, NEW x \in Subs, Subscribe(n, x)
    PROVE  IInv' /\ RevisionsGrow
<1> DEFINE s == node[n]
           i == CVAdd(s.interests, SubBits[x])
           h == CVAdd(s.needs, FuzzyHash(SubBits[x]))
           t == [s EXCEPT !.subs = @ \cup {x}, !.interests = i, !.needs = h]
<1>1. Idle /\ Spend("subscribe") /\ Return(n, UpdateSubs(t, "now"), net)
  BY DEF Subscribe
<1>2. ~Crashed(n) /\ s.walk = NULL /\ GoodNode(s) /\ s \in NodeType
  BY <1>1, IdleNode
<1> HIDE DEF s
<1>3. /\ i \in CountVector(Bits) /\ h \in CountVector(FHBits)
      /\ s.subs \cup {x} \in SUBSET Subs
  BY <1>2, CountVectors DEF NodeType
<1> HIDE DEF i, h
<1>4. Same(s, t)
  BY <1>2, <1>3, SubsSame
<1> HIDE DEF t
<1>5. Same(t, UpdateSubs(t, "now"))
  BY <1>4, UpdateSubsSame DEF Same
<1>6. Advance(s, UpdateSubs(t, "now"))
  BY <1>2, <1>4, <1>5, SameTrans, SameAdvance
<1>7. budget' \in [Events -> Nat]
  BY <1>1, SpendType DEF IInv, Events
<1> QED BY <1>1, <1>2, <1>6, <1>7, SameNet, ReturnGood DEF s

\* DPS_DestroySubscription
LEMMA UnsubscribeStep ==
    ASSUME IInv, NEW n \in Nodes, NEW x \in Subs, Unsubscribe(n, x)
    PROVE  IInv' /\ RevisionsGrow
<1> DEFINE s == node[n]
           c == Check(s, s.interests.entries # 0 /\ s.needs.entries # 0, "count")
           i == CVDel(c.interests, SubBits[x])
           h == CVDel(c.needs, FuzzyHash(SubBits[x]))
           t == [c EXCEPT !.subs = @ \ {x}, !.interests = i, !.needs = h]
<1>1. Idle /\ Spend("unsubscribe") /\ Return(n, UpdateSubs(t, "now"), net)
  BY DEF Unsubscribe
<1>2. ~Crashed(n) /\ s.walk = NULL /\ GoodNode(s) /\ s \in NodeType
  BY <1>1, IdleNode
<1> HIDE DEF s
<1>3. Same(s, c) /\ c \in NodeType
  <2>1. "count" \in Faults
    BY DEF Faults
  <2>2. Same(s, c)
    BY <2>1, <1>2, CheckSame
  <2> QED BY <2>2 DEF Same
<1> HIDE DEF c
<1>4. /\ i \in CountVector(Bits) /\ h \in CountVector(FHBits)
      /\ c.subs \ {x} \in SUBSET Subs
  BY <1>3, CountVectors DEF NodeType
<1> HIDE DEF i, h
<1>5. Same(c, t)
  BY <1>3, <1>4, SubsSame
<1> HIDE DEF t
<1>6. Same(t, UpdateSubs(t, "now"))
  BY <1>5, UpdateSubsSame DEF Same
<1>7. Advance(s, UpdateSubs(t, "now"))
  BY <1>2, <1>3, <1>5, <1>6, SameTrans, SameAdvance
<1>8. budget' \in [Events -> Nat]
  BY <1>1, SpendType DEF IInv, Events
<1> QED BY <1>1, <1>2, <1>7, <1>8, SameNet, ReturnGood DEF s

\* An operation starts on m: its completion is set, its callback owed and
\* perhaps a LinkExists queued.
Started(s, m, r, q) == [s EXCEPT !.remote = [s.remote EXCEPT ![m] = r],
                                 !.owed = [s.owed EXCEPT ![m] = s.owed[m] + 1],
                                 !.requests = s.requests \cup q]
\* Starting an operation on a remote that has none preserves the invariants.
LEMMA StartedGood ==
    ASSUME NEW s, NEW m \in Linked(s), NEW r \in RemoteType, NEW q \in SUBSET {m},
           GoodNode(s), s.remote[m].completion = "none", r.completion # "none",
           r.inRev = s.remote[m].inRev, q = {} \/ r.completion = "link"
    PROVE  Preserves(s, Started(s, m, r, q))
<1> DEFINE t == Started(s, m, r, q)
<1>1. s \in NodeType /\ m \in Nodes /\ Owed(s) /\ Queued(s)
  BY LinkedNodes DEF GoodNode, Operations
<1>2. s.owed[m] = 0
  BY <1>1 DEF Owed
<1> DEFINE rs == [s.remote EXCEPT ![m] = r]
           o == [s.owed EXCEPT ![m] = s.owed[m] + 1]
           Q == s.requests \cup q
<1>0. /\ rs \in [Nodes -> RemoteType] /\ rs[m] = r
      /\ \A k \in Nodes \ {m} : rs[k] = s.remote[k]
  BY <1>1 DEF NodeType
<1>a. /\ o \in [Nodes -> Int] /\ o[m] = 1
      /\ \A k \in Nodes \ {m} : o[k] = s.owed[k]
  BY <1>1, <1>2 DEF NodeType
<1>b. Q \in SUBSET (Nodes \cup {"shutdown"})
  BY <1>1 DEF NodeType
<1>c. t = [s EXCEPT !.remote = rs, !.owed = o, !.requests = Q]
  BY DEF Started
<1> HIDE DEF t, rs, o, Q
<1>d. /\ t \in NodeType /\ t.remoteNodes = s.remoteNodes /\ t.walk = s.walk /\ t.out = s.out
      /\ t.fault = s.fault /\ t.requests = Q /\ t.remote = rs /\ t.owed = o
  BY <1>1, <1>0, <1>a, <1>b, <1>c DEF NodeType
<1>3. t.requests = s.requests \cup q
  BY <1>d DEF Q
<1>4. /\ t.remote[m] = r /\ t.owed[m] = 1
      /\ \A k \in Nodes \ {m} : t.remote[k] = s.remote[k] /\ t.owed[k] = s.owed[k]
  BY <1>0, <1>a, <1>d
<1>5. Linked(t) = Linked(s)
  BY <1>d DEF Linked
<1>6. Owed(t)
  <2> SUFFICES ASSUME NEW k \in Nodes
               PROVE  t.owed[k] = IF k \in Linked(t) /\ t.remote[k].completion # "none" THEN 1 ELSE 0
    BY DEF Owed
  <2>1. CASE k = m
    BY <2>1, <1>4, <1>5
  <2>2. CASE k # m
    BY <2>2, <1>1, <1>4, <1>5 DEF Owed
  <2> QED BY <2>1, <2>2
<1>7. Queued(t)
  <2> SUFFICES ASSUME NEW k \in t.requests \ {"shutdown"}
               PROVE  k \in Linked(t) /\ t.remote[k].completion = "link"
    BY DEF Queued
  <2>1. CASE k \in s.requests
    <3>1. k \in Linked(s) /\ s.remote[k].completion = "link"
      BY <2>1, <1>1 DEF Queued
    <3>2. k # m /\ k \in Nodes
      BY <3>1, <1>1, LinkedNodes
    <3> QED BY <3>1, <3>2, <1>4, <1>5
  <2>2. CASE k \in q
    BY <2>2, <1>4, <1>5
  <2> QED BY <2>1, <2>2, <1>3
<1>8. "null interests" \in t.fault \/ OutWellFormed(t)
  BY <1>d DEF GoodNode, OutWellFormed
<1>9. Kept(s, t)
  <2>1. ASSUME NEW k \in Linked(t) PROVE t.remote[k].inRev >= s.remote[k].inRev
    <3>1. k \in Nodes /\ t.remote[k].inRev = s.remote[k].inRev
      BY <1>1, <1>4, <1>5, LinkedNodes
    <3>2. s.remote[k] \in RemoteType
      BY <3>1, <1>1 DEF NodeType
    <3>3. s.remote[k].inRev \in Nat
      BY <3>2 DEF RemoteType
    <3> QED BY <3>1, <3>3
  <2> QED BY <2>1, <1>d, <1>5 DEF Kept
<1> QED BY <1>d, <1>6, <1>7, <1>8, <1>9 DEF Preserves, GoodNode, Operations, t

\* DPS_Link to a peer that is not known.
LEMMA LinkNewGood ==
    ASSUME NEW s, NEW m \in Nodes \ Linked(s), GoodNode(s)
    PROVE  Handled(s, LinkNew(s, m))
<1> DEFINE r0 == [NewRemote EXCEPT !.linkRequested = TRUE, !.state = "LINKING"]
           r == [NewRemote EXCEPT !.linkRequested = TRUE, !.state = "LINKING",
                                  !.completion = "link"]
           t == InsertRemoteNode(Put(s, m, r0), m)
           u == Started(t, m, r, {})
<1>1. r0 \in RemoteType /\ r \in RemoteType /\ r0.completion = "none"
      /\ r.completion = "link" /\ r.inRev = r0.inRev
  BY NewRemoteType DEF RemoteType, RemoteStates, NewRemote
<1>2. s \in NodeType
  BY DEF GoodNode, Operations
<1> HIDE DEF r0, r
<1>3. /\ GoodNode(t) /\ Linked(t) = Linked(s) \cup {m} /\ t \in NodeType
      /\ t.walk = s.walk /\ t.fault = s.fault /\ t.remote[m] = r0
      /\ \A k \in Nodes \ {m} : t.remote[k] = s.remote[k]
  <2>1. /\ GoodNode(t) /\ Linked(t) = Linked(s) \cup {m}
        /\ t.walk = s.walk /\ t.fault = s.fault /\ t.remote[m] = r0
        /\ \A k \in Nodes \ {m} : t.remote[k] = s.remote[k]
    BY <1>1, AddRemoteGood
  <2> HIDE DEF t
  <2>2. t \in NodeType
    BY <2>1, GoodType
  <2> QED BY <2>1, <2>2
<1>4. u = [InsertRemoteNode(s, m) EXCEPT !.remote[m] = r, !.owed[m] = @ + 1]
  <2>1. t = [s EXCEPT !.remote = [s.remote EXCEPT ![m] = r0],
                      !.remoteNodes = <<m>> \o s.remoteNodes]
    BY <1>2 DEF NodeType, InsertRemoteNode, Put
  <2>2. t.remote = [s.remote EXCEPT ![m] = r0] /\ t.owed = s.owed /\ t.requests = s.requests
    BY <2>1, <1>2 DEF NodeType
  <2>3. [t.remote EXCEPT ![m] = r] = [s.remote EXCEPT ![m] = r]
    BY <2>2, <1>2 DEF NodeType
  <2>4. u = [t EXCEPT !.remote = [s.remote EXCEPT ![m] = r],
                      !.owed = [s.owed EXCEPT ![m] = s.owed[m] + 1], !.requests = s.requests]
    BY <2>2, <2>3 DEF Started
  <2> HIDE DEF t, u
  <2>5. u = [s EXCEPT !.remoteNodes = <<m>> \o s.remoteNodes,
                      !.remote = [s.remote EXCEPT ![m] = r],
                      !.owed = [s.owed EXCEPT ![m] = s.owed[m] + 1]]
    BY <2>1, <2>4, <1>2 DEF NodeType
  <2> QED BY <2>5, <1>2 DEF NodeType, InsertRemoteNode
<1>5. LinkNew(s, m) = UpdateSubs(u, "now")
  BY <1>4 DEF LinkNew, r
<1> HIDE DEF t
<1>6. Preserves(t, u)
  BY <1>1, <1>3, StartedGood
<1> HIDE DEF u
<1>7. Same(u, UpdateSubs(u, "now"))
  BY <1>6, UpdateSubsSame DEF Preserves, GoodNode, Operations
<1>8. Preserves(t, UpdateSubs(u, "now"))
  <2>1. Preserves(u, UpdateSubs(u, "now"))
    BY <1>6, <1>7, SamePreserves DEF Preserves
  <2> QED BY <2>1, <1>3, <1>6, PreservesTrans
<1> DEFINE v == UpdateSubs(u, "now")
<1>9. GoodNode(v) /\ v \in NodeType /\ v.walk = s.walk /\ s.fault \subseteq v.fault
  BY <1>3, <1>8, GoodType DEF Preserves, Kept
<1>10. ASSUME NEW k \in Linked(s) \cap Linked(v) PROVE v.remote[k].inRev >= s.remote[k].inRev
  <2>1. k \in Nodes \ {m}
    BY <1>2, LinkedNodes
  <2> QED BY <2>1, <1>3, <1>8 DEF Preserves, Kept
<1> HIDE DEF v
<1> QED BY <1>5, <1>9, <1>10 DEF Handled, v

\* DPS_Link to a peer that is linked already.
LEMMA LinkAgainGood ==
    ASSUME NEW s, NEW m \in Linked(s), GoodNode(s), s.remote[m].completion = "none"
    PROVE  Preserves(s, LinkAgain(s, m))
<1> DEFINE r == [s.remote[m] EXCEPT !.completion = "link"]
<1>1. s \in NodeType /\ m \in Nodes
  BY LinkedNodes DEF GoodNode, Operations
<1>2. s.remote[m] \in RemoteType
  BY <1>1 DEF NodeType
<1>3. r \in RemoteType /\ r.completion = "link" /\ r.inRev = s.remote[m].inRev
  BY <1>2 DEF RemoteType
<1>4. LinkAgain(s, m) = Started(s, m, r, {m})
  BY <1>1 DEF LinkAgain, Started, NodeType
<1> HIDE DEF r
<1> QED BY <1>3, <1>4, StartedGood

\* DPS_Link
LEMMA LinkStep ==
    ASSUME IInv, NEW n \in Nodes, NEW m \in Nodes, Link(n, m)
    PROVE  IInv' /\ RevisionsGrow
<1> DEFINE s == node[n]
<1>1. Idle /\ Spend("link")
  BY DEF Link
<1>2. ~Crashed(n) /\ s.walk = NULL /\ GoodNode(s) /\ s \in NodeType
  BY <1>1, IdleNode
<1>3. budget' \in [Events -> Nat]
  BY <1>1, SpendType DEF IInv, Events
<1>4. CASE m \notin Linked(s) /\ Return(n, LinkNew(s, m), net)
  <2>1. Advance(s, LinkNew(s, m))
    BY <1>2, <1>4, LinkNewGood, HandledAdvance
  <2> QED BY <2>1, <1>2, <1>3, <1>4, SameNet, ReturnGood
<1>5. CASE /\ m \in Linked(s) /\ s.remote[m].completion = "none"
           /\ Return(n, LinkAgain(s, m), net)
  <2>1. Advance(s, LinkAgain(s, m))
    BY <1>2, <1>5, LinkAgainGood, PreservesAdvance
  <2> QED BY <2>1, <1>2, <1>3, <1>5, SameNet, ReturnGood
<1> QED BY <1>4, <1>5 DEF Link

\* DPS_Unlink
LEMMA UnlinkStep ==
    ASSUME IInv, NEW n \in Nodes, NEW m \in Nodes, UnlinkRemote(n, m)
    PROVE  IInv' /\ RevisionsGrow
<1> DEFINE s == node[n]
<1>1. /\ Idle /\ Spend("unlink") /\ m \in Linked(s) /\ s.remote[m].completion = "none"
      /\ Return(n, Unlink(s, {m}), net)
  BY DEF UnlinkRemote
<1>2. ~Crashed(n) /\ s.walk = NULL /\ GoodNode(s) /\ s \in NodeType
  BY <1>1, IdleNode
<1> HIDE DEF s
<1>3. Preserves(s, Unlink(s, {m}))
  BY <1>1, <1>2, UnlinkGood
<1>4. Advance(s, Unlink(s, {m}))
  BY <1>2, <1>3, PreservesAdvance
<1>5. budget' \in [Events -> Nat]
  BY <1>1, SpendType DEF IInv, Events
<1> QED BY <1>1, <1>2, <1>4, <1>5, SameNet, ReturnGood DEF s

\* DPS_ShutdownNode
LEMMA ShutdownStep ==
    ASSUME IInv, NEW n \in Nodes, ShutdownNode(n)
    PROVE  IInv' /\ RevisionsGrow
<1> DEFINE s0 == node[n]
           s == [s0 EXCEPT !.onShutdown = TRUE]
           ms == {m \in Linked(s) : s.remote[m].completion = "none"}
           t == [s EXCEPT !.requests = @ \cup {"shutdown"}]
           u == IF s.remoteNodes = <<>> THEN t ELSE Unlink(s, ms)
<1>1. Idle /\ Spend("shutdown") /\ Return(n, u, net)
  BY DEF ShutdownNode
<1>2. ~Crashed(n) /\ s0.walk = NULL /\ GoodNode(s0) /\ s0 \in NodeType
  BY <1>1, IdleNode
<1> HIDE DEF s0
<1>3. Same(s0, s) /\ s \in NodeType
  BY <1>2 DEF Same, NodeType, Linked
<1>4. Preserves(s0, s) /\ GoodNode(s)
  BY <1>2, <1>3, SamePreserves DEF Preserves
<1> HIDE DEF s
<1>5. Preserves(s, Unlink(s, ms))
  BY <1>4, UnlinkGood
<1>6. Preserves(s, t)
  <2>1. /\ t \in NodeType /\ t.remoteNodes = s.remoteNodes /\ t.remote = s.remote
        /\ t.walk = s.walk /\ t.out = s.out /\ t.fault = s.fault /\ t.owed = s.owed
        /\ t.requests = s.requests \cup {"shutdown"}
    BY <1>3 DEF NodeType
  <2>2. Linked(t) = Linked(s)
    BY <2>1 DEF Linked
  <2> HIDE DEF t
  <2>3. Owed(t) /\ Queued(t)
    <3>1. Owed(s) /\ Queued(s)
      BY <1>4 DEF GoodNode, Operations
    <3>2. t.requests \ {"shutdown"} = s.requests \ {"shutdown"}
      BY <2>1
    <3>3. Owed(t)
      BY <3>1, <2>1, <2>2 DEF Owed
    <3> QED BY <3>1, <3>2, <3>3, <2>1, <2>2, Zenon DEF Queued
  <2>4. "null interests" \in t.fault \/ OutWellFormed(t)
    BY <1>4, <2>1 DEF GoodNode, OutWellFormed
  <2>5. Kept(s, t)
    <3>1. ASSUME NEW k \in Linked(t) PROVE t.remote[k].inRev >= s.remote[k].inRev
      <4>1. k \in Nodes
        BY <2>1, LinkedNodes
      <4>2. s.remote[k] \in RemoteType
        BY <4>1, <1>3 DEF NodeType
      <4>3. s.remote[k].inRev \in Nat
        BY <4>2 DEF RemoteType
      <4> QED BY <4>3, <2>1
    <3> QED BY <3>1, <2>1, <2>2 DEF Kept
  <2> QED BY <2>1, <2>3, <2>4, <2>5 DEF Preserves, GoodNode, Operations
<1> HIDE DEF t
<1>7. Preserves(s, u)
  BY <1>5, <1>6
<1> HIDE DEF u
<1>8. Preserves(s0, u)
  BY <1>2, <1>4, <1>7, PreservesTrans
<1>9. Advance(s0, u)
  BY <1>2, <1>8, PreservesAdvance
<1>10. budget' \in [Events -> Nat]
  BY <1>1, SpendType DEF IInv, Events
<1> QED BY <1>1, <1>2, <1>9, <1>10, SameNet, ReturnGood DEF s0

--------------------------------------------------------------------------------
(* Tasks and timers. *)

\* LinkExists
LEMMA LinkExistsStep ==
    ASSUME IInv, NEW n \in Nodes, NEW m \in Nodes, LinkExists(n, m)
    PROVE  IInv' /\ RevisionsGrow
<1> DEFINE s == node[n]
           t == [s EXCEPT !.remote[m].linkRequested = TRUE]
<1>1. Idle /\ m \in s.requests /\ Return(n, LinkCompletion(t, m), net) /\ UNCHANGED budget
  BY DEF LinkExists
<1>2. ~Crashed(n) /\ s.walk = NULL /\ GoodNode(s) /\ s \in NodeType
  BY <1>1, IdleNode
<1> HIDE DEF s
<1>3. m # "shutdown"
  BY NullAssumption
<1>4. m \in Linked(s) /\ s.remote[m].completion = "link"
  BY <1>1, <1>2, <1>3 DEF GoodNode, Operations, Queued
<1>5. Same(s, t)
  BY <1>2, FieldSame
<1> HIDE DEF t
<1>6. GoodNode(t) /\ m \in Linked(t) /\ t.remote[m].completion = "link" /\ Preserves(s, t)
  BY <1>2, <1>4, <1>5, SamePreserves DEF Preserves, Same
<1>7. Preserves(t, LinkCompletion(t, m))
  BY <1>6, LinkCompletionGood
<1>8. Advance(s, LinkCompletion(t, m))
  BY <1>2, <1>6, <1>7, PreservesTrans, PreservesAdvance
<1>9. budget' \in [Events -> Nat]
  BY <1>1 DEF IInv, TypeOK
<1> QED BY <1>1, <1>2, <1>8, <1>9, SameNet, ReturnGood DEF s

\* OnShutdownRequest
LEMMA OnShutdownStep ==
    ASSUME IInv, NEW n \in Nodes, OnShutdownRequest(n)
    PROVE  IInv' /\ RevisionsGrow
<1> DEFINE s == node[n]
           t == [s EXCEPT !.requests = @ \ {"shutdown"}]
<1>1. Idle /\ Return(n, OnShutdown(t), net) /\ UNCHANGED budget
  BY DEF OnShutdownRequest
<1>2. ~Crashed(n) /\ s.walk = NULL /\ GoodNode(s) /\ s \in NodeType
  BY <1>1, IdleNode
<1> HIDE DEF s
<1>3. /\ t \in NodeType /\ t.remoteNodes = s.remoteNodes /\ t.remote = s.remote
      /\ t.walk = s.walk /\ t.out = s.out /\ t.fault = s.fault /\ t.owed = s.owed
      /\ t.requests = s.requests \ {"shutdown"}
  BY <1>2 DEF NodeType
<1>4. Linked(t) = Linked(s)
  BY <1>3 DEF Linked
<1> HIDE DEF t
<1>5. Owed(t) /\ Queued(t)
  <2>1. Owed(s) /\ Queued(s)
    BY <1>2 DEF GoodNode, Operations
  <2>2. t.requests \ {"shutdown"} = s.requests \ {"shutdown"}
    BY <1>3
  <2>3. Owed(t)
    BY <2>1, <1>3, <1>4 DEF Owed
  <2> QED BY <2>1, <2>2, <2>3, <1>3, <1>4, Zenon DEF Queued
<1>6. "null interests" \in t.fault \/ OutWellFormed(t)
  BY <1>2, <1>3 DEF GoodNode, OutWellFormed
<1>7. GoodNode(t)
  BY <1>3, <1>5, <1>6 DEF GoodNode, Operations
<1>8. Same(t, OnShutdown(t))
  BY <1>3, OnShutdownSame
<1>9. Advance(t, OnShutdown(t))
  BY <1>2, <1>3, <1>7, <1>8, SameAdvance
<1>10. Advance(s, OnShutdown(t))
  BY <1>3, <1>4, <1>9 DEF Advance
<1>11. budget' \in [Events -> Nat]
  BY <1>1 DEF IInv, TypeOK
<1> QED BY <1>1, <1>2, <1>10, <1>11, SameNet, ReturnGood DEF s

\* What SendSubsTimer's loop keeps of its progress.
Walks == {NULL} \cup [next : {NULL} \cup Nodes, reschedule : BOOLEAN]
\* Only GoodWalk depends on the progress of the loop.
LEMMA WalkGood ==
    ASSUME NEW s, NEW w \in Walks, GoodNode(s)
    PROVE  LET t == [s EXCEPT !.walk = w]
           IN  /\ GoodNode(t) /\ t.walk = w /\ Linked(t) = Linked(s)
               /\ t.remote = s.remote /\ t.fault = s.fault
<1> DEFINE t == [s EXCEPT !.walk = w]
<1>1. s \in NodeType /\ Owed(s) /\ Queued(s)
  BY DEF GoodNode, Operations
<1>2. /\ t \in NodeType /\ t.remoteNodes = s.remoteNodes /\ t.remote = s.remote
      /\ t.walk = w /\ t.out = s.out /\ t.fault = s.fault /\ t.owed = s.owed
      /\ t.requests = s.requests
  BY <1>1 DEF NodeType, Walks
<1> HIDE DEF t
<1>3. Linked(t) = Linked(s)
  BY <1>2 DEF Linked
<1>4. Owed(t)
  BY <1>1, <1>2, <1>3 DEF Owed
<1>5. Queued(t)
  BY <1>1, <1>2, <1>3 DEF Queued
<1>6. "null interests" \in t.fault \/ OutWellFormed(t)
  BY <1>2 DEF GoodNode, OutWellFormed
<1>7. GoodNode(t)
  BY <1>2, <1>4, <1>5, <1>6 DEF GoodNode, Operations
<1> QED BY <1>2, <1>3, <1>7 DEF t

\* A revision is not smaller than itself.
LEMMA SameRevision ==
    ASSUME NEW s \in NodeType, NEW k \in Linked(s)
    PROVE  s.remote[k].inRev >= s.remote[k].inRev
<1>1. k \in Nodes
  BY LinkedNodes
<1>2. s.remote[k] \in RemoteType
  BY <1>1 DEF NodeType
<1>3. s.remote[k].inRev \in Nat
  BY <1>2 DEF RemoteType
<1> QED BY <1>3

\* SendSubsTimer starts at the head of the list.
LEMMA StartWalkGood ==
    ASSUME NEW s, GoodNode(s) PROVE Advance(s, StartWalk(s))
<1> DEFINE first == IF s.remoteNodes = <<>> THEN NULL ELSE s.remoteNodes[1]
           w == [next |-> first, reschedule |-> FALSE]
           t == [s EXCEPT !.walk = w]
<1>1. s \in NodeType
  BY GoodType
<1>2. first = NULL \/ (first \in Linked(s) /\ first \in Nodes)
  <2>1. s.remoteNodes \in Seq(Nodes)
    BY <1>1 DEF NodeType, Lists
  <2>2. CASE s.remoteNodes # <<>>
    <3>1. 1 \in DOMAIN s.remoteNodes
      BY <2>1, <2>2
    <3> QED BY <3>1, <2>1 DEF Linked
  <2> QED BY <2>2
<1>3. t = StartWalk(s)
  BY DEF StartWalk
<1> HIDE DEF first
<1>4. w \in Walks /\ w.next = first
  BY <1>2 DEF Walks
<1> HIDE DEF w
<1>5. /\ GoodNode(t) /\ t.walk = w /\ Linked(t) = Linked(s)
      /\ t.remote = s.remote /\ t.fault = s.fault
  BY <1>4, WalkGood
<1> HIDE DEF t
<1>6. t \in NodeType /\ GoodWalk(t)
  BY <1>2, <1>4, <1>5, GoodType DEF GoodWalk
<1>7. \A k \in Linked(s) \cap Linked(t) : t.remote[k].inRev >= s.remote[k].inRev
  BY <1>1, <1>5, SameRevision
<1> QED BY <1>3, <1>5, <1>6, <1>7 DEF Advance

\* SendSubsTask
LEMMA SendSubsTaskStep ==
    ASSUME IInv, NEW n \in Nodes, SendSubsTask(n)
    PROVE  IInv' /\ RevisionsGrow
<1> DEFINE s0 == node[n]
           s == [s0 EXCEPT !.subsAsync = FALSE]
           u == IF s.subsPending = "now" THEN StartWalk(s) ELSE s
<1>1. Idle /\ Return(n, u, net) /\ UNCHANGED budget
  BY DEF SendSubsTask
<1>2. ~Crashed(n) /\ s0.walk = NULL /\ GoodNode(s0) /\ s0 \in NodeType
  BY <1>1, IdleNode
<1> HIDE DEF s0
<1>3. Same(s0, s)
  BY <1>2 DEF Same, NodeType, Linked
<1> HIDE DEF s
<1>4. Advance(s0, s) /\ GoodNode(s) /\ Linked(s) = Linked(s0)
      /\ \A k \in Linked(s) : s.remote[k].inRev = s0.remote[k].inRev
  <2>1. Linked(s) = Linked(s0) /\ Linked(s) \subseteq Nodes
    BY <1>2, <1>3, LinkedNodes DEF Same
  <2>2. \A k \in Linked(s) : s.remote[k].inRev = s0.remote[k].inRev
    BY <2>1, <1>3 DEF Same
  <2> QED BY <2>1, <2>2, <1>2, <1>3, SameAdvance, SameGood
<1>5. Advance(s, StartWalk(s))
  BY <1>4, StartWalkGood
<1>6. Advance(s0, StartWalk(s))
  BY <1>4, <1>5 DEF Advance
<1>7. Advance(s0, u)
  BY <1>4, <1>6
<1> HIDE DEF u
<1>8. budget' \in [Events -> Nat]
  BY <1>1 DEF IInv, TypeOK
<1> QED BY <1>1, <1>2, <1>7, <1>8, SameNet, ReturnGood DEF s0

\* SendSubsTimer, up to its loop.
LEMMA SendSubsTimerStep ==
    ASSUME IInv, NEW n \in Nodes, SendSubsTimer(n)
    PROVE  IInv' /\ RevisionsGrow
<1>1. Idle /\ Return(n, StartWalk(node[n]), net)
  BY DEF SendSubsTimer
<1>2. ~Crashed(n) /\ GoodNode(node[n])
  BY <1>1, IdleNode
<1>3. Advance(node[n], StartWalk(node[n]))
  BY <1>2, StartWalkGood
<1>4. budget' \in [Events -> Nat]
  <2>1. UNCHANGED budget \/ Spend("early")
    BY DEF SendSubsTimer
  <2>2. TypeOK /\ "early" \in Events
    BY DEF IInv, Events
  <2> QED BY <2>1, <2>2, SpendType DEF TypeOK
<1> QED BY <1>1, <1>2, <1>3, <1>4, SameNet, ReturnGood

\* remote->next of a remote on the list.
LEMMA SuccessorType ==
    ASSUME NEW s \in NodeType, NEW m \in Linked(s)
    PROVE  Successor(s, m) \in {NULL} \cup Nodes
<1> DEFINE l == s.remoteNodes
           i == CHOOSE j \in DOMAIN l : l[j] = m
<1>1. l \in Seq(Nodes) /\ \E j \in DOMAIN l : l[j] = m
  BY DEF NodeType, Lists, Linked
<1>2. i \in 1 .. Len(l) /\ Len(l) \in Nat
  BY <1>1
<1>3. Successor(s, m) = IF i < Len(l) THEN l[i + 1] ELSE NULL
  BY DEF Successor
<1> HIDE DEF i, l
<1>4. i < Len(l) => l[i + 1] \in Nodes
  BY <1>1, <1>2
<1> QED BY <1>3, <1>4

\* FindAlternativeRoute unmutes a remote that is on the list, or none.
LEMMA FindRouteGood ==
    ASSUME NEW s, NEW old \in Linked(s), NEW e, GoodNode(s), Choice(e)
    PROVE  Preserves(s, FindAlternativeRoute(s, old, e))
<1> DEFINE l == s.remoteNodes
           st(i) == s.remote[l[i]].state
           same(i) == l[i] # old /\ s.remote[l[i]].inMesh = s.remote[old].inMesh
           stop == {i \in DOMAIN l : same(i) /\ st(i) \in {"ACTIVE", "UNMUTING", "MUTED"}}
           muted == {i \in DOMAIN l : l[i] # old /\ st(i) = "MUTED"}
           First(S) == CHOOSE i \in S : \A j \in S : i <= j
<1>1. s \in NodeType
  BY GoodType
<1>2. l \in Seq(Nodes)
  BY <1>1 DEF NodeType, Lists
<1>3. ASSUME NEW S \in SUBSET DOMAIN l, S # {} PROVE l[First(S)] \in Nodes
  <2>1. S \in SUBSET Nat
    BY <1>2
  <2>2. \E i \in S : \A j \in S : i <= j
    BY <1>3, <2>1, MinNat
  <2>3. First(S) \in S
    BY <2>2
  <2> HIDE DEF First
  <2> QED BY <1>2, <2>3
<1>4. stop \in SUBSET DOMAIN l /\ muted \in SUBSET DOMAIN l
  OBVIOUS
<1>5. FindAlternativeRoute(s, old, e) =
        IF stop # {}
          THEN IF st(First(stop)) = "MUTED" THEN UnmuteRemoteNode(s, l[First(stop)], e) ELSE s
          ELSE IF muted # {} THEN UnmuteRemoteNode(s, l[First(muted)], e) ELSE s
  BY DEF FindAlternativeRoute
<1> HIDE DEF First, stop, muted, st, l
<1>6. Preserves(s, s)
  BY <1>1, SameRefl, SamePreserves
<1>7. CASE stop # {}
  <2>1. Preserves(s, UnmuteRemoteNode(s, l[First(stop)], e))
    BY <1>3, <1>4, <1>7, UnmuteGood DEF Choice
  <2> QED BY <2>1, <1>5, <1>6, <1>7
<1>8. CASE stop = {} /\ muted # {}
  <2>1. Preserves(s, UnmuteRemoteNode(s, l[First(muted)], e))
    BY <1>3, <1>4, <1>8, UnmuteGood DEF Choice
  <2> QED BY <2>1, <1>5, <1>8
<1>9. CASE stop = {} /\ muted = {}
  BY <1>5, <1>6, <1>9
<1> QED BY <1>7, <1>8, <1>9

\* SendSubsTimer for a remote that owes a SAK.
LEMMA ResendGood ==
    ASSUME NEW s, NEW m \in Linked(s), NEW e, GoodNode(s), Choice(e)
    PROVE  LET r == ResendOrGiveUp(s, m, e) IN Preserves(s, r.s) /\ r.again \in BOOLEAN
<1> DEFINE c == s.remote[m].sakCounter + 1
           r == [s.remote[m] EXCEPT !.sakCounter = c]
           t == [s EXCEPT !.remote[m].sakCounter = c]
           f == IF s.remote[m].state = "ACTIVE" THEN FindAlternativeRoute(t, m, e) ELSE t
           x == IF s.remote[m].lastSubMsgType = "SUB" THEN SendSubscription(t, m, e)
                ELSE SendSubscriptionAck(t, m, FALSE, e)
           y == m \notin e.fail
<1>1. s \in NodeType /\ m \in Nodes
  BY GoodType, LinkedNodes
<1>2. s.remote[m] \in RemoteType
  BY <1>1 DEF NodeType
<1>3. c \in Nat /\ r \in RemoteType /\ r.completion = s.remote[m].completion
      /\ r.inRev = s.remote[m].inRev
  BY <1>2 DEF RemoteType
<1>4. t = Put(s, m, r)
  BY <1>1 DEF Put, NodeType
<1> HIDE DEF r
<1>5. Same(s, t)
  BY <1>1, <1>3, <1>4, PutSame
<1>6. ResendOrGiveUp(s, m, e) =
          CASE s.subsPending = "now" -> [s |-> s, again |-> TRUE]
            [] s.subsPending # "now" /\ c < Retry -> [s |-> t, again |-> TRUE]
            [] s.subsPending # "now" /\ c >= Retry + RetryLimit ->
                  [s |-> DeleteRemoteNode(f, m), again |-> FALSE]
            [] OTHER -> [s |-> x, again |-> y]
  BY DEF ResendOrGiveUp
<1> HIDE DEF t
<1>7. Preserves(s, t) /\ GoodNode(t) /\ m \in Linked(t)
  BY <1>5, SamePreserves DEF Preserves, Same
<1>8. Preserves(t, f)
  <2>1. Preserves(t, t)
    BY <1>7, GoodType, SameRefl, SamePreserves
  <2> QED BY <2>1, <1>7, FindRouteGood
<1>9. Preserves(t, x)
  BY <1>1, <1>7, SendSubscriptionGood, SendAckGood
<1> HIDE DEF f, x
<1>10. Preserves(f, DeleteRemoteNode(f, m))
  BY <1>1, <1>8, DeleteGood DEF Preserves
<1>11. Preserves(s, s) /\ Preserves(s, x) /\ Preserves(s, DeleteRemoteNode(f, m))
  <2>1. Preserves(s, f)
    BY <1>1, <1>7, <1>8, PreservesTrans
  <2> QED BY <2>1, <1>1, <1>7, <1>9, <1>10, PreservesTrans, SameRefl, SamePreserves
<1>14. y \in BOOLEAN
  OBVIOUS
<1> HIDE DEF y
<1> DEFINE q == ResendOrGiveUp(s, m, e)
<1>12. \/ q = [s |-> s, again |-> TRUE]
       \/ q = [s |-> t, again |-> TRUE]
       \/ q = [s |-> DeleteRemoteNode(f, m), again |-> FALSE]
       \/ q = [s |-> x, again |-> y]
  BY <1>6
<1> HIDE DEF q
<1>13. q.s = s \/ q.s = t \/ q.s = DeleteRemoteNode(f, m) \/ q.s = x
  BY <1>12
<1>15. q.again \in BOOLEAN
  <2>1. q.again = TRUE \/ q.again = FALSE \/ q.again = y
    <3>1. \A v, b : [s |-> v, again |-> b].again = b
      OBVIOUS
    <3> QED BY <1>12, <3>1, Zenon
  <2> QED BY <2>1, <1>14, Zenon
<1>16. Preserves(s, q.s)
  BY <1>7, <1>11, <1>13
<1> QED BY <1>15, <1>16 DEF q

\* SendSubsTimer for a remote that owes nothing.
LEMMA SendIfChangedGood ==
    ASSUME NEW s, NEW m \in Linked(s), NEW e, GoodNode(s)
    PROVE  LET r == SendIfChanged(s, m, e) IN Preserves(s, r.s) /\ r.again \in BOOLEAN
<1> DEFINE t == UpdateOutboundInterests(s, m)
           x == SendSubscription(t, m, e)
           y == m \notin e.fail
<1>1. s \in NodeType /\ m \in Nodes
  BY GoodType, LinkedNodes
<1>2. Preserves(s, t)
  BY <1>1, UpdateOutboundSame, SamePreserves
<1> HIDE DEF t
<1>3. Preserves(t, x)
  BY <1>1, <1>2, SendSubscriptionGood DEF Preserves
<1> HIDE DEF x
<1>4. Preserves(s, s) /\ Preserves(s, x)
  BY <1>1, <1>2, <1>3, PreservesTrans, SameRefl, SamePreserves
<1>5. \/ SendIfChanged(s, m, e) = [s |-> s, again |-> FALSE]
      \/ SendIfChanged(s, m, e) = [s |-> x, again |-> y]
      \/ SendIfChanged(s, m, e) = [s |-> t, again |-> FALSE]
  BY DEF SendIfChanged, t, x
<1>7. y \in BOOLEAN
  OBVIOUS
<1> HIDE DEF t, x, y
<1> DEFINE q == SendIfChanged(s, m, e)
<1>6. q.s = s \/ q.s = x \/ q.s = t
  BY <1>5
<1>8. q.again \in BOOLEAN
  <2>1. q.again = FALSE \/ q.again = y
    <3>1. \A v, b : [s |-> v, again |-> b].again = b
      OBVIOUS
    <3> QED BY <1>5, <3>1, Zenon
  <2> QED BY <2>1, <1>7, Zenon
<1> HIDE DEF q
<1>9. Preserves(s, q.s)
  BY <1>2, <1>4, <1>6
<1> QED BY <1>8, <1>9 DEF q

\* The environment draws mesh ids, and its choices are paid for.
LEMMA EnvChoice ==
    ASSUME TypeOK, NEW n \in Nodes, NEW e \in Env(n)
    PROVE  Choice(e) /\ (PayFor(e) => budget' \in [Events -> Nat])
<1>1. node[n] \in NodeType
  BY DEF TypeOK
<1>2. MinMeshId(node[n], NULL) \in Nat /\ MeshSpan \in Nat
  BY <1>1, MinMeshIdType, BoundsAssumption
<1>3. e.fresh \in Fresh(n)
  BY DEF Env
<1>4. e.fresh \in Nat
  BY <1>2, <1>3 DEF Fresh
<1>5. UNCHANGED budget => budget' \in [Events -> Nat]
  BY DEF TypeOK
<1>6. Spend("sendfail") => budget' \in [Events -> Nat]
  BY SpendType DEF Events
<1> QED BY <1>4, <1>5, <1>6 DEF Choice, PayFor

\* One iteration of SendSubsTimer's loop.
LEMMA SendSubsStepStep ==
    ASSUME IInv, NEW n \in Nodes, SendSubsStep(n)
    PROVE  IInv' /\ RevisionsGrow
<1> DEFINE s == node[n]
           m == s.walk.next
           next == Successor(s, m)
           R(e) == IF s.remote[m].sakPending THEN ResendOrGiveUp(s, m, e)
                   ELSE SendIfChanged(s, m, e)
           w(e) == [next |-> next, reschedule |-> s.walk.reschedule \/ R(e).again]
           t(e) == [R(e).s EXCEPT !.walk = w(e)]
           u(e) == IF next = NULL \/ next \in Linked(R(e).s) THEN t(e)
                   ELSE Fault(t(e), "freed remote")
<1>1. PICK e \in Env(n) : PayFor(e) /\ Return(n, u(e), net)
  BY DEF SendSubsStep, Onward, Check
<1>2. s.walk # NULL /\ m # NULL /\ ~Crashed(n)
  BY DEF SendSubsStep
<1>3. GoodNode(s) /\ GoodWalk(s) /\ s \in NodeType
  BY <1>2, NodeIsGood
<1>4. m \in Linked(s) /\ s.walk.reschedule \in BOOLEAN
  BY <1>2, <1>3 DEF GoodWalk, NodeType
<1>5. Choice(e) /\ budget' \in [Events -> Nat]
  BY <1>1, EnvChoice DEF IInv
<1>6. next \in {NULL} \cup Nodes
  BY <1>3, <1>4, SuccessorType
<1> HIDE DEF s, m, next
<1>7. Preserves(s, R(e).s) /\ R(e).again \in BOOLEAN
  BY <1>3, <1>4, <1>5, ResendGood, SendIfChangedGood
<1> HIDE DEF R
<1>8. w(e) \in Walks /\ w(e).next = next
  BY <1>4, <1>6, <1>7 DEF Walks
<1> HIDE DEF w
<1>9. GoodNode(R(e).s)
  BY <1>7 DEF Preserves
<1>10. /\ GoodNode(t(e)) /\ t(e).walk = w(e) /\ Linked(t(e)) = Linked(R(e).s)
       /\ t(e).remote = R(e).s.remote /\ t(e).fault = R(e).s.fault
  BY <1>8, <1>9, WalkGood
<1> HIDE DEF t
<1>11. t(e) \in NodeType
  BY <1>10, GoodType
<1>12. \A k \in Linked(s) \cap Linked(t(e)) : t(e).remote[k].inRev >= s.remote[k].inRev
  BY <1>7, <1>10 DEF Preserves, Kept
<1>13. Advance(s, u(e))
  <2>1. CASE next = NULL \/ next \in Linked(R(e).s)
    BY <2>1, <1>8, <1>10, <1>11, <1>12 DEF Advance, GoodWalk
  <2>2. CASE ~ (next = NULL \/ next \in Linked(R(e).s))
    <3> DEFINE v == Fault(t(e), "freed remote")
    <3>1. "freed remote" \in Faults
      BY DEF Faults
    <3>2. /\ v \in NodeType /\ v.fault = t(e).fault \cup {"freed remote"}
          /\ v.remoteNodes = t(e).remoteNodes /\ v.remote = t(e).remote
      BY <3>1, <1>11 DEF Fault, NodeType
    <3> HIDE DEF v
    <3>3. Linked(v) = Linked(t(e)) /\ Faulty(v)
      BY <3>2 DEF Linked, Faulty
    <3>4. Advance(s, v)
      BY <3>2, <3>3, <1>12 DEF Advance
    <3> QED BY <3>4, <2>2 DEF v
  <2> QED BY <2>1, <2>2
<1> HIDE DEF u
<1> QED BY <1>1, <1>2, <1>5, <1>13, SameNet, ReturnGood DEF s

\* The end of SendSubsTimer.
LEMMA SendSubsEndStep ==
    ASSUME IInv, NEW n \in Nodes, SendSubsEnd(n)
    PROVE  IInv' /\ RevisionsGrow
<1> DEFINE s == node[n]
           p == IF s.walk.reschedule THEN "throttled" ELSE "none"
           t == [s EXCEPT !.subsPending = p]
           u == [t EXCEPT !.walk = NULL]
<1>1. ~Crashed(n) /\ UNCHANGED budget
  BY DEF SendSubsEnd
<1>2. GoodNode(s) /\ s \in NodeType
  BY <1>1, NodeIsGood
<1>3. u = [s EXCEPT !.walk = NULL, !.subsPending = p]
  BY <1>2 DEF NodeType
<1>4. Return(n, u, net)
  BY <1>3 DEF SendSubsEnd
<1>5. p \in {"throttled", "none"}
  OBVIOUS
<1> HIDE DEF s, p
<1>6. Same(s, t)
  BY <1>2, <1>5 DEF Same, NodeType, Linked
<1> HIDE DEF t
<1>7. GoodNode(t) /\ t \in NodeType
  BY <1>2, <1>6, SameGood, GoodType
<1>8. /\ GoodNode(u) /\ u.walk = NULL /\ Linked(u) = Linked(t) /\ u.remote = t.remote
  BY <1>7, WalkGood DEF Walks
<1> HIDE DEF u
<1>9. Advance(s, u)
  <2>1. ASSUME NEW k \in Linked(s) \cap Linked(u) PROVE u.remote[k].inRev >= s.remote[k].inRev
    <3>1. k \in Nodes /\ s.remote[k].inRev >= s.remote[k].inRev
      BY <1>2, LinkedNodes, SameRevision
    <3> QED BY <3>1, <1>6, <1>8 DEF Same
  <2> QED BY <2>1, <1>8, GoodType DEF Advance, GoodWalk
<1>10. budget' \in [Events -> Nat]
  BY <1>1 DEF IInv, TypeOK
<1> QED BY <1>1, <1>4, <1>9, <1>10, SameNet, ReturnGood DEF s

--------------------------------------------------------------------------------
(* The network. *)

\* The set of SUBs being sent.
LEMMA SentSame ==
    ASSUME NEW s \in NodeType, NEW ms PROVE Same(s, [s EXCEPT !.sending = @ \ ms])
BY DEF Same, NodeType, Linked

\* DPS_OnSendSubscriptionComplete
LEMMA SendSubCompleteStep ==
    ASSUME IInv, NEW n \in Nodes, NEW m \in Nodes, SendSubComplete(n, m)
    PROVE  IInv' /\ RevisionsGrow
<1> DEFINE s0 == node[n]
           s == [s0 EXCEPT !.sending = @ \ {m}]
           u == IF m \in Linked(s) /\ s.remote[m].sakPending
                  THEN UpdateSubs(s, "throttled") ELSE s
<1>1. Idle /\ Return(n, u, net) /\ UNCHANGED budget
  BY DEF SendSubComplete
<1>2. ~Crashed(n) /\ s0.walk = NULL /\ GoodNode(s0) /\ s0 \in NodeType
  BY <1>1, IdleNode
<1> HIDE DEF s0
<1>3. Same(s0, s) /\ s \in NodeType
  BY <1>2, SentSame DEF Same
<1> HIDE DEF s
<1>4. Same(s, UpdateSubs(s, "throttled"))
  BY <1>3, UpdateSubsSame
<1>5. Same(s0, u)
  BY <1>3, <1>4, SameTrans
<1> HIDE DEF u
<1>6. Advance(s0, u)
  BY <1>2, <1>5, SameAdvance
<1>7. budget' \in [Events -> Nat]
  BY <1>1 DEF IInv, TypeOK
<1> QED BY <1>1, <1>2, <1>6, <1>7, SameNet, ReturnGood DEF s0

\* A send or a receive ends with an error.
LEMMA NetErrorStep ==
    ASSUME IInv, NEW n \in Nodes, NEW m \in Nodes, NetError(n, m)
    PROVE  IInv' /\ RevisionsGrow
<1> DEFINE s0 == node[n]
<1>0. PICK sub : Return(n, DeleteRemoteNode([s0 EXCEPT !.sending = @ \ sub], m), net)
  BY DEF NetError
<1> DEFINE s == [s0 EXCEPT !.sending = @ \ sub]
           u == DeleteRemoteNode(s, m)
<1>1. Idle /\ Spend("error") /\ Return(n, u, net)
  BY <1>0 DEF NetError
<1>2. ~Crashed(n) /\ s0.walk = NULL /\ GoodNode(s0) /\ s0 \in NodeType
  BY <1>1, IdleNode
<1> HIDE DEF s0
<1>3. Preserves(s0, s) /\ GoodNode(s)
  BY <1>2, SentSame, SamePreserves DEF Preserves
<1> HIDE DEF s
<1>4. Preserves(s, u)
  BY <1>3, DeleteGood
<1> HIDE DEF u
<1>5. Advance(s0, u)
  BY <1>2, <1>3, <1>4, PreservesTrans, PreservesAdvance
<1>6. budget' \in [Events -> Nat]
  BY <1>1, SpendType DEF IInv, Events
<1> QED BY <1>1, <1>2, <1>5, <1>6, SameNet, ReturnGood DEF s0

\* A message less.
LEMMA WithoutFacts ==
    ASSUME NEW q \in Seq(Messages), NEW i \in DOMAIN q
    PROVE  /\ Without(q, i) \in Seq(Messages)
           /\ \A j \in DOMAIN Without(q, i) : \E k \in DOMAIN q : Without(q, i)[j] = q[k]
<1> DEFINE w == [j \in 1 .. Len(q) - 1 |-> IF j < i THEN q[j] ELSE q[j + 1]]
<1>1. Len(q) \in Nat /\ DOMAIN q = 1 .. Len(q) /\ i \in 1 .. Len(q)
  OBVIOUS
<1>2. w \in Seq(Messages) /\ DOMAIN w = 1 .. Len(q) - 1
  BY <1>1
<1>3. ASSUME NEW j \in DOMAIN w PROVE \E k \in DOMAIN q : w[j] = q[k]
  <2>1. j \in 1 .. Len(q) - 1 /\ j \in DOMAIN q /\ j + 1 \in DOMAIN q
    BY <1>1, <1>2
  <2>2. w[j] = q[j] \/ w[j] = q[j + 1]
    BY <2>1
  <2> QED BY <2>1, <2>2
<1> QED BY <1>2, <1>3 DEF Without

\* The network less one message.
LEMMA FewerWithout ==
    ASSUME TypeOK, NEW m \in Nodes, NEW n \in Nodes, NEW i \in DOMAIN net[m][n]
    PROVE  Fewer([net EXCEPT ![m][n] = Without(@, i)])
<1> DEFINE w == Without(net[m][n], i)
           g == [net[m] EXCEPT ![n] = w]
           rest == [net EXCEPT ![m] = g]
<1>1. net \in [Nodes -> [Nodes -> Seq(Messages)]] /\ net[m][n] \in Seq(Messages)
  BY DEF TypeOK
<1>2. /\ w \in Seq(Messages)
      /\ \A j \in DOMAIN w : \E k \in DOMAIN net[m][n] : w[j] = net[m][n][k]
  BY <1>1, WithoutFacts
<1>3. rest = [net EXCEPT ![m][n] = Without(@, i)]
  OBVIOUS
<1> HIDE DEF w
<1>4. g \in [Nodes -> Seq(Messages)] /\ g[n] = w /\ \A b \in Nodes \ {n} : g[b] = net[m][b]
  BY <1>1, <1>2
<1> HIDE DEF g
<1>5. /\ rest \in [Nodes -> [Nodes -> Seq(Messages)]] /\ rest[m] = g
      /\ \A a \in Nodes \ {m} : rest[a] = net[a]
  BY <1>1, <1>4
<1> HIDE DEF rest
<1>6. ASSUME NEW a \in Nodes, NEW b \in Nodes, NEW j \in DOMAIN rest[a][b]
      PROVE  \E k \in DOMAIN net[a][b] : rest[a][b][j] = net[a][b][k]
  <2>1. CASE a = m /\ b = n
    <3>1. rest[a][b] = w
      BY <2>1, <1>4, <1>5
    <3> QED BY <3>1, <2>1, <1>2
  <2>2. CASE ~ (a = m /\ b = n)
    <3>1. rest[a][b] = net[a][b]
      BY <2>2, <1>4, <1>5
    <3> QED BY <3>1
  <2> QED BY <2>1, <2>2
<1>7. Fewer(rest)
  BY <1>5, <1>6 DEF Fewer
<1> QED BY <1>3, <1>7

\* OnNetReceive
LEMMA ReceiveStep ==
    ASSUME IInv, NEW n \in Nodes, NEW m \in Nodes, Receive(n, m)
    PROVE  IInv' /\ RevisionsGrow
<1> DEFINE s == node[n]
           u(i, e) == Handle(n, m, net[m][n][i], e)
<1>1. Idle
  BY DEF Receive
<1>2. PICK i \in Deliverable(m, n), e \in Env(n) :
        PayFor(e) /\ Return(n, u(i, e), [net EXCEPT ![m][n] = Without(@, i)])
  BY DEF Receive
<1>3. i \in DOMAIN net[m][n]
  BY DEF Deliverable
<1>4. ~Crashed(n) /\ s.walk = NULL /\ GoodNode(s) /\ s \in NodeType /\ ~Crashed(m)
  BY <1>1, IdleNode
<1>5. Choice(e) /\ budget' \in [Events -> Nat]
  BY <1>2, EnvChoice DEF IInv
<1> DEFINE msg == net[m][n][i]
<1>6. msg \in Messages /\ WellFormed(msg)
  <2>1. net[m][n] \in Seq(Messages)
    BY DEF IInv, TypeOK
  <2>2. Sent(m)
    BY <1>4 DEF IInv, NodeInv
  <2> QED BY <2>1, <2>2, <1>3 DEF Sent
<1>7. msg.type \in {"SUB", "SAK"}
  BY <1>6 DEF Messages
<1>8. u(i, e) = IF msg.type = "SUB" THEN DecodeSubscription(s, m, msg, e)
                ELSE DecodeSubscriptionAck(s, m, msg, e)
  BY DEF Handle
<1> HIDE DEF s, msg, u
<1>9. Handled(s, u(i, e))
  BY <1>4, <1>5, <1>6, <1>7, <1>8, DecodeSubscriptionHandled, DecodeAckHandled
<1>10. Advance(s, u(i, e))
  BY <1>4, <1>9, HandledAdvance
<1>11. Fewer([net EXCEPT ![m][n] = Without(@, i)])
  BY <1>3, FewerWithout DEF IInv
<1> QED BY <1>2, <1>4, <1>5, <1>10, <1>11, ReturnGood DEF s

\* The network loses or duplicates a message: no node changes.
LEMMA NetworkStep ==
    ASSUME IInv, UNCHANGED node, Fewer(net'), budget' \in [Events -> Nat]
    PROVE  IInv' /\ RevisionsGrow
<1>1. TypeOK' /\ NothingKept'
  BY DEF IInv, TypeOK, NothingKept, Fewer
<1>2. ASSUME NEW k \in Nodes PROVE NodeInv(k)'
  <2>1. ASSUME Sent(k), NEW m \in Nodes, NEW i \in DOMAIN net'[k][m]
        PROVE  WellFormed(net'[k][m][i])
    <3>1. PICK j \in DOMAIN net[k][m] : net'[k][m][i] = net[k][m][j]
      BY DEF Fewer
    <3>2. WellFormed(net[k][m][j])
      BY <2>1 DEF Sent
    <3> QED BY <3>1, <3>2
  <2>2. Sent(k) => Sent(k)'
    BY <2>1 DEF Sent
  <2>3. NodeInv(k)
    BY DEF IInv
  <2> QED BY <2>2, <2>3 DEF NodeInv, Crashed
<1>3. RevisionsGrow
  BY SameRevision DEF RevisionsGrow, IInv, TypeOK
<1> QED BY <1>1, <1>2, <1>3 DEF IInv

\* A datagram is lost.
LEMMA LoseStep ==
    ASSUME IInv, NEW n \in Nodes, NEW m \in Nodes, Lose(m, n)
    PROVE  IInv' /\ RevisionsGrow
<1>1. PICK i \in DOMAIN net[m][n] : net' = [net EXCEPT ![m][n] = Without(@, i)]
  BY DEF Lose
<1>2. Fewer(net')
  BY <1>1, FewerWithout DEF IInv
<1>3. budget' \in [Events -> Nat]
  BY SpendType DEF Lose, IInv, Events
<1> QED BY <1>2, <1>3, NetworkStep DEF Lose

\* A datagram is delivered twice.
LEMMA DuplicateStep ==
    ASSUME IInv, NEW n \in Nodes, NEW m \in Nodes, Duplicate(m, n)
    PROVE  IInv' /\ RevisionsGrow
<1>1. PICK i \in DOMAIN net[m][n] : net' = [net EXCEPT ![m][n] = Append(@, net[m][n][i])]
  BY DEF Duplicate
<1> DEFINE q == net[m][n]
           w == Append(q, q[i])
           g == [net[m] EXCEPT ![n] = w]
<1>2. net \in [Nodes -> [Nodes -> Seq(Messages)]] /\ q \in Seq(Messages) /\ q[i] \in Messages
  <2>1. net \in [Nodes -> [Nodes -> Seq(Messages)]]
    BY DEF IInv, TypeOK
  <2>2. q \in Seq(Messages)
    BY <2>1
  <2> QED BY <2>1, <2>2
<1>3. net' = [net EXCEPT ![m] = g]
  BY <1>1
<1>4. /\ w \in Seq(Messages)
      /\ \A j \in DOMAIN w : \E k \in DOMAIN q : w[j] = q[k]
  <2> HIDE DEF q
  <2>1. /\ w \in Seq(Messages)
        /\ \A j \in DOMAIN w : w[j] = q[i] \/ (j \in DOMAIN q /\ w[j] = q[j])
    BY <1>2, AppendFacts
  <2>2. i \in DOMAIN q
    BY DEF q
  <2> HIDE DEF w
  <2> QED BY <2>1, <2>2
<1> HIDE DEF w
<1>5. g \in [Nodes -> Seq(Messages)] /\ g[n] = w /\ \A b \in Nodes \ {n} : g[b] = net[m][b]
  BY <1>2, <1>4
<1> HIDE DEF g
<1>6. /\ net' \in [Nodes -> [Nodes -> Seq(Messages)]] /\ net'[m] = g
      /\ \A a \in Nodes \ {m} : net'[a] = net[a]
  BY <1>2, <1>3, <1>5
<1>7. ASSUME NEW a \in Nodes, NEW b \in Nodes, NEW j \in DOMAIN net'[a][b]
      PROVE  \E k \in DOMAIN net[a][b] : net'[a][b][j] = net[a][b][k]
  <2>1. CASE a = m /\ b = n
    <3>1. net'[a][b] = w
      BY <2>1, <1>5, <1>6
    <3> QED BY <3>1, <2>1, <1>4
  <2>2. CASE ~ (a = m /\ b = n)
    <3>1. net'[a][b] = net[a][b]
      BY <2>2, <1>5, <1>6
    <3> QED BY <3>1
  <2> QED BY <2>1, <2>2
<1>8. Fewer(net')
  BY <1>6, <1>7 DEF Fewer
<1>9. budget' \in [Events -> Nat]
  BY SpendType DEF Duplicate, IInv, Events
<1> QED BY <1>8, <1>9, NetworkStep DEF Duplicate

\* A node that just started is good: it has no remotes and owes nothing.
LEMMA StartedNodeGood ==
    ASSUME NEW id \in Nat
    PROVE  LET s == StartedNode(id)
           IN  /\ s \in NodeType /\ Owed(s) /\ Queued(s) /\ GoodWalk(s)
               /\ s.out = [m \in Nodes |-> <<>>] /\ Linked(s) = {}
<1> DEFINE s == StartedNode(id)
<1>1. /\ s.remoteNodes = <<>> /\ s.requests = {} /\ s.owed = [m \in Nodes |-> 0]
      /\ s.walk = NULL /\ s.out = [m \in Nodes |-> <<>>]
  BY DEF StartedNode
<1>2. Linked(s) = {}
  BY <1>1 DEF Linked
<1>3. EmptyCV(Bits) \in CountVector(Bits) /\ EmptyCV(FHBits) \in CountVector(FHBits)
  BY DEF EmptyCV, CountVector
<1>4. /\ <<>> \in Lists /\ [m \in Nodes |-> <<>>] \in [Nodes -> Seq(Messages)]
      /\ [m \in Nodes |-> NewRemote] \in [Nodes -> RemoteType]
  BY NewRemoteType DEF Lists
<1>5. s \in NodeType
  BY <1>3, <1>4 DEF StartedNode, NodeType
<1>6. Owed(s) /\ Queued(s) /\ GoodWalk(s)
  BY <1>1, <1>2 DEF Owed, Queued, GoodWalk
<1> QED BY <1>1, <1>2, <1>5, <1>6

\* The program of a node starts again.
LEMMA RestartStep ==
    ASSUME IInv, NEW n \in Nodes, Restart(n)
    PROVE  IInv' /\ RevisionsGrow
<1>1. PICK id \in Fresh(n) : node' = [node EXCEPT ![n] = StartedNode(id)]
  BY DEF Restart
<1>2. node \in [Nodes -> NodeType] /\ net \in [Nodes -> [Nodes -> Seq(Messages)]]
  BY DEF IInv, TypeOK
<1>3. id \in Nat
  <2>1. MinMeshId(node[n], NULL) \in Nat /\ MeshSpan \in Nat
    BY <1>2, MinMeshIdType, BoundsAssumption
  <2> QED BY <2>1 DEF Fresh
<1> DEFINE s == StartedNode(id)
<1>4. /\ s \in NodeType /\ Owed(s) /\ Queued(s) /\ GoodWalk(s)
      /\ s.out = [m \in Nodes |-> <<>>] /\ Linked(s) = {}
  BY <1>3, StartedNodeGood
<1> HIDE DEF s
<1>5. /\ node' \in [Nodes -> NodeType] /\ node'[n] = s
      /\ \A k \in Nodes \ {n} : node'[k] = node[k]
  BY <1>1, <1>2, <1>4 DEF s
<1> DEFINE cut == [a \in Nodes |-> [b \in Nodes |->
                      IF n \in {a, b} THEN <<>> ELSE net[a][b]]]
<1>6. Fewer(net')
  <2>1. Fewer(net)
    BY SameNet
  <2>2. Fewer(cut)
    <3>1. \A a, b \in Nodes : cut[a][b] = <<>> \/ cut[a][b] = net[a][b]
      OBVIOUS
    <3>2. cut \in [Nodes -> [Nodes -> Seq(Messages)]]
      <4>1. \A a, b \in Nodes : (IF n \in {a, b} THEN <<>> ELSE net[a][b]) \in Seq(Messages)
        BY <1>2
      <4> QED BY <4>1
    <3> HIDE DEF cut
    <3>3. ASSUME NEW a \in Nodes, NEW b \in Nodes, NEW i \in DOMAIN cut[a][b]
          PROVE  \E j \in DOMAIN net[a][b] : cut[a][b][i] = net[a][b][j]
      <4>1. CASE cut[a][b] = <<>>
        BY <4>1
      <4>2. CASE cut[a][b] = net[a][b]
        BY <4>2
      <4> QED BY <4>1, <4>2, <3>1
    <3> QED BY <3>2, <3>3 DEF Fewer
  <2>3. net' = net \/ net' = cut
    BY DEF Restart
  <2> HIDE DEF cut
  <2> QED BY <2>1, <2>2, <2>3
<1>7. Idle /\ budget' \in [Events -> Nat]
  BY SpendType DEF Restart, IInv, Events
<1>8. TypeOK'
  BY <1>5, <1>6, <1>7 DEF TypeOK, Fewer
<1>9. NothingKept'
  BY <1>4, <1>5 DEF IInv, NothingKept
<1>10. ASSUME NEW k \in Nodes PROVE NodeInv(k)'
  <2>1. Sent(k) /\ Owed(node[k]) /\ Queued(node[k]) /\ GoodWalk(node[k])
    BY <1>7 DEF IInv, NodeInv, Idle
  <2>2. ASSUME NEW m \in Nodes, NEW i \in DOMAIN net'[k][m] PROVE WellFormed(net'[k][m][i])
    <3>1. PICK j \in DOMAIN net[k][m] : net'[k][m][i] = net[k][m][j]
      BY <1>6 DEF Fewer
    <3>2. WellFormed(net[k][m][j])
      BY <2>1 DEF Sent
    <3> QED BY <3>1, <3>2
  <2>3. Sent(k)'
    BY <2>2 DEF Sent
  <2>4. Owed(node'[k]) /\ Queued(node'[k]) /\ GoodWalk(node'[k])
    BY <2>1, <1>4, <1>5
  <2> QED BY <2>3, <2>4 DEF NodeInv
<1>11. RevisionsGrow
  <2> SUFFICES ASSUME NEW k \in Nodes, NEW m \in Nodes,
                      m \in Linked(node[k]), m \in Linked(node'[k])
               PROVE  node'[k].remote[m].inRev >= node[k].remote[m].inRev
    BY DEF RevisionsGrow
  <2>1. k # n /\ node'[k] = node[k]
    BY <1>4, <1>5
  <2> QED BY <2>1, <1>2, SameRevision
<1> QED BY <1>8, <1>9, <1>10, <1>11 DEF IInv

--------------------------------------------------------------------------------
(* The theorems. *)

\* Nodes that have just started satisfy the invariant.
LEMMA InitInv == ASSUME Init PROVE IInv
<1>1. ASSUME NEW n \in Nodes
      PROVE  /\ node[n] \in NodeType /\ Owed(node[n]) /\ Queued(node[n]) /\ GoodWalk(node[n])
             /\ node[n].out = [m \in Nodes |-> <<>>]
  <2>1. node[n] = StartedNode(MeshIdOf[n]) /\ MeshIdOf[n] \in Nat
    BY BoundsAssumption DEF Init
  <2> QED BY <2>1, StartedNodeGood
<1>2. /\ net \in [Nodes -> [Nodes -> Seq(Messages)]]
      /\ \A a, b \in Nodes : net[a][b] = <<>>
  BY DEF Init
<1>3. \A n \in Nodes : Sent(n)
  BY <1>2 DEF Sent
<1>4. node \in [Nodes -> NodeType]
  BY <1>1 DEF Init
<1>5. TypeOK
  BY <1>2, <1>4, BoundsAssumption DEF TypeOK, Init
<1> QED BY <1>1, <1>3, <1>5 DEF IInv, NothingKept, NodeInv

\* Every handler preserves the invariant, and no remote's revision goes back.
LEMMA NextInv == ASSUME IInv, [Next]_vars PROVE IInv' /\ [RevisionsGrow]_vars
<1>1. ASSUME NEW n \in Nodes, App(n) PROVE IInv' /\ RevisionsGrow
  BY <1>1, SubscribeStep, UnsubscribeStep, LinkStep, UnlinkStep, ShutdownStep DEF App
<1>2. ASSUME NEW n \in Nodes, Task(n) PROVE IInv' /\ RevisionsGrow
  BY <1>2, LinkExistsStep, SendSubCompleteStep, OnShutdownStep, SendSubsTaskStep DEF Task
<1>3. ASSUME NEW n \in Nodes, SendSubsTimer(n) PROVE IInv' /\ RevisionsGrow
  BY <1>3, SendSubsTimerStep
<1>4. ASSUME Walk PROVE IInv' /\ RevisionsGrow
  BY <1>4, SendSubsStepStep, SendSubsEndStep DEF Walk
<1>5. ASSUME NEW n \in Nodes, NEW m \in Nodes, Receive(n, m) PROVE IInv' /\ RevisionsGrow
  BY <1>5, ReceiveStep
<1>6. ASSUME Environment PROVE IInv' /\ RevisionsGrow
  BY <1>6, RestartStep, NetErrorStep, DuplicateStep, LoseStep DEF Environment
<1>7. ASSUME UNCHANGED vars PROVE IInv'
  <2>1. node' = node /\ net' = net /\ budget' = budget
    BY <1>7 DEF vars
  <2>2. Fewer(net')
    BY <2>1, SameNet
  <2>3. budget' \in [Events -> Nat]
    BY <2>1 DEF IInv, TypeOK
  <2> QED BY <2>1, <2>2, <2>3, NetworkStep
<1> QED BY <1>1, <1>2, <1>3, <1>4, <1>5, <1>6, <1>7 DEF Next

\* IInv is an invariant of the protocol.
THEOREM Inductive == Spec => []IInv
<1>1. Init => IInv
  BY InitInv
<1>2. IInv /\ [Next]_vars => IInv'
  BY NextInv
<1> QED BY <1>1, <1>2, PTL DEF Spec

\* Type correctness of LinkProtocol; a node has one structure per peer, whatever
\* handlers insert into and remove from its list of remotes.
THEOREM TypeCorrect == Spec => []TypeOK
<1>1. IInv => TypeOK
  BY DEF IInv
<1> QED BY <1>1, Inductive, PTL

\* RemoteCompletion, DPS_DeleteRemoteNode and LinkExists call each operation's
\* callback exactly once, for any number of nodes and any faults of the network.
THEOREM CallbackOnceHolds == Spec => []CallbackOnce
<1>1. IInv => CallbackOnce
  BY DEF IInv, NodeInv, Owed, CallbackOnce
<1> QED BY <1>1, Inductive, PTL

\* No message, however late, takes a remote back to an earlier revision.
THEOREM NoStepBackHolds == Spec => NoStepBack
<1>1. IInv /\ [Next]_vars => [RevisionsGrow]_vars
  BY NextInv
<1> QED BY <1>1, Inductive, PTL DEF Spec, NoStepBack

--------------------------------------------------------------------------------
(* What a node counts, and what a muted remote is sent. *)

\* The vectors of a family that have bit b.
Having(K, g, b) == {k \in K : b \in g[k]}
Hit(v, b) == IF b \in v THEN 1 ELSE 0
Agree(K, g, h) == \A k \in K : h[k] = g[k]
\* Count vector cv over X counts the vectors f[x] for x in S and g[m] for m in K.
Tallies(cv, X, S, f, K, g) ==
    /\ IsFiniteSet(S) /\ IsFiniteSet(K)
    /\ cv.entries = Cardinality(S) + Cardinality(K)
    /\ \A b \in X : cv.count[b] = Cardinality(Having(S, f, b))
                                 + Cardinality(Having(K, g, b))

\* What a node's interests, and its needs, have to count.
Inbound(s) == [m \in Nodes |-> s.remote[m].inInt]
InboundNeeds(s) == [m \in Nodes |-> s.remote[m].inNeeds]
SubNeeds == [x \in Subs |-> FuzzyHash(SubBits[x])]
Counted(s) == /\ Tallies(s.interests, Bits, s.subs, SubBits, Known(s), Inbound(s))
              /\ Tallies(s.needs, FHBits, s.subs, SubNeeds, Known(s), InboundNeeds(s))

\* SendSubsTimer, when it resends what it last sent to the remote, sends no SUB to
\* a muted one.
Hushed(r) == r.state = "MUTED" => r.lastSubMsgType # "SUB"
\* The invariant of a node; U: the remotes that are being muted.
Exact(s, U) == /\ s \in NodeType
               /\ Counted(s)
               /\ s.fault \cap {"count", "sub to muted"} = {}
               /\ \A m \in Nodes \ U : Hushed(s.remote[m])

--------------------------------------------------------------------------------
(* Counting. *)

\* One more vector in a family adds one to the count of each of its bits.
LEMMA Hits ==
    ASSUME NEW K, NEW g, NEW h, NEW m, NEW b,
           IsFiniteSet(K), m \notin K, Agree(K, g, h)
    PROVE  /\ Cardinality(Having(K, g, b)) \in Nat
           /\ Cardinality(Having(K \cup {m}, h, b)) =
                Cardinality(Having(K, g, b)) + Hit(h[m], b)
<1> DEFINE A == Having(K, g, b)
           B == Having(K \cup {m}, h, b)
           C == A \cup {m}
<1>1. IsFiniteSet(A)
  BY FS_Subset DEF Having
<1>2. Cardinality(A) \in Nat
  BY <1>1, FS_CardinalityType
<1>3. b \in h[m] => B = C
  BY DEF Having, Agree
<1>4. b \notin h[m] => B = A
  BY DEF Having, Agree
<1>5. m \notin A
  BY DEF Having
<1> HIDE DEF A, B
<1>6. Cardinality(C) = Cardinality(A) + 1
  BY <1>1, <1>5, FS_AddElement
<1> HIDE DEF C
<1>7. CASE b \in h[m]
  BY <1>2, <1>3, <1>6, <1>7 DEF A, B, Hit
<1>8. CASE b \notin h[m]
  BY <1>2, <1>4, <1>8 DEF A, B, Hit
<1> QED BY <1>7, <1>8

\* Counts are natural numbers.
LEMMA Fewest ==
    ASSUME NEW S, NEW f, NEW b, IsFiniteSet(S) PROVE Cardinality(Having(S, f, b)) \in Nat
<1> DEFINE A == Having(S, f, b)
<1>1. IsFiniteSet(A)
  BY FS_Subset DEF Having
<1> HIDE DEF A
<1>2. Cardinality(A) \in Nat
  BY <1>1, FS_CardinalityType
<1> QED BY <1>2 DEF A

\* DPS_CountVectorAdd of the vector of a remote that had none.
LEMMA TallyAddNode ==
    ASSUME NEW X, NEW cv \in CountVector(X), NEW S, NEW f, NEW K, NEW g, NEW h, NEW m,
           Tallies(cv, X, S, f, K, g), m \notin K, Agree(K, g, h)
    PROVE  Tallies(CVAdd(cv, h[m]), X, S, f, K \cup {m}, h)
<1>1. /\ IsFiniteSet(S) /\ IsFiniteSet(K) /\ Cardinality(S) \in Nat /\ Cardinality(K) \in Nat
      /\ cv.entries = Cardinality(S) + Cardinality(K)
  BY FS_CardinalityType DEF Tallies
<1>2. IsFiniteSet(K \cup {m}) /\ Cardinality(K \cup {m}) = Cardinality(K) + 1
  BY <1>1, FS_AddElement
<1>3. CVAdd(cv, h[m]).entries = Cardinality(S) + Cardinality(K \cup {m})
  BY <1>1, <1>2 DEF CVAdd
<1>4. ASSUME NEW b \in X
      PROVE  CVAdd(cv, h[m]).count[b] = Cardinality(Having(S, f, b))
                                 + Cardinality(Having(K \cup {m}, h, b))
  <2> DEFINE p == Cardinality(Having(S, f, b))
             q == Cardinality(Having(K, g, b))
             r == Cardinality(Having(K \cup {m}, h, b))
  <2>1. q \in Nat /\ r = q + Hit(h[m], b)
    BY <1>1, Hits
  <2>2. p \in Nat
    BY <1>1, Fewest
  <2>3. cv.count[b] = p + q
    BY DEF Tallies
  <2> HIDE DEF p, q, r
  <2>4. CVAdd(cv, h[m]).count[b] = cv.count[b] + Hit(h[m], b)
    BY DEF CVAdd, CountVector, Hit
  <2> HIDE DEF CVAdd
  <2>5. CVAdd(cv, h[m]).count[b] = p + r
    BY <2>1, <2>2, <2>3, <2>4 DEF Hit
  <2> QED BY <2>5 DEF p, r
<1> QED BY <1>1, <1>2, <1>3, <1>4 DEF Tallies

\* DPS_CountVectorDel of the vector of a remote: there is one to delete.
LEMMA TallyDelNode ==
    ASSUME NEW X, NEW cv \in CountVector(X), NEW S, NEW f, NEW K, NEW g, NEW h, NEW m \in K,
           Tallies(cv, X, S, f, K, g), Agree(K \ {m}, g, h)
    PROVE  Tallies(CVDel(cv, g[m]), X, S, f, K \ {m}, h) /\ cv.entries # 0
<1> DEFINE L == K \ {m}
<1>1. /\ IsFiniteSet(S) /\ IsFiniteSet(K) /\ Cardinality(S) \in Nat /\ Cardinality(K) \in Nat
      /\ cv.entries = Cardinality(S) + Cardinality(K)
  BY FS_CardinalityType DEF Tallies
<1>2. IsFiniteSet(L) /\ Cardinality(L) = Cardinality(K) - 1 /\ Cardinality(L) \in Nat
  BY <1>1, FS_RemoveElement, FS_CardinalityType
<1>0. K = L \cup {m} /\ m \notin L
  OBVIOUS
<1> HIDE DEF L
<1>5. cv.entries # 0
  BY <1>1, <1>2
<1>3. CVDel(cv, g[m]).entries = Cardinality(S) + Cardinality(L)
  BY <1>1, <1>2, <1>5 DEF CVDel
<1>4. ASSUME NEW b \in X
      PROVE  CVDel(cv, g[m]).count[b] = Cardinality(Having(S, f, b))
                                 + Cardinality(Having(L, h, b))
  <2> DEFINE p == Cardinality(Having(S, f, b))
             q == Cardinality(Having(L, h, b))
             r == Cardinality(Having(K, g, b))
  <2>1. q \in Nat /\ Cardinality(Having(L \cup {m}, g, b)) = q + Hit(g[m], b)
    <3>1. Agree(L, h, g)
      BY DEF L, Agree
    <3> QED BY <1>2, <1>0, <3>1, Hits
  <2>6. r = q + Hit(g[m], b)
    BY <1>0, <2>1
  <2>2. p \in Nat
    BY <1>1, Fewest
  <2>3. cv.count[b] = p + r
    BY DEF Tallies
  <2> HIDE DEF p, q, r
  <2>4. CVDel(cv, g[m]).count[b] = cv.count[b] - Hit(g[m], b)
    BY <1>5 DEF CVDel, CountVector, Hit
  <2> HIDE DEF CVDel
  <2>5. CVDel(cv, g[m]).count[b] = p + q
    BY <2>1, <2>6, <2>2, <2>3, <2>4 DEF Hit
  <2> QED BY <2>5 DEF p, q
<1>6. Tallies(CVDel(cv, g[m]), X, S, f, L, h)
  BY <1>1, <1>2, <1>3, <1>4 DEF Tallies
<1> QED BY <1>5, <1>6 DEF L

\* The two families of a tally play the same part.
LEMMA TallySwap ==
    ASSUME NEW X, NEW cv, NEW S, NEW f, NEW K, NEW g, Tallies(cv, X, S, f, K, g)
    PROVE  Tallies(cv, X, K, g, S, f)
<1>1. /\ IsFiniteSet(S) /\ IsFiniteSet(K) /\ Cardinality(S) \in Nat /\ Cardinality(K) \in Nat
      /\ cv.entries = Cardinality(S) + Cardinality(K)
  BY FS_CardinalityType DEF Tallies
<1>2. cv.entries = Cardinality(K) + Cardinality(S)
  BY <1>1
<1>3. ASSUME NEW b \in X
      PROVE  cv.count[b] = Cardinality(Having(K, g, b)) + Cardinality(Having(S, f, b))
  <2> DEFINE P == Having(S, f, b)
             Q == Having(K, g, b)
  <2>1. IsFiniteSet(P) /\ IsFiniteSet(Q)
    BY <1>1, FS_Subset DEF Having
  <2>2. cv.count[b] = Cardinality(P) + Cardinality(Q)
    BY DEF Tallies
  <2> HIDE DEF P, Q
  <2>3. Cardinality(P) \in Nat /\ Cardinality(Q) \in Nat
    BY <2>1, FS_CardinalityType
  <2>4. cv.count[b] = Cardinality(Q) + Cardinality(P)
    BY <2>2, <2>3
  <2> QED BY <2>4 DEF P, Q
<1> QED BY <1>1, <1>2, <1>3 DEF Tallies

\* Only the vectors of the family matter.
LEMMA TallyFrame ==
    ASSUME NEW X, NEW cv, NEW S, NEW f, NEW K, NEW g, NEW h, Tallies(cv, X, S, f, K, g),
           Agree(K, g, h)
    PROVE  Tallies(cv, X, S, f, K, h)
<1>1. \A b : Having(K, h, b) = Having(K, g, b)
  BY DEF Having, Agree
<1> QED BY <1>1, Zenon DEF Tallies

--------------------------------------------------------------------------------
(* Changes that leave the counts alone. *)

Grave == {"count", "sub to muted"}
\* t differs from s in nothing that is counted, but for its remotes.
Frame(s, t) == /\ t \in NodeType
               /\ t.subs = s.subs /\ t.interests = s.interests /\ t.needs = s.needs
               /\ t.fault \cap Grave \subseteq s.fault

\* The same remotes with the same vectors: the counts are right still.
LEMMA ExactFrame ==
    ASSUME NEW s, NEW t, NEW U, NEW V, Exact(s, U), Frame(s, t), Known(t) = Known(s),
           \A k \in Known(s) : /\ t.remote[k].inInt = s.remote[k].inInt
                               /\ t.remote[k].inNeeds = s.remote[k].inNeeds,
           \A k \in Nodes \ V : Hushed(t.remote[k])
    PROVE  Exact(t, V)
<1>1. s \in NodeType /\ Known(s) \subseteq Nodes
  BY LinkedNodes DEF Exact, Known
<1>2. Agree(Known(s), Inbound(s), Inbound(t)) /\ Agree(Known(s), InboundNeeds(s), InboundNeeds(t))
  BY <1>1 DEF Agree, Inbound, InboundNeeds
<1>3. /\ Tallies(s.interests, Bits, s.subs, SubBits, Known(s), Inbound(s))
      /\ Tallies(s.needs, FHBits, s.subs, SubNeeds, Known(s), InboundNeeds(s))
  BY DEF Exact, Counted
<1>4. /\ Tallies(s.interests, Bits, s.subs, SubBits, Known(s), Inbound(t))
      /\ Tallies(s.needs, FHBits, s.subs, SubNeeds, Known(s), InboundNeeds(t))
  BY <1>2, <1>3, TallyFrame
<1>5. Counted(t)
  BY <1>4 DEF Counted, Frame
<1>6. t.fault \cap {"count", "sub to muted"} = {}
  BY DEF Exact, Frame, Grave
<1> QED BY <1>5, <1>6 DEF Exact, Frame

\* A node record with some other field changed.
LEMMA ExactFields ==
    ASSUME NEW s, NEW t, NEW U, Exact(s, U), Frame(s, t), t.remote = s.remote, Linked(t) = Linked(s)
    PROVE  Exact(t, U)
<1>1. Known(t) = Known(s)
  BY DEF Known
<1>2. \A k \in Nodes \ U : Hushed(t.remote[k])
  BY DEF Exact
<1> QED BY <1>1, <1>2, ExactFrame

\* A remote that keeps its inbound vectors; m need not be hushed before.
LEMMA PutExact ==
    ASSUME NEW s, NEW U, NEW m \in Nodes, NEW r \in RemoteType, Exact(s, U \cup {m}),
           r.inInt = s.remote[m].inInt, r.inInt # NULL => r.inNeeds = s.remote[m].inNeeds,
           m \in U \/ Hushed(r)
    PROVE  /\ Exact(Put(s, m, r), U) /\ Linked(Put(s, m, r)) = Linked(s)
           /\ Put(s, m, r).remote[m] = r
           /\ Put(s, m, r) = [s EXCEPT !.remote = [s.remote EXCEPT ![m] = r]]
<1> DEFINE t == Put(s, m, r)
<1>1. s \in NodeType /\ Known(s) \subseteq Nodes
  BY LinkedNodes DEF Exact, Known
<1>4. s.remote \in [Nodes -> RemoteType]
  BY <1>1 DEF NodeType
<1> DEFINE f == [s.remote EXCEPT ![m] = r]
<1>2. t = [s EXCEPT !.remote = f]
  BY <1>1 DEF NodeType, Put
<1> HIDE DEF t
<1>11. f \in [Nodes -> RemoteType] /\ f[m] = r /\ \A k \in Nodes \ {m} : f[k] = s.remote[k]
  BY <1>4
<1> HIDE DEF f
<1>3. /\ t \in NodeType /\ t.subs = s.subs /\ t.interests = s.interests /\ t.needs = s.needs
      /\ t.fault = s.fault /\ t.remoteNodes = s.remoteNodes /\ t.remote = f
  BY <1>1, <1>2, <1>11 DEF NodeType
<1>5. /\ t.remote[m] = r /\ \A k \in Nodes \ {m} : t.remote[k] = s.remote[k]
  BY <1>3, <1>11
<1>6. Frame(s, t) /\ Linked(t) = Linked(s)
  BY <1>3 DEF Frame, Linked
<1>7. \A k \in Nodes : /\ t.remote[k].inInt = s.remote[k].inInt
                       /\ s.remote[k].inInt # NULL => t.remote[k].inNeeds = s.remote[k].inNeeds
  BY <1>5
<1>12. \A k \in Known(s) : /\ t.remote[k].inInt = s.remote[k].inInt
                           /\ t.remote[k].inNeeds = s.remote[k].inNeeds
  BY <1>1, <1>7 DEF Known
<1>8. Known(t) = Known(s)
  BY <1>1, <1>6, <1>7, LinkedNodes DEF Known
<1>9. ASSUME NEW k \in Nodes \ U PROVE Hushed(t.remote[k])
  <2>1. CASE k = m
    BY <1>5, <2>1
  <2>2. CASE k # m
    <3>1. Hushed(s.remote[k])
      BY <2>2 DEF Exact
    <3> QED BY <1>5, <2>2, <3>1
  <2> QED BY <2>1, <2>2
<1>10. Exact(t, U)
  BY <1>6, <1>8, <1>9, <1>12, ExactFrame
<1> QED BY <1>2, <1>5, <1>6, <1>10 DEF t, f

\* The assertions that may fail.
MayFail == {"needs", "duplicate from new", "null interests", "freed remote", "called twice"}

\* An assertion other than these two fails.
LEMMA FaultExact ==
    ASSUME NEW s, NEW U, NEW w \in MayFail, Exact(s, U)
    PROVE  /\ Exact(Fault(s, w), U) /\ Fault(s, w).remote = s.remote
           /\ Linked(Fault(s, w)) = Linked(s)
<1> DEFINE t == Fault(s, w)
<1>1. s \in NodeType /\ w \in Faults /\ w \notin Grave
  BY DEF Exact, Faults, MayFail, Grave
<1>3. /\ t \in NodeType /\ t.subs = s.subs /\ t.interests = s.interests /\ t.needs = s.needs
      /\ t.fault = s.fault \cup {w} /\ t.remote = s.remote /\ t.remoteNodes = s.remoteNodes
  BY <1>1 DEF NodeType, Fault
<1> HIDE DEF t
<1>4. Frame(s, t) /\ Linked(t) = Linked(s)
  BY <1>1, <1>3 DEF Linked, Frame
<1> QED BY <1>3, <1>4, ExactFields DEF t

\* DPS_UpdateSubs.
LEMMA UpdateSubsExact ==
    ASSUME NEW s, NEW U, NEW p \in {"throttled", "now"}, Exact(s, U)
    PROVE  Exact(UpdateSubs(s, p), U)
<1> DEFINE t == UpdateSubs(s, p)
<1>1. s \in NodeType
  BY DEF Exact
<1>2. Same(s, t)
  BY <1>1, UpdateSubsSame
<1>3. /\ t.subs = s.subs /\ t.interests = s.interests /\ t.needs = s.needs /\ t.fault = s.fault
      /\ t.remote = s.remote
  BY <1>1 DEF NodeType, UpdateSubs
<1> HIDE DEF t
<1>4. Frame(s, t) /\ Linked(t) = Linked(s)
  BY <1>2, <1>3 DEF Same, Frame
<1> QED BY <1>3, <1>4, ExactFields DEF t

\* The shutdown callback.
LEMMA OnShutdownExact == ASSUME NEW s, NEW U, Exact(s, U) PROVE Exact(OnShutdown(s), U)
<1> DEFINE t == OnShutdown(s)
<1>1. s \in NodeType
  BY DEF Exact
<1>2. Same(s, t)
  BY <1>1, OnShutdownSame
<1>3. /\ t.subs = s.subs /\ t.interests = s.interests /\ t.needs = s.needs /\ t.fault = s.fault
      /\ t.remote = s.remote
  BY <1>1 DEF NodeType, OnShutdown
<1> HIDE DEF t
<1>4. Frame(s, t) /\ Linked(t) = Linked(s)
  BY <1>2, <1>3 DEF Same, Frame
<1> QED BY <1>3, <1>4, ExactFields DEF t

\* The callback of an operation.
LEMMA CallBackExact ==
    ASSUME NEW s, NEW U, NEW m \in Nodes, Exact(s, U)
    PROVE  Exact(CallBack(s, m), U) /\ CallBack(s, m).remote = s.remote
           /\ Linked(CallBack(s, m)) = Linked(s)
<1> DEFINE t == CallBack(s, m)
<1>1. s \in NodeType
  BY DEF Exact
<1>2. t \in NodeType /\ Linked(t) = Linked(s) /\ t.remote = s.remote /\ t.fault = s.fault
  BY <1>1, CallBackFrame
<1>3. t.subs = s.subs /\ t.interests = s.interests /\ t.needs = s.needs
  BY <1>1 DEF NodeType, CallBack
<1> HIDE DEF t
<1>4. Frame(s, t)
  BY <1>2, <1>3 DEF Frame
<1> QED BY <1>2, <1>4, ExactFields DEF t

\* DPS_NetSend.
LEMMA EmitExact ==
    ASSUME NEW s, NEW U, NEW m \in Nodes, NEW msg \in Messages, Exact(s, U)
    PROVE  /\ Exact(Emit(s, m, msg), U) /\ Emit(s, m, msg).remote = s.remote
           /\ Linked(Emit(s, m, msg)) = Linked(s)
<1> DEFINE q == Append(s.out[m], msg)
           o == [s.out EXCEPT ![m] = q]
           t == [s EXCEPT !.out = o]
<1>1. s \in NodeType /\ s.out \in [Nodes -> Seq(Messages)]
  BY DEF Exact, NodeType
<1>2. q \in Seq(Messages)
  BY <1>1, AppendFacts
<1>3. Emit(s, m, msg) = t
  BY <1>1 DEF Emit, NodeType
<1> HIDE DEF q
<1>4. o \in [Nodes -> Seq(Messages)]
  BY <1>1, <1>2
<1> HIDE DEF o
<1>5. /\ t \in NodeType /\ t.subs = s.subs /\ t.interests = s.interests /\ t.needs = s.needs
      /\ t.fault = s.fault /\ t.remote = s.remote /\ t.remoteNodes = s.remoteNodes
  BY <1>1, <1>4 DEF NodeType
<1> HIDE DEF t
<1>6. Frame(s, t) /\ Linked(t) = Linked(s)
  BY <1>5 DEF Frame, Linked
<1> QED BY <1>3, <1>5, <1>6, ExactFields

\* Being hushed may be asked of fewer remotes.
LEMMA ExactMore == ASSUME NEW s, NEW U, NEW V, Exact(s, U), U \subseteq V PROVE Exact(s, V)
BY DEF Exact

\* A remote that keeps its inbound vectors, its state and its last message.
LEMMA PutQuiet ==
    ASSUME NEW s, NEW U, NEW m \in Nodes, NEW r \in RemoteType, Exact(s, U),
           r.inInt = s.remote[m].inInt, r.inNeeds = s.remote[m].inNeeds,
           Hushed(s.remote[m]) => Hushed(r)
    PROVE  /\ Exact(Put(s, m, r), U) /\ Linked(Put(s, m, r)) = Linked(s)
           /\ Put(s, m, r).remote[m] = r
<1>1. Exact(s, U \cup {m})
  BY ExactMore
<1>2. m \in U \/ Hushed(r)
  BY DEF Exact
<1> QED BY <1>1, <1>2, PutExact

--------------------------------------------------------------------------------
(* Deleting a remote. *)

\* DPS_ClearInboundInterests takes the remote's vectors out of both counts.
LEMMA ClearExact ==
    ASSUME NEW s, NEW U, NEW m \in Linked(s), Exact(s, U)
    PROVE  LET t == ClearInboundInterests(s, m)
           IN  /\ Exact(t, U) /\ Linked(t) = Linked(s) /\ t.remote[m].inInt = NULL
               /\ Hushed(s.remote[m]) => Hushed(t.remote[m])
<1> DEFINE r == s.remote[m]
           q == [r EXCEPT !.inInt = NULL, !.inNeeds = NULL]
           f == [s.remote EXCEPT ![m] = q]
           i == CVDel(s.interests, r.inInt)
           n == CVDel(s.needs, r.inNeeds)
           t == ClearInboundInterests(s, m)
           K == Known(s)
<1>1. s \in NodeType /\ Linked(s) \subseteq Nodes /\ m \in Nodes /\ K \subseteq Nodes
  BY LinkedNodes DEF Exact, Known
<1>2. Same(s, t)
  BY <1>1, ClearInboundSame
<1>3. CASE r.inInt = NULL
  BY <1>3 DEF ClearInboundInterests
<1>4. CASE r.inInt # NULL
  <2>1. /\ s.interests \in CountVector(Bits) /\ s.needs \in CountVector(FHBits)
        /\ s.remote \in [Nodes -> RemoteType] /\ r \in RemoteType
    BY <1>1 DEF NodeType
  <2>2. /\ Tallies(s.interests, Bits, s.subs, SubBits, K, Inbound(s))
        /\ Tallies(s.needs, FHBits, s.subs, SubNeeds, K, InboundNeeds(s))
    BY DEF Exact, Counted
  <2>3. m \in K /\ Inbound(s)[m] = r.inInt /\ InboundNeeds(s)[m] = r.inNeeds
    BY <1>1, <1>4 DEF Known, Inbound, InboundNeeds
  <2>4. q.inInt = NULL /\ q.state = r.state /\ q.lastSubMsgType = r.lastSubMsgType
    BY <2>1 DEF RemoteType
  <2> HIDE DEF q
  <2>5. f[m] = q /\ \A k \in Nodes \ {m} : f[k] = s.remote[k]
    BY <1>1, <2>1
  <2> HIDE DEF f, K
  <2> DEFINE g == [k \in Nodes |-> f[k].inInt]
             h == [k \in Nodes |-> f[k].inNeeds]
  <2>6. Agree(K \ {m}, Inbound(s), g) /\ Agree(K \ {m}, InboundNeeds(s), h)
    BY <1>1, <2>5 DEF Agree, Inbound, InboundNeeds
  <2> HIDE DEF g, h
  <2>7. Tallies(i, Bits, s.subs, SubBits, K \ {m}, g) /\ s.interests.entries # 0
    <3>1. Tallies(CVDel(s.interests, Inbound(s)[m]), Bits, s.subs, SubBits, K \ {m}, g) /\ s.interests.entries # 0
      BY <2>1, <2>2, <2>3, <2>6, TallyDelNode
    <3> QED BY <2>3, <3>1
  <2>8. Tallies(n, FHBits, s.subs, SubNeeds, K \ {m}, h) /\ s.needs.entries # 0
    <3>1. Tallies(CVDel(s.needs, InboundNeeds(s)[m]), FHBits, s.subs, SubNeeds, K \ {m}, h) /\ s.needs.entries # 0
      BY <2>1, <2>2, <2>3, <2>6, TallyDelNode
    <3> QED BY <2>3, <3>1
  <2>9. t = [s EXCEPT !.remote = f, !.interests = i, !.needs = n]
    <3>1. t = [Put(s, m, q) EXCEPT !.interests = CVDel(@, r.inInt), !.needs = CVDel(@, r.inNeeds)]
      BY <1>4, <2>7, <2>8 DEF ClearInboundInterests, Check, q
    <3>2. Put(s, m, q) = [s EXCEPT !.remote = f]
      BY <1>1 DEF Put, NodeType, f
    <3> HIDE DEF r
    <3> QED BY <1>1, <3>1, <3>2 DEF NodeType
  <2> HIDE DEF i, n
  <2>10. /\ t.remote = f /\ t.interests = i /\ t.needs = n /\ t.subs = s.subs /\ t.fault = s.fault
         /\ t.remoteNodes = s.remoteNodes
    BY <1>1, <2>9 DEF NodeType
  <2> HIDE DEF t
  <2>11. Linked(t) = Linked(s)
    BY <2>10 DEF Linked
  <2>12. Known(t) = K \ {m}
    BY <1>1, <2>4, <2>5, <2>10, <2>11 DEF Known, K
  <2>13. Inbound(t) = g /\ InboundNeeds(t) = h
    BY <2>10 DEF Inbound, InboundNeeds, g, h
  <2>14. Counted(t)
    BY <2>7, <2>8, <2>10, <2>12, <2>13 DEF Counted
  <2>15. \A k \in Nodes : Hushed(s.remote[k]) => Hushed(t.remote[k])
    BY <2>4, <2>5, <2>10 DEF Hushed
  <2>16. t \in NodeType
    BY <1>2 DEF Same
  <2>17. Exact(t, U)
    BY <2>10, <2>14, <2>15, <2>16 DEF Exact
  <2> QED BY <1>1, <2>4, <2>5, <2>10, <2>11, <2>15, <2>17 DEF t
<1> QED BY <1>3, <1>4

\* A remote that told nothing leaves the list.
LEMMA RemoveExact ==
    ASSUME NEW s, NEW U, NEW m \in Linked(s), Exact(s, U), s.remote[m].inInt = NULL
    PROVE  LET t == RemoveRemoteNode(s, m)
           IN  Exact(t, U) /\ Linked(t) = Linked(s) \ {m} /\ t.remote = s.remote
<1> DEFINE t == RemoveRemoteNode(s, m)
<1>1. s \in NodeType
  BY DEF Exact
<1>2. t \in NodeType /\ t = [s EXCEPT !.remoteNodes = t.remoteNodes] /\ Linked(t) = Linked(s) \ {m}
  BY <1>1, RemoveNode
<1> HIDE DEF t
<1>3. t.remote = s.remote /\ Frame(s, t)
  BY <1>1, <1>2 DEF NodeType, Frame
<1>4. Known(t) = Known(s)
  BY <1>2, <1>3 DEF Known
<1>5. \A k \in Nodes \ U : Hushed(t.remote[k])
  BY <1>3 DEF Exact
<1>6. Exact(t, U)
  BY <1>3, <1>4, <1>5, ExactFrame
<1> QED BY <1>2, <1>3, <1>6 DEF t

\* A remote that told nothing joins the list.
LEMMA InsertExact ==
    ASSUME NEW s, NEW U, NEW m \in Nodes \ Linked(s), Exact(s, U), s.remote[m].inInt = NULL
    PROVE  LET t == InsertRemoteNode(s, m)
           IN  Exact(t, U) /\ Linked(t) = Linked(s) \cup {m} /\ t.remote = s.remote
<1> DEFINE t == InsertRemoteNode(s, m)
<1>1. s \in NodeType
  BY DEF Exact
<1>2. t \in NodeType /\ t = [s EXCEPT !.remoteNodes = t.remoteNodes] /\ Linked(t) = Linked(s) \cup {m}
  BY <1>1, InsertNode
<1> HIDE DEF t
<1>3. t.remote = s.remote /\ Frame(s, t)
  BY <1>1, <1>2 DEF NodeType, Frame
<1>4. Known(t) = Known(s)
  BY <1>2, <1>3 DEF Known
<1>5. \A k \in Nodes \ U : Hushed(t.remote[k])
  BY <1>3 DEF Exact
<1>6. Exact(t, U)
  BY <1>3, <1>4, <1>5, ExactFrame
<1> QED BY <1>2, <1>3, <1>6 DEF t

\* DPS_DeleteRemoteNode, also of a remote that is being muted.
LEMMA DeleteExact ==
    ASSUME NEW s, NEW U, NEW m \in Nodes, Exact(s, U \cup {m}), m \in Linked(s) \/ Exact(s, U)
    PROVE  Exact(DeleteRemoteNode(s, m), U)
<1>1. CASE m \notin Linked(s)
  BY <1>1 DEF DeleteRemoteNode
<1>2. CASE m \in Linked(s)
  <2> DEFINE u == ClearInboundInterests(s, m)
             v == RemoveRemoteNode(u, m)
             t == Put(v, m, NewRemote)
             c == s.remote[m].completion
  <2>1. Exact(u, U \cup {m}) /\ m \in Linked(u) /\ u.remote[m].inInt = NULL
    BY <1>2, ClearExact
  <2>2. DeleteRemoteNode(s, m) = IF c = "none" THEN t ELSE OnShutdown(CallBack(t, m))
    BY <1>2 DEF DeleteRemoteNode, CompleteMissing
  <2> HIDE DEF u
  <2>3. Exact(v, U \cup {m}) /\ v.remote = u.remote
    BY <2>1, RemoveExact
  <2> HIDE DEF v
  <2>4. NewRemote \in RemoteType /\ NewRemote.inInt = NULL /\ Hushed(NewRemote)
    BY NewRemoteType DEF NewRemote, Hushed
  <2>5. Exact(t, U)
    BY <2>1, <2>3, <2>4, PutExact
  <2> HIDE DEF t
  <2>6. Exact(OnShutdown(CallBack(t, m)), U)
    BY <2>5, CallBackExact, OnShutdownExact
  <2> QED BY <2>2, <2>5, <2>6
<1> QED BY <1>1, <1>2

--------------------------------------------------------------------------------
(* Sending, muting, unlinking. *)

\* r has the inbound vectors of p.
Keeps(p, r) == r \in RemoteType /\ r.inInt = p.inInt /\ r.inNeeds = p.inNeeds

\* A change of the outbound half keeps the inbound one.
LEMMA OutboundKeeps ==
    ASSUME NEW r \in RemoteType
    PROVE  /\ Keeps(r, FreeOutbound(r)) /\ Keeps(r, ClearOutboundInterests(r)) /\ Keeps(r, Unmuted(r))
           /\ Hushed(r) => Hushed(FreeOutbound(r))
           /\ Hushed(r) => Hushed(Unmuted(r))
           /\ FreeOutbound(r).state = r.state
<1>1. /\ FreeOutbound(r) \in RemoteType /\ ClearOutboundInterests(r) \in RemoteType
      /\ Unmuted(r) \in RemoteType
  BY OutboundTypes
<1>2. Keeps(r, FreeOutbound(r)) /\ (Hushed(r) => Hushed(FreeOutbound(r))) /\ FreeOutbound(r).state = r.state
  BY <1>1 DEF Keeps, FreeOutbound, RemoteType, Hushed
<1>3. Keeps(r, ClearOutboundInterests(r))
  BY <1>1 DEF Keeps, ClearOutboundInterests, RemoteType
<1>4. Keeps(r, Unmuted(r)) /\ (Hushed(r) => Hushed(Unmuted(r)))
  BY <1>1 DEF Keeps, Unmuted, RemoteType, Hushed
<1> QED BY <1>2, <1>3, <1>4

\* DPS_UpdateOutboundInterests reads the counts and changes none.
LEMMA UpdateOutboundExact ==
    ASSUME NEW s, NEW U, NEW m \in Nodes, Exact(s, U)
    PROVE  LET t == UpdateOutboundInterests(s, m)
           IN  /\ Exact(t, U) /\ Linked(t) = Linked(s) /\ t.remote[m].state = s.remote[m].state
               /\ t.remote[m] \in RemoteType
<1> DEFINE r == s.remote[m]
           i == OutboundInterests(s, m)
           n == OutboundNeeds(s, m)
           rev == r.outRev + (IF Changes(s, m) THEN 1 ELSE 0)
           t == Check(s, Changes(s, m) \/ r.outNeeds = n, "needs")
           d == IF r.outInt = NULL THEN r.delta ELSE Xor(r.outInt, i)
           b == r.outInt # NULL
           q == [r EXCEPT !.outInt = i, !.outNeeds = n, !.outRev = rev, !.deltaInd = b, !.delta = d]
           p == [FreeOutbound(r) EXCEPT !.outRev = rev]
<1>0. s \in NodeType
  BY DEF Exact
<1>1. r \in RemoteType /\ s.interests \in CountVector(Bits) /\ s.needs \in CountVector(FHBits)
  BY <1>0 DEF NodeType
<1>2. i \in SUBSET Bits /\ n \in SUBSET FHBits
  <2>1. /\ CVDel(s.interests, r.inInt) \in CountVector(Bits)
        /\ CVDel(s.needs, r.inNeeds) \in CountVector(FHBits)
    BY <1>1, CountVectors
  <2>2. /\ CVUnion(CVDel(s.interests, r.inInt)) \in SUBSET Bits
        /\ CVIntersection(CVDel(s.needs, r.inNeeds)) \in SUBSET FHBits
        /\ CVUnion(s.interests) \in SUBSET Bits /\ CVIntersection(s.needs) \in SUBSET FHBits
    BY <1>1, <2>1, CountVectors
  <2> QED BY <2>2 DEF OutboundInterests, OutboundNeeds
<1>3. UpdateOutboundInterests(s, m) = IF r.state = "UNLINKING" THEN Put(s, m, p) ELSE Put(t, m, q)
  BY <1>1 DEF UpdateOutboundInterests, RemoteType
<1>4. Exact(t, U) /\ t.remote = s.remote /\ Linked(t) = Linked(s)
  BY FaultExact DEF Check, MayFail
<1> HIDE DEF t, i, n
<1>5. r.outRev \in Nat /\ r.outInt \in Vector(Bits) /\ r.delta \in Vector(Bits)
  BY <1>1 DEF RemoteType
<1>6. rev \in Nat
  BY <1>5
<1> HIDE DEF rev
<1>7. d \in Vector(Bits) /\ b \in BOOLEAN
  BY <1>2, <1>5 DEF Vector, Xor
<1> HIDE DEF d, b
<1>8. Keeps(r, q) /\ q.state = r.state /\ (Hushed(r) => Hushed(q))
  BY <1>1, <1>2, <1>6, <1>7, ZenonT(40) DEF RemoteType, Vector, Keeps, Hushed
<1>9. Keeps(r, p) /\ p.state = r.state /\ (Hushed(r) => Hushed(p))
  <2> DEFINE f == FreeOutbound(r)
  <2>1. Keeps(r, f) /\ f.state = r.state /\ (Hushed(r) => Hushed(f))
    BY <1>1, OutboundKeeps
  <2> HIDE DEF f
  <2>2. p = [f EXCEPT !.outRev = rev]
    BY DEF f
  <2> QED BY <1>6, <2>1, <2>2 DEF RemoteType, Keeps, Hushed
<1>12. t.remote[m] = r
  BY <1>4
<1> HIDE DEF p, q, r
<1>10. Exact(Put(s, m, p), U) /\ Linked(Put(s, m, p)) = Linked(s) /\ Put(s, m, p).remote[m] = p
  BY <1>9, PutQuiet DEF Keeps, r
<1>11. Exact(Put(t, m, q), U) /\ Linked(Put(t, m, q)) = Linked(s) /\ Put(t, m, q).remote[m] = q
  BY <1>4, <1>8, <1>12, PutQuiet DEF Keeps
<1> QED BY <1>3, <1>8, <1>9, <1>10, <1>11 DEF Keeps, r

\* A failed send deletes the remote.
LEMMA FailedExact ==
    ASSUME NEW s, NEW U, NEW m \in Nodes, NEW r, Exact(s, U \cup {m}), Keeps(s.remote[m], r),
           m \in Linked(s) \/ (Exact(s, U) /\ Hushed(r))
    PROVE  Exact(DeleteRemoteNode(Put(s, m, r), m), U)
<1>1. Exact(Put(s, m, r), U \cup {m}) /\ Linked(Put(s, m, r)) = Linked(s)
  <2> DEFINE V == U \cup {m}
  <2>1. V \cup {m} = V /\ m \in V
    OBVIOUS
  <2>2. Exact(s, V \cup {m})
    BY <2>1
  <2>3. r \in RemoteType /\ r.inInt = s.remote[m].inInt /\ r.inNeeds = s.remote[m].inNeeds
    BY DEF Keeps
  <2> HIDE DEF V
  <2>4. Exact(Put(s, m, r), V) /\ Linked(Put(s, m, r)) = Linked(s)
    BY <2>1, <2>2, <2>3, PutExact
  <2> QED BY <2>4 DEF V
<1>2. Exact(s, U) /\ Hushed(r) => Exact(Put(s, m, r), U)
  BY PutQuiet DEF Keeps
<1> QED BY <1>1, <1>2, DeleteExact

\* DPS_SendSubscription to a remote that is not muted.
LEMMA SendSubscriptionExact ==
    ASSUME NEW s, NEW U, NEW m \in Nodes, NEW e, Exact(s, U), s.remote[m].state # "MUTED"
    PROVE  Exact(SendSubscription(s, m, e), U)
<1> DEFINE r == s.remote[m]
           msg == SubMsg(s, m)
           c == Check(s, r.state # "MUTED", "sub to muted")
           t == Check(c, WellFormed(msg), "null interests")
           failed == [r EXCEPT !.sakPending = FALSE]
           n == IF r.sakPending THEN r.sakCounter ELSE 0
           sent == [r EXCEPT !.sakPending = TRUE, !.lastSubMsgType = "SUB", !.sakCounter = n]
           u == Put(t, m, sent)
           v == [u EXCEPT !.sending = @ \cup {m}]
<1>1. s \in NodeType /\ r \in RemoteType
  BY DEF Exact, NodeType
<1>2. msg \in Messages
  BY <1>1, MessageTypes
<1>3. SendSubscription(s, m, e) =
        IF m \in e.fail THEN DeleteRemoteNode(Put(t, m, failed), m) ELSE Emit(v, m, msg)
  BY <1>1 DEF SendSubscription, RemoteType
<1> HIDE DEF msg
<1>4. Exact(c, U) /\ c.remote = s.remote
  BY DEF Check
<1> HIDE DEF c
<1>6. Exact(t, U) /\ t.remote = c.remote
  BY <1>4, FaultExact DEF Check, MayFail
<1> HIDE DEF t
<1>7. t.remote[m] = r
  BY <1>4, <1>6
<1>8. n \in Nat
  BY <1>1 DEF RemoteType
<1>9. Keeps(r, failed) /\ Keeps(r, sent) /\ Hushed(failed) /\ Hushed(sent)
  BY <1>1, <1>8 DEF RemoteType, Keeps, Hushed
<1> HIDE DEF failed, sent, n, r
<1>10. Exact(t, U \cup {m})
  BY <1>6, ExactMore
<1>11. Exact(u, U)
  BY <1>7, <1>9, <1>10, PutExact DEF Keeps
<1> HIDE DEF u
<1>12. Exact(v, U)
  <2>1. u \in NodeType
    BY <1>11 DEF Exact
  <2>2. v.remote = u.remote /\ Linked(v) = Linked(u) /\ Frame(u, v)
    BY <2>1, ZenonT(40) DEF NodeType, Frame, Linked
  <2> QED BY <1>11, <2>2, ExactFields
<1> HIDE DEF v
<1>13. Exact(Emit(v, m, msg), U)
  BY <1>2, <1>12, EmitExact
<1>14. Exact(DeleteRemoteNode(Put(t, m, failed), m), U)
  BY <1>6, <1>7, <1>9, <1>10, FailedExact
<1> QED BY <1>3, <1>13, <1>14

\* DPS_SendSubscriptionAck: what was sent last is no SUB, also to a remote that
\* was muted a moment ago.
LEMMA SendAckExact ==
    ASSUME NEW s, NEW U, NEW m \in Linked(s), NEW e, NEW collision \in BOOLEAN, Exact(s, U \cup {m})
    PROVE  Exact(SendSubscriptionAck(s, m, collision, e), U)
<1> DEFINE r == Unmuted(s.remote[m])
           req == ~collision /\ r.sendInterests
           msg == AckMsg(s, m, req)
           t == Check(s, WellFormed(msg), "null interests")
           failed == [r EXCEPT !.sakPending = FALSE]
           n == IF req /\ ~r.sakPending THEN 0 ELSE r.sakCounter
           last == IF req THEN "SAK" ELSE "none"
           sent == [r EXCEPT !.sakPending = req, !.lastSubMsgType = last, !.sakCounter = n]
<1>0. s \in NodeType /\ m \in Nodes
  BY LinkedNodes DEF Exact
<1>1. s.remote[m] \in RemoteType
  BY <1>0 DEF NodeType
<1>2. r \in RemoteType /\ Keeps(s.remote[m], r)
  BY <1>1, OutboundKeeps DEF Keeps
<1>3. SendSubscriptionAck(s, m, collision, e) =
        IF m \in e.fail THEN DeleteRemoteNode(Put(t, m, failed), m) ELSE Emit(Put(t, m, sent), m, msg)
  BY <1>2 DEF SendSubscriptionAck, RemoteType
<1> HIDE DEF r
<1>4. req \in BOOLEAN /\ n \in Nat /\ last \in {"none", "SAK"}
  BY <1>2 DEF RemoteType
<1> HIDE DEF req, n, last
<1>5. msg \in Messages
  BY <1>0, <1>4, MessageTypes
<1> HIDE DEF msg
<1>6. Exact(t, U \cup {m}) /\ t.remote = s.remote /\ Linked(t) = Linked(s)
  BY FaultExact DEF Check, MayFail
<1> HIDE DEF t
<1>8. Keeps(s.remote[m], failed) /\ Keeps(s.remote[m], sent) /\ Hushed(sent)
  BY <1>2, <1>4 DEF RemoteType, Keeps, Hushed
<1> HIDE DEF failed, sent
<1>9. Exact(Put(t, m, sent), U)
  BY <1>0, <1>6, <1>8, PutExact DEF Keeps
<1>10. Exact(Emit(Put(t, m, sent), m, msg), U)
  BY <1>0, <1>5, <1>9, EmitExact
<1>11. Exact(DeleteRemoteNode(Put(t, m, failed), m), U)
  BY <1>0, <1>6, <1>8, FailedExact
<1> QED BY <1>3, <1>10, <1>11

\* DPS_MuteRemoteNode: until the SUB or SAK that caused it is answered, a SUB may be
\* what was sent last.
LEMMA MuteExact ==
    ASSUME NEW s, NEW U, NEW m \in Linked(s), Exact(s, U)
    PROVE  Exact(MuteRemoteNode(s, m), U \cup {m}) /\ Linked(MuteRemoteNode(s, m)) = Linked(s)
<1> DEFINE f == FreeOutbound(s.remote[m])
           r == [f EXCEPT !.state = "MUTED", !.sendInterests = FALSE]
           t == Put(s, m, r)
           u == RemoveRemoteNode(t, m)
           v == InsertRemoteNode(u, m)
<1>1. s \in NodeType /\ m \in Nodes
  BY LinkedNodes DEF Exact
<1>2. s.remote[m] \in RemoteType
  BY <1>1 DEF NodeType
<1>3. Keeps(s.remote[m], r)
  <2>1. Keeps(s.remote[m], f)
    BY <1>2, OutboundKeeps
  <2> HIDE DEF f
  <2> QED BY <2>1 DEF RemoteType, RemoteStates, Keeps
<1>4. Exact(s, (U \cup {m}) \cup {m})
  BY ExactMore
<1>5. MuteRemoteNode(s, m) = IF s.remote[m].state \in {"MUTED", "UNLINKING"} THEN s ELSE v
  BY DEF MuteRemoteNode
<1> HIDE DEF r
<1>6. Exact(t, U \cup {m}) /\ Linked(t) = Linked(s)
  <2>1. r \in RemoteType /\ r.inInt = s.remote[m].inInt /\ r.inNeeds = s.remote[m].inNeeds
    BY <1>3 DEF Keeps
  <2>2. m \in U \cup {m}
    OBVIOUS
  <2> QED BY <1>1, <1>4, <2>1, <2>2, PutExact
<1> HIDE DEF t
<1>7. t \in NodeType
  BY <1>6 DEF Exact
<1>8. u \in NodeType /\ u = [t EXCEPT !.remoteNodes = u.remoteNodes] /\ Linked(u) = Linked(t) \ {m}
  BY <1>6, <1>7, RemoveNode
<1> HIDE DEF u
<1>9. v \in NodeType /\ v = [u EXCEPT !.remoteNodes = v.remoteNodes] /\ Linked(v) = Linked(u) \cup {m}
  BY <1>1, <1>8, InsertNode
<1> HIDE DEF v
<1>10. /\ u.remote = t.remote /\ u.subs = t.subs /\ u.interests = t.interests /\ u.needs = t.needs
       /\ u.fault = t.fault
  BY <1>7, <1>8 DEF NodeType
<1>11. /\ v.remote = u.remote /\ v.subs = u.subs /\ v.interests = u.interests /\ v.needs = u.needs
       /\ v.fault = u.fault
  BY <1>8, <1>9 DEF NodeType
<1>12. Frame(t, v) /\ v.remote = t.remote /\ Linked(v) = Linked(s)
  BY <1>6, <1>8, <1>9, <1>10, <1>11 DEF Frame
<1>13. Exact(v, U \cup {m})
  BY <1>6, <1>12, ExactFields
<1>14. Exact(s, U \cup {m})
  BY ExactMore
<1> QED BY <1>5, <1>12, <1>13, <1>14

\* DPS_UnmuteRemoteNode, whose SUB goes to a remote that is no longer muted.
LEMMA UnmuteExact ==
    ASSUME NEW s, NEW U, NEW m \in Nodes, NEW e, e.fresh \in Nat, Exact(s, U)
    PROVE  Exact(UnmuteRemoteNode(s, m, e), U)
<1> DEFINE f == ClearOutboundInterests(s.remote[m])
           r == [f EXCEPT !.state = "UNMUTING", !.sakCounter = 0]
           u == Put(s, m, r)
           t == [u EXCEPT !.meshId = e.fresh]
           v == UpdateOutboundInterests(t, m)
<1>1. s \in NodeType /\ s.remote[m] \in RemoteType
  BY DEF Exact, NodeType
<1>2. Keeps(s.remote[m], r) /\ r.state = "UNMUTING" /\ Hushed(r)
  <2>1. Keeps(s.remote[m], f)
    BY <1>1, OutboundKeeps
  <2> HIDE DEF f
  <2> QED BY <2>1 DEF RemoteType, RemoteStates, Keeps, Hushed
<1>3. UnmuteRemoteNode(s, m, e) =
        IF s.remote[m].state \notin {"MUTED", "UNMUTING"} THEN s ELSE SendSubscription(v, m, e)
  BY DEF UnmuteRemoteNode
<1> HIDE DEF r
<1>4. Exact(u, U) /\ u.remote[m] = r
  BY <1>2, PutQuiet DEF Keeps
<1> HIDE DEF u
<1>5. Exact(t, U) /\ t.remote = u.remote
  <2>1. u \in NodeType
    BY <1>4 DEF Exact
  <2>2. t.remote = u.remote /\ Linked(t) = Linked(u) /\ Frame(u, t)
    BY <2>1 DEF NodeType, Frame, Linked
  <2> QED BY <1>4, <2>2, ExactFields
<1> HIDE DEF t
<1>6. Exact(v, U) /\ v.remote[m].state = "UNMUTING"
  BY <1>2, <1>4, <1>5, UpdateOutboundExact
<1> HIDE DEF v
<1>7. Exact(SendSubscription(v, m, e), U)
  BY <1>6, SendSubscriptionExact
<1> QED BY <1>3, <1>7

\* Unlink changes no vector and mutes nothing.
LEMMA UnlinkExact ==
    ASSUME NEW s, NEW U, NEW ms, Exact(s, U) PROVE Exact(Unlink(s, ms), U)
<1> DEFINE Unlinking(r) == [r EXCEPT !.linkRequested = FALSE, !.completion = "unlink",
                                  !.state = IF r.sakPending THEN @ ELSE "UNLINKING"]
           o == [m \in Nodes |-> s.owed[m] + (IF m \in ms THEN 1 ELSE 0)]
           f == [m \in Nodes |-> IF m \in ms THEN Unlinking(s.remote[m]) ELSE s.remote[m]]
           t == [s EXCEPT !.owed = o, !.remote = f]
<1>1. s \in NodeType
  BY DEF Exact
<1>2. o \in [Nodes -> Int]
  BY <1>1 DEF NodeType
<1>3. ASSUME NEW m \in Nodes
      PROVE  Keeps(s.remote[m], f[m]) /\ (Hushed(s.remote[m]) => Hushed(f[m]))
  <2>1. s.remote[m] \in RemoteType
    BY <1>1 DEF NodeType
  <2> DEFINE r == s.remote[m]
             z == IF r.sakPending THEN r.state ELSE "UNLINKING"
             p == [r EXCEPT !.linkRequested = FALSE, !.completion = "unlink", !.state = z]
  <2>2. f[m] = IF m \in ms THEN p ELSE r
    BY <2>1 DEF RemoteType
  <2> HIDE DEF f, r
  <2>3. z \in RemoteStates /\ (z = "MUTED" => r.state = "MUTED") /\ r \in RemoteType
    BY <2>1 DEF RemoteType, RemoteStates, r
  <2> HIDE DEF z
  <2>4. Keeps(r, p) /\ (Hushed(r) => Hushed(p))
    BY <2>3 DEF RemoteType, Keeps, Hushed
  <2>5. Keeps(r, r)
    BY <2>3 DEF Keeps
  <2> HIDE DEF p
  <2>6. Keeps(r, f[m]) /\ (Hushed(r) => Hushed(f[m]))
    BY <2>2, <2>4, <2>5
  <2> QED BY <2>6 DEF r
<1>4. Unlink(s, ms) = IF \E m \in ms : ~s.remote[m].sakPending THEN UpdateSubs(t, "now") ELSE t
  BY DEF Unlink
<1>5. f \in [Nodes -> RemoteType]
  BY <1>3 DEF Keeps
<1> HIDE DEF o, f
<1>6. /\ t \in NodeType /\ t.remote = f /\ t.subs = s.subs /\ t.interests = s.interests
      /\ t.needs = s.needs /\ t.fault = s.fault /\ t.remoteNodes = s.remoteNodes
  BY <1>1, <1>2, <1>5 DEF NodeType
<1> HIDE DEF t
<1>7. Frame(s, t) /\ Linked(t) = Linked(s) /\ Linked(s) \subseteq Nodes
  BY <1>1, <1>6, LinkedNodes DEF Frame, Linked
<1>8. \A m \in Nodes : /\ t.remote[m].inInt = s.remote[m].inInt
                       /\ t.remote[m].inNeeds = s.remote[m].inNeeds
  BY <1>3, <1>6 DEF Keeps
<1>9. Known(t) = Known(s) /\ Known(s) \subseteq Nodes
  BY <1>7, <1>8 DEF Known
<1>10. \A m \in Nodes \ U : Hushed(t.remote[m])
  BY <1>3, <1>6 DEF Exact
<1>11. Exact(t, U)
  BY <1>7, <1>8, <1>9, <1>10, ExactFrame
<1> QED BY <1>4, <1>11, UpdateSubsExact

--------------------------------------------------------------------------------
(* Completion of operations, and messages received. *)

\* A field of a remote is assigned.
LEMMA FieldPut ==
    ASSUME NEW s \in NodeType, NEW m \in Nodes
    PROVE  /\ \A v : [s EXCEPT !.remote[m].state = v] = Put(s, m, [s.remote[m] EXCEPT !.state = v])
           /\ \A v : [s EXCEPT !.remote[m].completion = v]
                        = Put(s, m, [s.remote[m] EXCEPT !.completion = v])
           /\ \A v : [s EXCEPT !.remote[m].inRev = v] = Put(s, m, [s.remote[m] EXCEPT !.inRev = v])
           /\ \A v : [s EXCEPT !.remote[m].sendInterests = v]
                        = Put(s, m, [s.remote[m] EXCEPT !.sendInterests = v])
           /\ \A v : [s EXCEPT !.remote[m].lastSubMsgType = v]
                        = Put(s, m, [s.remote[m] EXCEPT !.lastSubMsgType = v])
           /\ \A v : [s EXCEPT !.remote[m].linkRequested = v]
                        = Put(s, m, [s.remote[m] EXCEPT !.linkRequested = v])
           /\ \A v : [s EXCEPT !.remote[m].sakCounter = v]
                        = Put(s, m, [s.remote[m] EXCEPT !.sakCounter = v])
BY DEF NodeType, Put

\* RemoteCompletion of a link operation.
LEMMA LinkCompletionExact ==
    ASSUME NEW s, NEW U, NEW m \in Nodes, Exact(s, U) PROVE Exact(LinkCompletion(s, m), U)
<1> DEFINE r == s.remote[m]
           z == IF r.state = "LINKING" THEN "ACTIVE" ELSE r.state
           p == [r EXCEPT !.completion = "none", !.state = z]
           t == CallBack(Put(s, m, p), m)
<1>1. r \in RemoteType
  BY DEF Exact, NodeType
<1>2. LinkCompletion(s, m) = IF s.onShutdown THEN Unlink(t, {m}) ELSE t
  BY <1>1 DEF LinkCompletion, RemoteType
<1>3. z \in RemoteStates /\ (z = "MUTED" => r.state = "MUTED")
  BY <1>1 DEF RemoteType, RemoteStates
<1> HIDE DEF z
<1>4. Keeps(r, p) /\ (Hushed(r) => Hushed(p))
  BY <1>1, <1>3 DEF RemoteType, Keeps, Hushed
<1> HIDE DEF p
<1>5. Exact(Put(s, m, p), U)
  BY <1>4, PutQuiet DEF Keeps
<1>6. Exact(t, U)
  BY <1>5, CallBackExact
<1> HIDE DEF t
<1> QED BY <1>2, <1>6, UnlinkExact

\* RemoteCompletion of an unlink operation: the SUB it sends goes to a remote that
\* is unlinking, whether it was muted or not.
LEMMA UnlinkCompletionExact ==
    ASSUME NEW s, NEW U, NEW m \in Nodes, NEW e, Exact(s, U) PROVE Exact(UnlinkCompletion(s, m, e), U)
<1> DEFINE r == s.remote[m]
           p == [r EXCEPT !.state = "UNLINKING"]
           q == [r EXCEPT !.completion = "none"]
           t == UpdateOutboundInterests(Put(s, m, p), m)
           u == SendSubscription(t, m, e)
           v == DeleteRemoteNode(Put(s, m, q), m)
<1>0. s \in NodeType
  BY DEF Exact
<1>1. r \in RemoteType
  BY <1>0 DEF NodeType
<1>2. UnlinkCompletion(s, m, e) = IF r.state # "UNLINKING" THEN CalledTwice(u, m, e)
                                  ELSE OnShutdown(CallBack(v, m))
  <2>1. [s EXCEPT !.remote[m].state = "UNLINKING"] = Put(s, m, p)
    BY <1>0, FieldPut
  <2>2. [s EXCEPT !.remote[m].completion = "none"] = Put(s, m, q)
    BY <1>0, FieldPut
  <2> QED BY <2>1, <2>2, Zenon DEF UnlinkCompletion
<1>3. Keeps(r, p) /\ Hushed(p) /\ p.state = "UNLINKING" /\ Keeps(r, q) /\ (Hushed(r) => Hushed(q))
  BY <1>1 DEF RemoteType, RemoteStates, Keeps, Hushed
<1> HIDE DEF p, q
<1>4. Exact(Put(s, m, p), U) /\ Put(s, m, p).remote[m] = p /\ Exact(Put(s, m, q), U)
  BY <1>3, PutQuiet DEF Keeps
<1>5. Exact(t, U) /\ t.remote[m].state = "UNLINKING"
  BY <1>3, <1>4, UpdateOutboundExact
<1> HIDE DEF t
<1>6. Exact(u, U)
  BY <1>5, SendSubscriptionExact
<1> HIDE DEF u
<1>7. Exact(CallBack(u, m), U)
  BY <1>6, CallBackExact
<1>8. Exact(Fault(CallBack(u, m), "called twice"), U)
  BY <1>7, FaultExact DEF MayFail
<1>9. Exact(v, U)
  <2>1. Exact(Put(s, m, q), U \cup {m})
    BY <1>4, ExactMore
  <2> QED BY <1>4, <2>1, DeleteExact
<1> HIDE DEF v
<1>10. Exact(OnShutdown(CallBack(v, m)), U)
  BY <1>9, CallBackExact, OnShutdownExact
<1> QED BY <1>2, <1>6, <1>8, <1>10 DEF CalledTwice

\* RemoteCompletion.
LEMMA RemoteCompletionExact ==
    ASSUME NEW s, NEW U, NEW m \in Nodes, NEW e, Exact(s, U) PROVE Exact(RemoteCompletion(s, m, e), U)
<1>1. Exact(LinkCompletion(s, m), U) /\ Exact(UnlinkCompletion(s, m, e), U)
  BY LinkCompletionExact, UnlinkCompletionExact
<1> QED BY <1>1 DEF RemoteCompletion

\* DPS_UpdateInboundInterests: the remote's old vectors leave both counts, the new
\* ones enter them.
LEMMA UpdateInboundExact ==
    ASSUME NEW s, NEW U, NEW m \in Linked(s), NEW msg \in Messages, Exact(s, U),
           msg.int # NULL, msg.needs # NULL
    PROVE  LET t == UpdateInboundInterests(s, m, msg) IN Exact(t, U) /\ Linked(t) = Linked(s)
<1> DEFINE old == s.remote[m].inInt
           int == IF msg.delta /\ old # NULL THEN Xor(msg.int, old) ELSE msg.int
           t == ClearInboundInterests(s, m)
           r == t.remote[m]
           q == [r EXCEPT !.inInt = int, !.inNeeds = msg.needs]
           f == [t.remote EXCEPT ![m] = q]
           i == CVAdd(t.interests, int)
           n == CVAdd(t.needs, msg.needs)
           v == [t EXCEPT !.remote = f, !.interests = i, !.needs = n]
<1>1. s \in NodeType /\ m \in Nodes
  BY LinkedNodes DEF Exact
<1>2. int \in SUBSET Bits /\ int # NULL
  <2>1. msg.int \in SUBSET Bits /\ old \in Vector(Bits)
    BY <1>1 DEF Messages, Vector, NodeType, RemoteType
  <2> HIDE DEF old
  <2>2. int \in SUBSET Bits
    BY <2>1 DEF Vector, Xor
  <2> HIDE DEF int
  <2> QED BY <2>2, NullAssumption
<1>3. Exact(t, U) /\ Linked(t) = Linked(s) /\ r.inInt = NULL
  BY ClearExact
<1>4. UpdateInboundInterests(s, m, msg) =
        IF int = {} THEN t
        ELSE [Put(t, m, q) EXCEPT !.interests = CVAdd(@, int), !.needs = CVAdd(@, msg.needs)]
  BY DEF UpdateInboundInterests
<1> HIDE DEF t, int
<1>5. t \in NodeType /\ Known(t) \subseteq Nodes
  BY <1>3, LinkedNodes DEF Exact, Known
<1>6. /\ t.remote \in [Nodes -> RemoteType] /\ r \in RemoteType
      /\ t.interests \in CountVector(Bits) /\ t.needs \in CountVector(FHBits)
  BY <1>1, <1>5 DEF NodeType
<1>7. /\ q \in RemoteType /\ q.inInt = int /\ q.inNeeds = msg.needs
      /\ (Hushed(r) => Hushed(q))
  BY <1>2, <1>6 DEF RemoteType, Vector, Messages, Hushed
<1>8. Put(t, m, q) = [t EXCEPT !.remote = f]
  BY <1>5 DEF Put, NodeType
<1> HIDE DEF q
<1>9. f \in [Nodes -> RemoteType] /\ f[m] = q /\ \A k \in Nodes \ {m} : f[k] = t.remote[k]
  BY <1>1, <1>6, <1>7
<1> HIDE DEF f
<1>10. i \in CountVector(Bits) /\ n \in CountVector(FHBits)
  BY <1>6, CountVectors
<1>11. UpdateInboundInterests(s, m, msg) = IF int = {} THEN t ELSE v
  <2>1. [Put(t, m, q) EXCEPT !.interests = CVAdd(@, int), !.needs = CVAdd(@, msg.needs)] = v
    BY <1>5, <1>8 DEF NodeType
  <2> QED BY <1>4, <2>1
<1> DEFINE g == [k \in Nodes |-> f[k].inInt]
           h == [k \in Nodes |-> f[k].inNeeds]
<1>12. m \notin Known(t)
  BY <1>3 DEF Known
<1>13. Agree(Known(t), Inbound(t), g) /\ Agree(Known(t), InboundNeeds(t), h)
  BY <1>5, <1>9, <1>12 DEF Agree, Inbound, InboundNeeds
<1>14. g[m] = int /\ h[m] = msg.needs
  BY <1>1, <1>7, <1>9
<1> HIDE DEF g, h
<1>15. /\ Tallies(t.interests, Bits, t.subs, SubBits, Known(t), Inbound(t))
       /\ Tallies(t.needs, FHBits, t.subs, SubNeeds, Known(t), InboundNeeds(t))
  BY <1>3 DEF Exact, Counted
<1>16. Tallies(CVAdd(t.interests, g[m]), Bits, t.subs, SubBits, Known(t) \cup {m}, g)
  BY <1>6, <1>12, <1>13, <1>15, TallyAddNode
<1>17. Tallies(CVAdd(t.needs, h[m]), FHBits, t.subs, SubNeeds, Known(t) \cup {m}, h)
  BY <1>6, <1>12, <1>13, <1>15, TallyAddNode
<1>18. /\ Tallies(i, Bits, t.subs, SubBits, Known(t) \cup {m}, g)
       /\ Tallies(n, FHBits, t.subs, SubNeeds, Known(t) \cup {m}, h)
  BY <1>14, <1>16, <1>17
<1> HIDE DEF i, n
<1>19. /\ v \in NodeType /\ v.remote = f /\ v.interests = i /\ v.needs = n /\ v.subs = t.subs
       /\ v.fault = t.fault /\ v.remoteNodes = t.remoteNodes
  BY <1>5, <1>9, <1>10 DEF NodeType
<1> HIDE DEF v
<1>20. Linked(v) = Linked(t)
  BY <1>19 DEF Linked
<1>21. Known(v) = Known(t) \cup {m}
  <2>1. \A k \in Nodes \ {m} : v.remote[k] = t.remote[k]
    BY <1>9, <1>19
  <2>2. v.remote[m].inInt # NULL
    BY <1>2, <1>7, <1>9, <1>19
  <2>3. m \in Linked(v) /\ Linked(v) \subseteq Nodes
    BY <1>3, <1>5, <1>19, <1>20, LinkedNodes
  <2> QED BY <1>20, <2>1, <2>2, <2>3 DEF Known
<1>22. Inbound(v) = g /\ InboundNeeds(v) = h
  BY <1>19 DEF Inbound, InboundNeeds, g, h
<1>23. Counted(v)
  BY <1>18, <1>19, <1>21, <1>22 DEF Counted
<1>24. \A k \in Nodes : Hushed(t.remote[k]) => Hushed(v.remote[k])
  BY <1>7, <1>9, <1>19
<1>25. Exact(v, U)
  BY <1>3, <1>19, <1>23, <1>24 DEF Exact
<1> QED BY <1>3, <1>11, <1>20, <1>25

\* A message that asks for a SAK announces interests and needs.
Announces(msg) == msg.sakReq => msg.int # NULL /\ msg.needs # NULL

\* The loop check mutes a remote, an unmuting SUB unmutes it.
LEMMA MuteOrUnmuteExact ==
    ASSUME NEW s, NEW U, NEW m \in Linked(s), NEW msg, NEW e, Choice(e), Exact(s, U)
    PROVE  LET t == MuteOrUnmute(s, m, msg, e)
           IN  Exact(t, U \cup {m}) /\ (m \in Linked(t) \/ Exact(t, U))
<1>1. m \in Nodes
  BY LinkedNodes DEF Exact
<1>2. Exact(UnmuteRemoteNode(s, m, e), U)
  BY <1>1, UnmuteExact DEF Choice
<1>3. Exact(UnmuteRemoteNode(s, m, e), U \cup {m}) /\ Exact(s, U \cup {m})
  BY <1>2, ExactMore
<1>4. Exact(MuteRemoteNode(s, m), U \cup {m}) /\ m \in Linked(MuteRemoteNode(s, m))
  BY MuteExact
<1> QED BY <1>2, <1>3, <1>4 DEF MuteOrUnmute

\* The interests in the first SAK.
LEMMA FirstSakExact ==
    ASSUME NEW s, NEW U, NEW m \in Linked(s), NEW dup, Exact(s, U)
    PROVE  Exact(FirstSak(s, m, dup), U) /\ Linked(FirstSak(s, m, dup)) = Linked(s)
<1> DEFINE c == Check(s, ~dup, "duplicate from new")
           t == UpdateOutboundInterests(c, m)
           x == Changes(s, m)
           p == [t.remote[m] EXCEPT !.sendInterests = x]
<1>0. m \in Nodes /\ s \in NodeType
  BY LinkedNodes DEF Exact
<1>1. Exact(c, U) /\ Linked(c) = Linked(s)
  BY FaultExact DEF Check, MayFail
<1> HIDE DEF c
<1>2. Exact(t, U) /\ Linked(t) = Linked(s) /\ t.remote[m] \in RemoteType
  BY <1>0, <1>1, UpdateOutboundExact
<1>3. x \in BOOLEAN
  BY DEF Changes
<1>4. FirstSak(s, m, dup) = IF s.remote[m].state # "NEW" THEN s ELSE Put(t, m, p)
  <2>1. t \in NodeType
    BY <1>2 DEF Exact
  <2>2. [t EXCEPT !.remote[m].sendInterests = x] = Put(t, m, p)
    BY <1>0, <2>1, FieldPut
  <2> QED BY <2>2, Zenon DEF FirstSak, c
<1> HIDE DEF t, x
<1>5. Keeps(t.remote[m], p) /\ (Hushed(t.remote[m]) => Hushed(p))
  BY <1>2, <1>3 DEF RemoteType, Keeps, Hushed
<1> HIDE DEF p
<1>6. Exact(Put(t, m, p), U) /\ Linked(Put(t, m, p)) = Linked(s)
  BY <1>0, <1>2, <1>5, PutQuiet DEF Keeps
<1> QED BY <1>4, <1>6

\* After the answer to its message no remote is muted with a SUB as the last message.
LEMMA AnswerExact ==
    ASSUME NEW s, NEW U, NEW m \in Linked(s), NEW msg, NEW collision \in BOOLEAN, NEW dup, NEW e,
           Exact(s, U \cup {m})
    PROVE  Exact(Answer(s, m, msg, collision, dup, e), U)
<1> DEFINE t == FirstSak(s, m, dup)
           p == [s.remote[m] EXCEPT !.lastSubMsgType = "none"]
<1>0. m \in Nodes /\ s \in NodeType
  BY LinkedNodes DEF Exact
<1>1. Exact(t, U \cup {m}) /\ m \in Linked(t)
  BY FirstSakExact
<1>2. Answer(s, m, msg, collision, dup, e) =
        IF msg.sakReq THEN SendSubscriptionAck(t, m, collision, e) ELSE Put(s, m, p)
  <2>1. [s EXCEPT !.remote[m].lastSubMsgType = "none"] = Put(s, m, p)
    BY <1>0, FieldPut
  <2> QED BY <2>1, Zenon DEF Answer
<1> HIDE DEF t
<1>3. Exact(SendSubscriptionAck(t, m, collision, e), U)
  BY <1>1, SendAckExact
<1>4. s.remote[m] \in RemoteType
  BY <1>0 DEF NodeType
<1>5. Keeps(s.remote[m], p) /\ Hushed(p)
  BY <1>4 DEF RemoteType, Keeps, Hushed
<1> HIDE DEF p
<1>6. Exact(Put(s, m, p), U)
  BY <1>0, <1>5, PutExact DEF Keeps
<1> QED BY <1>2, <1>3, <1>6

\* The end of DecodeSubscription.
LEMMA ConcludeExact ==
    ASSUME NEW s, NEW U, NEW m \in Nodes, NEW msg \in Messages, Exact(s, U)
    PROVE  Exact(Conclude(s, m, msg), U)
<1> DEFINE r == s.remote[m]
           z == IF r.state = "NEW" THEN "ACTIVE" ELSE r.state
           p == [r EXCEPT !.inMesh = msg.mesh, !.state = z]
<1>0. s \in NodeType
  BY DEF Exact
<1>1. r \in RemoteType /\ msg.mesh \in Nat
  BY <1>0 DEF NodeType, Messages
<1>2. Conclude(s, m, msg) = IF m \notin Linked(s) THEN Fault(s, "freed remote") ELSE Put(s, m, p)
  BY <1>1 DEF Conclude, RemoteType
<1>3. z \in RemoteStates /\ (z = "MUTED" => r.state = "MUTED")
  BY <1>1 DEF RemoteType, RemoteStates
<1> HIDE DEF z
<1>4. Keeps(r, p) /\ (Hushed(r) => Hushed(p))
  BY <1>1, <1>3 DEF RemoteType, Keeps, Hushed
<1> HIDE DEF p
<1>5. Exact(Put(s, m, p), U)
  BY <1>4, PutQuiet DEF Keeps
<1>6. Exact(Fault(s, "freed remote"), U)
  BY FaultExact DEF MayFail
<1> QED BY <1>2, <1>5, <1>6

\* DecodeSubscription from the point where the remote is known.
LEMMA AcceptExact ==
    ASSUME NEW s, NEW U, NEW m \in Linked(s), NEW msg \in Messages, NEW collision \in BOOLEAN, NEW e,
           Choice(e), Announces(msg), Exact(s, U)
    PROVE  Exact(Accept(s, m, msg, collision, e), U)
<1> DEFINE dup == s.remote[m].inRev = msg.rev
           p == [s.remote[m] EXCEPT !.inRev = msg.rev]
           t == Put(s, m, p)
           u == MuteOrUnmute(t, m, msg, e)
           v == Learn(u, m, msg, dup)
           w == Answer(v, m, msg, collision, dup, e)
<1>0. m \in Nodes /\ s \in NodeType
  BY LinkedNodes DEF Exact
<1>1. s.remote[m] \in RemoteType /\ msg.rev \in Nat
  BY <1>0 DEF NodeType, Messages
<1>2. Keeps(s.remote[m], p) /\ (Hushed(s.remote[m]) => Hushed(p))
  BY <1>1 DEF RemoteType, Keeps, Hushed
<1>3. Accept(s, m, msg, collision, e) =
        IF m \notin Linked(u) THEN Fault(u, "freed remote") ELSE Conclude(w, m, msg)
  <2>1. [s EXCEPT !.remote[m].inRev = msg.rev] = Put(s, m, p)
    BY <1>0, FieldPut
  <2> QED BY <2>1, Zenon DEF Accept, Exchange
<1> HIDE DEF p, dup
<1>4. Exact(t, U) /\ m \in Linked(t)
  BY <1>0, <1>2, PutQuiet DEF Keeps
<1> HIDE DEF t
<1>5. Exact(u, U \cup {m}) /\ (m \in Linked(u) \/ Exact(u, U))
  BY <1>4, MuteOrUnmuteExact
<1> HIDE DEF u
<1>6. CASE m \notin Linked(u)
  <2>1. Exact(Fault(u, "freed remote"), U)
    BY <1>5, <1>6, FaultExact DEF MayFail
  <2> QED BY <1>3, <1>6, <2>1
<1>7. CASE m \in Linked(u)
  <2>1. Exact(v, U \cup {m}) /\ m \in Linked(v)
    <3>1. CASE msg.sakReq
      <4>1. msg.int # NULL /\ msg.needs # NULL
        BY <3>1 DEF Announces
      <4>2. LET x == UpdateInboundInterests(u, m, msg) IN Exact(x, U \cup {m}) /\ Linked(x) = Linked(u)
        BY <1>5, <1>7, <4>1, UpdateInboundExact
      <4> QED BY <1>5, <1>7, <4>2 DEF Learn
    <3>2. CASE ~msg.sakReq
      BY <1>5, <1>7, <3>2 DEF Learn
    <3> QED BY <3>1, <3>2
  <2> HIDE DEF v
  <2>2. Exact(w, U)
    BY <2>1, AnswerExact
  <2> HIDE DEF w
  <2>3. Exact(Conclude(w, m, msg), U)
    BY <1>0, <2>2, ConcludeExact
  <2> QED BY <1>3, <1>7, <2>3
<1> QED BY <1>6, <1>7

\* UnlinkRemote.
LEMMA ReceiveUnlinkExact ==
    ASSUME NEW s, NEW U, NEW m \in Linked(s), NEW msg \in Messages, NEW e, Exact(s, U)
    PROVE  Exact(ReceiveUnlink(s, m, msg, e), U)
<1> DEFINE r == [s.remote[m] EXCEPT !.sendInterests = FALSE, !.inRev = msg.rev]
           v == Put(s, m, r)
           t == SendSubscriptionAck(v, m, FALSE, e)
           c == Check(t, m \notin e.fail, "freed remote")
           p == [c.remote[m] EXCEPT !.linkRequested = FALSE]
           u == Put(c, m, p)
<1>0. m \in Nodes /\ s \in NodeType
  BY LinkedNodes DEF Exact
<1>1. s.remote[m] \in RemoteType /\ msg.rev \in Nat
  BY <1>0 DEF NodeType, Messages
<1>2. Keeps(s.remote[m], r) /\ (Hushed(s.remote[m]) => Hushed(r))
  BY <1>1 DEF RemoteType, Keeps, Hushed
<1>3. ReceiveUnlink(s, m, msg, e) =
        UpdateSubs(DeleteRemoteNode([c EXCEPT !.remote[m].linkRequested = FALSE], m), "now")
  BY DEF ReceiveUnlink
<1> HIDE DEF r
<1>4. Exact(v, U) /\ m \in Linked(v)
  BY <1>0, <1>2, PutQuiet DEF Keeps
<1>12. Exact(v, U \cup {m})
  BY <1>4, ExactMore
<1> HIDE DEF v
<1>5. Exact(t, U)
  <2>1. \A b \in BOOLEAN : Exact(SendSubscriptionAck(v, m, b, e), U)
    BY <1>4, <1>12, SendAckExact
  <2> QED BY <2>1
<1> HIDE DEF t
<1>6. Exact(c, U)
  BY <1>5, FaultExact DEF Check, MayFail
<1> HIDE DEF c
<1>7. c \in NodeType
  BY <1>6 DEF Exact
<1>8. c.remote[m] \in RemoteType /\ [c EXCEPT !.remote[m].linkRequested = FALSE] = u
  <2>1. c.remote[m] \in RemoteType
    BY <1>0, <1>7 DEF NodeType
  <2>2. [c EXCEPT !.remote[m].linkRequested = FALSE] = u
    BY <1>0, <1>7 DEF NodeType, Put
  <2> QED BY <2>1, <2>2
<1>9. Keeps(c.remote[m], p) /\ (Hushed(c.remote[m]) => Hushed(p))
  BY <1>8 DEF RemoteType, Keeps, Hushed
<1> HIDE DEF p
<1>10. Exact(u, U)
  BY <1>0, <1>6, <1>9, PutQuiet DEF Keeps
<1> HIDE DEF u
<1>11. Exact(DeleteRemoteNode(u, m), U)
  <2>1. Exact(u, U \cup {m})
    BY <1>10, ExactMore
  <2> QED BY <1>0, <1>10, <2>1, DeleteExact
<1> QED BY <1>3, <1>8, <1>11, UpdateSubsExact

\* A remote off the list is overwritten.
LEMMA PutUnlinked ==
    ASSUME NEW s, NEW U, NEW m \in Nodes \ Linked(s), NEW r \in RemoteType, Exact(s, U), Hushed(r)
    PROVE  /\ Exact(Put(s, m, r), U) /\ Linked(Put(s, m, r)) = Linked(s)
           /\ Put(s, m, r).remote[m] = r
<1> DEFINE t == Put(s, m, r)
           f == [s.remote EXCEPT ![m] = r]
<1>1. s \in NodeType /\ Known(s) \subseteq Nodes
  BY LinkedNodes DEF Exact, Known
<1>2. t = [s EXCEPT !.remote = f] /\ s.remote \in [Nodes -> RemoteType]
  BY <1>1 DEF NodeType, Put
<1> HIDE DEF t
<1>3. f \in [Nodes -> RemoteType] /\ f[m] = r /\ \A k \in Nodes \ {m} : f[k] = s.remote[k]
  BY <1>2
<1> HIDE DEF f
<1>4. /\ t \in NodeType /\ t.subs = s.subs /\ t.interests = s.interests /\ t.needs = s.needs
      /\ t.fault = s.fault /\ t.remoteNodes = s.remoteNodes /\ t.remote = f
  BY <1>1, <1>2, <1>3 DEF NodeType
<1>5. Frame(s, t) /\ Linked(t) = Linked(s) /\ Linked(s) \subseteq Nodes
  BY <1>1, <1>4, LinkedNodes DEF Frame, Linked
<1>6. \A k \in Linked(s) : t.remote[k] = s.remote[k]
  BY <1>3, <1>4, <1>5
<1>7. Known(t) = Known(s) /\ \A k \in Known(s) : t.remote[k] = s.remote[k]
  BY <1>5, <1>6 DEF Known
<1>8. \A k \in Nodes : Hushed(s.remote[k]) => Hushed(t.remote[k])
  BY <1>3, <1>4
<1>9. \A k \in Nodes \ U : Hushed(t.remote[k])
  BY <1>8 DEF Exact
<1>10. Exact(t, U)
  BY <1>5, <1>7, <1>9, ExactFrame
<1> QED BY <1>3, <1>4, <1>5, <1>10 DEF t

\* DPS_AddRemoteNode.
LEMMA AddRemoteExact ==
    ASSUME NEW s, NEW U, NEW m \in Nodes, Exact(s, U)
    PROVE  Exact(AddRemoteNode(s, m), U) /\ m \in Linked(AddRemoteNode(s, m))
<1> DEFINE r == ClearOutboundInterests(NewRemote)
           t == Put(s, m, r)
<1>1. NewRemote \in RemoteType
  BY NewRemoteType
<1>2. r \in RemoteType /\ r.inInt = NULL /\ Hushed(r)
  BY <1>1, OutboundTypes DEF ClearOutboundInterests, NewRemote, Hushed
<1> HIDE DEF r
<1>3. CASE m \in Linked(s)
  BY <1>3 DEF AddRemoteNode
<1>4. CASE m \notin Linked(s)
  <2>1. Exact(t, U) /\ Linked(t) = Linked(s) /\ t.remote[m] = r
    BY <1>2, <1>4, PutUnlinked
  <2>2. AddRemoteNode(s, m) = InsertRemoteNode(t, m)
    BY <1>4 DEF AddRemoteNode, r
  <2> HIDE DEF t
  <2>3. Exact(InsertRemoteNode(t, m), U) /\ m \in Linked(InsertRemoteNode(t, m))
    BY <1>2, <1>4, <2>1, InsertExact
  <2> QED BY <2>2, <2>3
<1> QED BY <1>3, <1>4

\* DPS_DecodeSubscription.
LEMMA DecodeSubscriptionExact ==
    ASSUME NEW s, NEW U, NEW m \in Nodes, NEW msg \in Messages, NEW e, Choice(e), WellFormed(msg),
           msg.type = "SUB", Exact(s, U)
    PROVE  Exact(DecodeSubscription(s, m, msg, e), U)
<1> DEFINE col == m \in Linked(s) /\ s.remote[m].sakPending
           t == AddRemoteNode(s, m)
           u == ReceiveSub(t, m, msg, col, e)
<1>0. s \in NodeType
  BY DEF Exact
<1>1. CASE msg.unlink
  <2>1. m \in Linked(s) => Exact(ReceiveUnlink(s, m, msg, e), U)
    BY ReceiveUnlinkExact
  <2> QED BY <1>1, <2>1 DEF DecodeSubscription
<1>2. CASE ~msg.unlink
  <2>1. Announces(msg)
    BY <1>2 DEF WellFormed, Announces
  <2>2. col \in BOOLEAN
    BY <1>0 DEF NodeType, RemoteType
  <2>3. DecodeSubscription(s, m, msg, e) = FinishSub(u, m, e)
    BY <1>2 DEF DecodeSubscription
  <2> HIDE DEF col
  <2>4. Exact(t, U) /\ m \in Linked(t)
    BY AddRemoteExact
  <2> HIDE DEF t
  <2>5. Exact(Accept(t, m, msg, col, e), U)
    BY <2>1, <2>2, <2>4, AcceptExact
  <2>6. Exact(Propagate(Accept(t, m, msg, col, e), m, e), U)
    BY <2>5, UpdateSubsExact DEF Propagate
  <2>7. Exact(u, U)
    BY <2>4, <2>6 DEF ReceiveSub
  <2> HIDE DEF u
  <2>8. Exact(FinishSub(u, m, e), U)
    BY <2>7, RemoteCompletionExact DEF FinishSub
  <2> QED BY <2>3, <2>8
<1> QED BY <1>1, <1>2

\* DPS_DecodeSubscriptionAck.
LEMMA DecodeAckExact ==
    ASSUME NEW s, NEW U, NEW m \in Nodes, NEW msg \in Messages, NEW e, Choice(e), WellFormed(msg),
           msg.type = "SAK", Exact(s, U)
    PROVE  Exact(DecodeSubscriptionAck(s, m, msg, e), U)
<1>1. CASE m \notin Linked(s) \/ Stale(s, m, msg)
  BY <1>1 DEF DecodeSubscriptionAck
<1>2. CASE m \in Linked(s) /\ ~Stale(s, m, msg)
  <2> DEFINE t == Accept(s, m, msg, FALSE, e)
             r == t.remote[m]
             z == IF r.state = "UNMUTING" THEN "ACTIVE" ELSE r.state
             p == [r EXCEPT !.sendInterests = FALSE, !.sakPending = FALSE, !.state = z]
  <2>1. Announces(msg)
    BY DEF WellFormed, Announces
  <2>2. Exact(t, U)
    <3>1. \A b \in BOOLEAN : Exact(Accept(s, m, msg, b, e), U)
      BY <1>2, <2>1, AcceptExact
    <3> QED BY <3>1
  <2>3. DecodeSubscriptionAck(s, m, msg, e) = Acknowledged(t, m, msg, e)
    BY <1>2 DEF DecodeSubscriptionAck
  <2> HIDE DEF t
  <2>4. t \in NodeType
    BY <2>2 DEF Exact
  <2>5. r \in RemoteType
    BY <2>4 DEF NodeType
  <2>6. Acknowledged(t, m, msg, e) = IF m \notin Linked(t) \/ r.outRev # msg.ackRev THEN t
                                     ELSE RemoteCompletion(Put(t, m, p), m, e)
    BY <2>5 DEF Acknowledged, RemoteType
  <2>7. z \in RemoteStates /\ (z = "MUTED" => r.state = "MUTED")
    BY <2>5 DEF RemoteType, RemoteStates
  <2> HIDE DEF z
  <2>8. Keeps(r, p) /\ (Hushed(r) => Hushed(p))
    BY <2>5, <2>7 DEF RemoteType, Keeps, Hushed
  <2> HIDE DEF p
  <2>9. Exact(Put(t, m, p), U)
    BY <2>2, <2>8, PutQuiet DEF Keeps
  <2>10. Exact(RemoteCompletion(Put(t, m, p), m, e), U)
    BY <2>9, RemoteCompletionExact
  <2> QED BY <2>2, <2>3, <2>6, <2>10
<1> QED BY <1>1, <1>2

--------------------------------------------------------------------------------
(* The actions. *)

\* The counts of every node are exact.
Precise == \A n \in Nodes : Exact(node[n], {})

\* A handler returns.
LEMMA ReturnExact ==
    ASSUME IInv, Precise, NEW n \in Nodes, NEW s, NEW rest, Exact(s, {}), Return(n, s, rest)
    PROVE  Precise'
<1> DEFINE o == [m \in Nodes |-> <<>>]
           t == [s EXCEPT !.out = o]
<1>1. s \in NodeType /\ node \in [Nodes -> NodeType] /\ node' = [node EXCEPT ![n] = t]
  BY DEF IInv, TypeOK, Return, Exact
<1>2. o \in [Nodes -> Seq(Messages)]
  OBVIOUS
<1> HIDE DEF o
<1>3. /\ t \in NodeType /\ t.subs = s.subs /\ t.interests = s.interests /\ t.needs = s.needs
      /\ t.fault = s.fault /\ t.remoteNodes = s.remoteNodes /\ t.remote = s.remote
  BY <1>1, <1>2 DEF NodeType
<1> HIDE DEF t
<1>4. Frame(s, t) /\ Linked(t) = Linked(s)
  BY <1>3 DEF Frame, Linked
<1>5. Exact(t, {})
  BY <1>3, <1>4, ExactFields
<1>6. node'[n] = t /\ \A k \in Nodes \ {n} : node'[k] = node[k]
  BY <1>1
<1> QED BY <1>5, <1>6 DEF Precise

\* Fields that have nothing to do with the counts.
LEMMA OtherFields ==
    ASSUME NEW s, NEW U, Exact(s, U)
    PROVE  /\ \A v \in BOOLEAN : LET t == [s EXCEPT !.onShutdown = v]
                IN Exact(t, U) /\ Linked(t) = Linked(s) /\ t.remote = s.remote
           /\ \A v \in BOOLEAN : LET t == [s EXCEPT !.subsAsync = v]
                IN Exact(t, U) /\ Linked(t) = Linked(s) /\ t.remote = s.remote
           /\ \A v \in SUBSET (Nodes \cup {"shutdown"}) : LET t == [s EXCEPT !.requests = v]
                IN Exact(t, U) /\ Linked(t) = Linked(s) /\ t.remote = s.remote
           /\ \A v \in SUBSET Nodes : LET t == [s EXCEPT !.sending = v]
                IN Exact(t, U) /\ Linked(t) = Linked(s) /\ t.remote = s.remote
           /\ \A v \in {"none", "throttled", "now"} : LET t == [s EXCEPT !.subsPending = v]
                IN Exact(t, U) /\ Linked(t) = Linked(s) /\ t.remote = s.remote
           /\ \A v \in Walks : LET t == [s EXCEPT !.walk = v]
                IN Exact(t, U) /\ Linked(t) = Linked(s) /\ t.remote = s.remote
           /\ \A v \in [Nodes -> Int] : LET t == [s EXCEPT !.owed = v]
                IN Exact(t, U) /\ Linked(t) = Linked(s) /\ t.remote = s.remote
<1> DEFINE Same7(t) == /\ t \in NodeType /\ t.subs = s.subs /\ t.interests = s.interests
                       /\ t.needs = s.needs /\ t.fault = s.fault
                       /\ t.remoteNodes = s.remoteNodes /\ t.remote = s.remote
<1>0. s \in NodeType
  BY DEF Exact
<1>1. ASSUME NEW t, Same7(t) PROVE Exact(t, U) /\ Linked(t) = Linked(s) /\ t.remote = s.remote
  <2>1. Frame(s, t) /\ Linked(t) = Linked(s)
    BY <1>1 DEF Frame, Linked
  <2> QED BY <1>1, <2>1, ExactFields
<1>2. /\ \A v \in BOOLEAN : Same7([s EXCEPT !.onShutdown = v])
      /\ \A v \in BOOLEAN : Same7([s EXCEPT !.subsAsync = v])
  BY <1>0 DEF NodeType
<1>3. \A v \in SUBSET (Nodes \cup {"shutdown"}) : Same7([s EXCEPT !.requests = v])
  BY <1>0 DEF NodeType
<1>4. \A v \in SUBSET Nodes : Same7([s EXCEPT !.sending = v])
  BY <1>0 DEF NodeType
<1>5. \A v \in {"none", "throttled", "now"} : Same7([s EXCEPT !.subsPending = v])
  BY <1>0 DEF NodeType
<1>6. \A v \in Walks : Same7([s EXCEPT !.walk = v])
  BY <1>0 DEF NodeType, Walks
<1>7. \A v \in [Nodes -> Int] : Same7([s EXCEPT !.owed = v])
  BY <1>0 DEF NodeType
<1> HIDE DEF Same7
<1> QED BY <1>1, <1>2, <1>3, <1>4, <1>5, <1>6, <1>7, Zenon

\* The subscriptions of a node and its counts change together.
LEMMA SubsExact ==
    ASSUME NEW s, NEW U, NEW S \in SUBSET Subs, NEW i \in CountVector(Bits),
           NEW h \in CountVector(FHBits), Exact(s, U),
           Tallies(i, Bits, S, SubBits, Known(s), Inbound(s)),
           Tallies(h, FHBits, S, SubNeeds, Known(s), InboundNeeds(s))
    PROVE  Exact([s EXCEPT !.subs = S, !.interests = i, !.needs = h], U)
<1> DEFINE t == [s EXCEPT !.subs = S, !.interests = i, !.needs = h]
<1>0. s \in NodeType
  BY DEF Exact
<1>1. /\ t \in NodeType /\ t.subs = S /\ t.interests = i /\ t.needs = h
      /\ t.fault = s.fault /\ t.remoteNodes = s.remoteNodes /\ t.remote = s.remote
  BY <1>0 DEF NodeType
<1> HIDE DEF t
<1>2. Linked(t) = Linked(s)
  BY <1>1 DEF Linked
<1>3. Known(t) = Known(s) /\ Inbound(t) = Inbound(s) /\ InboundNeeds(t) = InboundNeeds(s)
  BY <1>1, <1>2 DEF Known, Inbound, InboundNeeds
<1>4. Counted(t)
  BY <1>1, <1>3, Zenon DEF Counted
<1>5. Exact(t, U)
  BY <1>1, <1>4 DEF Exact
<1> QED BY <1>5 DEF t

\* DPS_Subscribe: one more contribution to both counts.
LEMMA SubscribeExact ==
    ASSUME IInv, Precise, NEW n \in Nodes, NEW x \in Subs, Subscribe(n, x) PROVE Precise'
<1> DEFINE s == node[n]
           K == Known(s)
           S == s.subs \cup {x}
           i == CVAdd(s.interests, SubBits[x])
           h == CVAdd(s.needs, FuzzyHash(SubBits[x]))
           t == [s EXCEPT !.subs = S, !.interests = i, !.needs = h]
<1>1. x \notin s.subs /\ Return(n, UpdateSubs(t, "now"), net)
  BY DEF Subscribe
<1>2. Exact(s, {})
  BY DEF Precise
<1> HIDE DEF s
<1>3. /\ s.interests \in CountVector(Bits) /\ s.needs \in CountVector(FHBits)
      /\ S \in SUBSET Subs
  BY <1>2 DEF Exact, NodeType
<1>4. i \in CountVector(Bits) /\ h \in CountVector(FHBits)
  BY <1>3, CountVectors
<1>5. Tallies(i, Bits, S, SubBits, K, Inbound(s))
  <2>1. Tallies(s.interests, Bits, K, Inbound(s), s.subs, SubBits)
    BY <1>2, TallySwap DEF Exact, Counted
  <2>2. Agree(s.subs, SubBits, SubBits)
    BY DEF Agree
  <2>3. Tallies(i, Bits, K, Inbound(s), S, SubBits)
    BY <1>1, <1>3, <2>1, <2>2, TallyAddNode
  <2> HIDE DEF i, S, K
  <2> QED BY <2>3, TallySwap
<1>6. Tallies(h, FHBits, S, SubNeeds, K, InboundNeeds(s))
  <2>1. Tallies(s.needs, FHBits, K, InboundNeeds(s), s.subs, SubNeeds)
    BY <1>2, TallySwap DEF Exact, Counted
  <2>2. Agree(s.subs, SubNeeds, SubNeeds)
    BY DEF Agree
  <2>3. Tallies(CVAdd(s.needs, SubNeeds[x]), FHBits, K, InboundNeeds(s), S, SubNeeds)
    BY <1>1, <1>3, <2>1, <2>2, TallyAddNode
  <2>4. SubNeeds[x] = FuzzyHash(SubBits[x])
    BY DEF SubNeeds
  <2>5. Tallies(h, FHBits, K, InboundNeeds(s), S, SubNeeds)
    BY <2>3, <2>4, Zenon
  <2> HIDE DEF h, S, K
  <2> QED BY <2>5, TallySwap
<1> HIDE DEF i, h, S
<1>7. Exact(t, {})
  BY <1>2, <1>3, <1>4, <1>5, <1>6, SubsExact
<1> HIDE DEF t
<1>8. Exact(UpdateSubs(t, "now"), {})
  BY <1>7, UpdateSubsExact
<1> QED BY <1>1, <1>8, ReturnExact

\* DPS_DestroySubscription: there is a contribution to delete.
LEMMA UnsubscribeExact ==
    ASSUME IInv, Precise, NEW n \in Nodes, NEW x \in Subs, Unsubscribe(n, x) PROVE Precise'
<1> DEFINE s == node[n]
           K == Known(s)
           S == s.subs \ {x}
           i == CVDel(s.interests, SubBits[x])
           h == CVDel(s.needs, FuzzyHash(SubBits[x]))
           t == [s EXCEPT !.subs = S, !.interests = i, !.needs = h]
           c == Check(s, s.interests.entries # 0 /\ s.needs.entries # 0, "count")
<1>1. x \in s.subs /\ Return(n, UpdateSubs([c EXCEPT !.subs = @ \ {x},
                                !.interests = CVDel(@, SubBits[x]),
                                !.needs = CVDel(@, FuzzyHash(SubBits[x]))], "now"), net)
  BY DEF Unsubscribe
<1>2. Exact(s, {})
  BY DEF Precise
<1> HIDE DEF s
<1>3. /\ s.interests \in CountVector(Bits) /\ s.needs \in CountVector(FHBits)
      /\ S \in SUBSET Subs
  BY <1>2 DEF Exact, NodeType
<1>4. i \in CountVector(Bits) /\ h \in CountVector(FHBits)
  BY <1>3, CountVectors
<1>5. Tallies(i, Bits, S, SubBits, K, Inbound(s)) /\ s.interests.entries # 0
  <2>1. Tallies(s.interests, Bits, K, Inbound(s), s.subs, SubBits)
    BY <1>2, TallySwap DEF Exact, Counted
  <2>2. Agree(S, SubBits, SubBits)
    BY DEF Agree
  <2>3. Tallies(i, Bits, K, Inbound(s), S, SubBits) /\ s.interests.entries # 0
    BY <1>1, <1>3, <2>1, <2>2, TallyDelNode
  <2> HIDE DEF i, S, K
  <2> QED BY <2>3, TallySwap
<1>6. Tallies(h, FHBits, S, SubNeeds, K, InboundNeeds(s)) /\ s.needs.entries # 0
  <2>1. Tallies(s.needs, FHBits, K, InboundNeeds(s), s.subs, SubNeeds)
    BY <1>2, TallySwap DEF Exact, Counted
  <2>2. Agree(S, SubNeeds, SubNeeds)
    BY DEF Agree
  <2>3. /\ Tallies(CVDel(s.needs, SubNeeds[x]), FHBits, K, InboundNeeds(s), S, SubNeeds)
        /\ s.needs.entries # 0
    BY <1>1, <1>3, <2>1, <2>2, TallyDelNode
  <2>4. SubNeeds[x] = FuzzyHash(SubBits[x])
    BY DEF SubNeeds
  <2>5. Tallies(h, FHBits, K, InboundNeeds(s), S, SubNeeds)
    BY <2>3, <2>4, Zenon
  <2> HIDE DEF h, S, K
  <2> QED BY <2>3, <2>5, TallySwap
<1>7. c = s
  BY <1>5, <1>6 DEF Check
<1>8. [c EXCEPT !.subs = @ \ {x}, !.interests = CVDel(@, SubBits[x]),
                !.needs = CVDel(@, FuzzyHash(SubBits[x]))] = t
  BY <1>7
<1> HIDE DEF i, h, S, c
<1>9. Exact(t, {})
  BY <1>2, <1>3, <1>4, <1>5, <1>6, SubsExact
<1> HIDE DEF t
<1>10. Exact(UpdateSubs(t, "now"), {})
  BY <1>9, UpdateSubsExact
<1>11. Return(n, UpdateSubs(t, "now"), net)
  BY <1>1, <1>8, Zenon
<1> QED BY <1>10, <1>11, ReturnExact

\* DPS_Link to a peer that is not known.
LEMMA LinkNewExact ==
    ASSUME NEW s, NEW U, NEW m \in Nodes \ Linked(s), Exact(s, U) PROVE Exact(LinkNew(s, m), U)
<1> DEFINE r == [NewRemote EXCEPT !.linkRequested = TRUE, !.state = "LINKING",
                                  !.completion = "link"]
           f == [s.remote EXCEPT ![m] = r]
           l == <<m>> \o s.remoteNodes
           p == Put(s, m, r)
           t == InsertRemoteNode(p, m)
           o == [t.owed EXCEPT ![m] = t.owed[m] + 1]
           u == [t EXCEPT !.owed = o]
<1>1. r \in RemoteType /\ r.inInt = NULL /\ Hushed(r)
  BY NewRemoteType DEF RemoteType, RemoteStates, NewRemote, Hushed
<1>2. s \in NodeType
  BY DEF Exact
<1>9. LinkNew(s, m) = UpdateSubs([InsertRemoteNode(s, m) EXCEPT !.remote[m] = r,
                                        !.owed[m] = @ + 1], "now")
  BY DEF LinkNew
<1> HIDE DEF r
<1>3. Exact(p, U) /\ Linked(p) = Linked(s) /\ p.remote[m] = r
  BY <1>1, PutUnlinked
<1>4. p = [s EXCEPT !.remote = f]
  BY <1>2 DEF Put, NodeType
<1>5. t = [s EXCEPT !.remote = f, !.remoteNodes = l]
  BY <1>2, <1>4 DEF InsertRemoteNode, NodeType
<1>6. Exact(t, U)
  <2> HIDE DEF p
  <2> QED BY <1>1, <1>3, InsertExact
<1> HIDE DEF t, p
<1>7. t \in NodeType /\ o \in [Nodes -> Int]
  <2>1. t \in NodeType /\ t.owed \in [Nodes -> Int]
    BY <1>6 DEF Exact, NodeType
  <2> QED BY <2>1
<1>8. u = [InsertRemoteNode(s, m) EXCEPT !.remote[m] = r, !.owed[m] = @ + 1]
  <2>1. t.owed = s.owed
    BY <1>5, <1>2 DEF NodeType
  <2>2. u = [s EXCEPT !.remote = f, !.remoteNodes = l, !.owed = [s.owed EXCEPT ![m] = s.owed[m] + 1]]
    BY <2>1, <1>5, <1>2 DEF NodeType
  <2> HIDE DEF u
  <2> QED BY <2>2, <1>2 DEF NodeType, InsertRemoteNode
<1> HIDE DEF o
<1>10. Exact(u, U)
  BY <1>6, <1>7, OtherFields
<1> HIDE DEF u
<1> QED BY <1>8, <1>9, <1>10, UpdateSubsExact

\* DPS_Link to a peer that is linked already.
LEMMA LinkAgainExact ==
    ASSUME NEW s, NEW U, NEW m \in Nodes, Exact(s, U) PROVE Exact(LinkAgain(s, m), U)
<1> DEFINE r == [s.remote[m] EXCEPT !.completion = "link"]
           t == Put(s, m, r)
           q == t.requests \cup {m}
           u == [t EXCEPT !.requests = q]
           o == [u.owed EXCEPT ![m] = u.owed[m] + 1]
           v == [u EXCEPT !.owed = o]
<1>1. s \in NodeType
  BY DEF Exact
<1>2. s.remote[m] \in RemoteType
  BY <1>1 DEF NodeType
<1>3. Keeps(s.remote[m], r) /\ (Hushed(s.remote[m]) => Hushed(r))
  BY <1>2 DEF RemoteType, Keeps, Hushed
<1>4. LinkAgain(s, m) = v
  BY <1>1 DEF LinkAgain, NodeType, Put
<1> HIDE DEF r
<1>5. Exact(t, U)
  BY <1>3, PutQuiet DEF Keeps
<1> HIDE DEF t
<1>6. q \in SUBSET (Nodes \cup {"shutdown"})
  BY <1>5 DEF Exact, NodeType
<1> HIDE DEF q
<1>7. Exact(u, U)
  BY <1>5, <1>6, OtherFields
<1> HIDE DEF u
<1>8. o \in [Nodes -> Int]
  <2>1. u.owed \in [Nodes -> Int]
    BY <1>7 DEF Exact, NodeType
  <2> QED BY <2>1
<1> HIDE DEF o
<1>9. Exact(v, U)
  BY <1>7, <1>8, OtherFields
<1> QED BY <1>4, <1>9, Zenon

\* DPS_ShutdownNode
LEMMA ShutdownExact ==
    ASSUME IInv, Precise, NEW n \in Nodes, ShutdownNode(n) PROVE Precise'
<1> DEFINE s == [node[n] EXCEPT !.onShutdown = TRUE]
           ms == {m \in Linked(s) : s.remote[m].completion = "none"}
           q == s.requests \cup {"shutdown"}
           t == [s EXCEPT !.requests = q]
           u == IF s.remoteNodes = <<>> THEN t ELSE Unlink(s, ms)
<1>1. Return(n, u, net)
  BY DEF ShutdownNode
<1>2. Exact(s, {})
  <2>1. Exact(node[n], {})
    BY DEF Precise
  <2>2. \A b \in BOOLEAN : Exact([node[n] EXCEPT !.onShutdown = b], {})
    BY <2>1, OtherFields
  <2> QED BY <2>2
<1> HIDE DEF s
<1>3. q \in SUBSET (Nodes \cup {"shutdown"})
  BY <1>2 DEF Exact, NodeType
<1> HIDE DEF q
<1>4. Exact(t, {})
  BY <1>2, <1>3, OtherFields
<1>5. Exact(Unlink(s, ms), {})
  BY <1>2, UnlinkExact
<1> HIDE DEF t
<1>6. Exact(u, {})
  BY <1>4, <1>5
<1> HIDE DEF u
<1> QED BY <1>1, <1>6, ReturnExact

\* The application's calls on links.
LEMMA LinkCallsExact ==
    ASSUME IInv, Precise, NEW n \in Nodes, NEW m \in Nodes, Link(n, m) \/ UnlinkRemote(n, m)
    PROVE  Precise'
<1> DEFINE s == node[n]
<1>1. Exact(s, {})
  BY DEF Precise
<1> HIDE DEF s
<1>2. CASE m \notin Linked(s) /\ Return(n, LinkNew(s, m), net)
  <2>1. Exact(LinkNew(s, m), {})
    BY <1>1, <1>2, LinkNewExact
  <2> QED BY <1>2, <2>1, ReturnExact
<1>3. CASE Return(n, LinkAgain(s, m), net)
  <2>1. Exact(LinkAgain(s, m), {})
    BY <1>1, LinkAgainExact
  <2> QED BY <1>3, <2>1, ReturnExact
<1>4. CASE Return(n, Unlink(s, {m}), net)
  <2>1. Exact(Unlink(s, {m}), {})
    BY <1>1, UnlinkExact
  <2> QED BY <1>4, <2>1, ReturnExact
<1> QED BY <1>2, <1>3, <1>4 DEF Link, UnlinkRemote, s

\* LinkExists
LEMMA LinkExistsExact ==
    ASSUME IInv, Precise, NEW n \in Nodes, NEW m \in Nodes, LinkExists(n, m) PROVE Precise'
<1> DEFINE s == node[n]
           r == [s.remote[m] EXCEPT !.linkRequested = TRUE]
           t == [s EXCEPT !.remote[m].linkRequested = TRUE]
           u == LinkCompletion(t, m)
<1>1. Return(n, u, net)
  BY DEF LinkExists
<1>2. Exact(s, {}) /\ s \in NodeType
  BY DEF Precise, Exact
<1> HIDE DEF s
<1>3. s.remote[m] \in RemoteType /\ t = Put(s, m, r)
  <2>1. s.remote[m] \in RemoteType
    BY <1>2 DEF NodeType
  <2>2. t = Put(s, m, r)
    BY <1>2 DEF NodeType, Put
  <2> QED BY <2>1, <2>2
<1>4. Keeps(s.remote[m], r) /\ (Hushed(s.remote[m]) => Hushed(r))
  BY <1>3 DEF RemoteType, Keeps, Hushed
<1> HIDE DEF r, t
<1>5. Exact(t, {})
  BY <1>2, <1>3, <1>4, PutQuiet DEF Keeps
<1>6. Exact(u, {})
  BY <1>5, LinkCompletionExact
<1> HIDE DEF u
<1> QED BY <1>1, <1>6, ReturnExact

\* OnShutdownRequest
LEMMA OnShutdownRequestExact ==
    ASSUME IInv, Precise, NEW n \in Nodes, OnShutdownRequest(n) PROVE Precise'
<1> DEFINE s == node[n]
           q == s.requests \ {"shutdown"}
           t == [s EXCEPT !.requests = q]
           u == OnShutdown(t)
<1>1. Return(n, u, net)
  BY DEF OnShutdownRequest
<1>2. Exact(s, {}) /\ s \in NodeType
  BY DEF Precise, Exact
<1> HIDE DEF s
<1>3. q \in SUBSET (Nodes \cup {"shutdown"})
  BY <1>2 DEF NodeType
<1> HIDE DEF q
<1>4. Exact(t, {})
  BY <1>2, <1>3, OtherFields
<1> HIDE DEF t
<1>5. Exact(u, {})
  BY <1>4, OnShutdownExact
<1> HIDE DEF u
<1> QED BY <1>1, <1>5, ReturnExact

\* SendSubsTimer starts at the head of the list.
LEMMA StartWalkExact == ASSUME NEW s, NEW U, Exact(s, U) PROVE Exact(StartWalk(s), U)
<1> DEFINE first == IF s.remoteNodes = <<>> THEN NULL ELSE s.remoteNodes[1]
           w == [next |-> first, reschedule |-> FALSE]
<1>1. s.remoteNodes \in Seq(Nodes)
  BY DEF Exact, NodeType, Lists
<1>2. first \in {NULL} \cup Nodes
  BY <1>1
<1>3. StartWalk(s) = [s EXCEPT !.walk = w]
  BY DEF StartWalk
<1> HIDE DEF first
<1>4. w \in Walks
  BY <1>2 DEF Walks
<1> HIDE DEF w
<1> QED BY <1>3, <1>4, OtherFields

\* SendSubsTask, and SendSubsTimer up to its loop.
LEMMA SendSubsStartExact ==
    ASSUME IInv, Precise, NEW n \in Nodes, SendSubsTask(n) \/ SendSubsTimer(n) PROVE Precise'
<1> DEFINE s0 == node[n]
           s == [s0 EXCEPT !.subsAsync = FALSE]
           u == IF s.subsPending = "now" THEN StartWalk(s) ELSE s
           v == StartWalk(s0)
<1>1. Return(n, u, net) \/ Return(n, v, net)
  BY DEF SendSubsTask, SendSubsTimer
<1>2. Exact(s0, {})
  BY DEF Precise
<1>3. Exact(s, {})
  <2>1. \A b \in BOOLEAN : Exact([s0 EXCEPT !.subsAsync = b], {})
    BY <1>2, OtherFields
  <2> QED BY <2>1
<1> HIDE DEF s0, s
<1>4. Exact(u, {}) /\ Exact(v, {})
  BY <1>2, <1>3, StartWalkExact
<1> HIDE DEF u, v
<1> QED BY <1>1, <1>4, ReturnExact

\* FindAlternativeRoute unmutes a remote, or none.
LEMMA FindRouteExact ==
    ASSUME NEW s, NEW U, NEW old, NEW e, Choice(e), Exact(s, U)
    PROVE  Exact(FindAlternativeRoute(s, old, e), U)
<1> DEFINE l == s.remoteNodes
           st(i) == s.remote[l[i]].state
           same(i) == l[i] # old /\ s.remote[l[i]].inMesh = s.remote[old].inMesh
           stop == {i \in DOMAIN l : same(i) /\ st(i) \in {"ACTIVE", "UNMUTING", "MUTED"}}
           muted == {i \in DOMAIN l : l[i] # old /\ st(i) = "MUTED"}
           First(S) == CHOOSE i \in S : \A j \in S : i <= j
<1>1. l \in Seq(Nodes)
  BY DEF Exact, NodeType, Lists
<1>2. ASSUME NEW S \in SUBSET DOMAIN l, S # {} PROVE Exact(UnmuteRemoteNode(s, l[First(S)], e), U)
  <2>1. S \in SUBSET Nat
    BY <1>1
  <2>2. \E i \in S : \A j \in S : i <= j
    BY <1>2, <2>1, MinNat
  <2>3. First(S) \in S
    BY <2>2
  <2> HIDE DEF First
  <2>4. l[First(S)] \in Nodes
    BY <1>1, <2>3
  <2> HIDE DEF l
  <2> QED BY <2>4, UnmuteExact DEF Choice
<1>3. stop \in SUBSET DOMAIN l /\ muted \in SUBSET DOMAIN l
  OBVIOUS
<1>4. FindAlternativeRoute(s, old, e) =
        IF stop # {}
          THEN IF st(First(stop)) = "MUTED" THEN UnmuteRemoteNode(s, l[First(stop)], e) ELSE s
          ELSE IF muted # {} THEN UnmuteRemoteNode(s, l[First(muted)], e) ELSE s
  BY DEF FindAlternativeRoute
<1> HIDE DEF First, stop, muted, st, l
<1> QED BY <1>2, <1>3, <1>4

\* SendSubsTimer for a remote that owes a SAK: a muted one was not last sent a SUB.
LEMMA ResendExact ==
    ASSUME NEW s, NEW m \in Linked(s), NEW e, Choice(e), Exact(s, {})
    PROVE  Exact(ResendOrGiveUp(s, m, e).s, {})
<1> DEFINE c == s.remote[m].sakCounter + 1
           r == [s.remote[m] EXCEPT !.sakCounter = c]
           t == [s EXCEPT !.remote[m].sakCounter = c]
           f == IF s.remote[m].state = "ACTIVE" THEN FindAlternativeRoute(t, m, e) ELSE t
           d == DeleteRemoteNode(f, m)
           x == IF s.remote[m].lastSubMsgType = "SUB" THEN SendSubscription(t, m, e)
                ELSE SendSubscriptionAck(t, m, FALSE, e)
           y == m \notin e.fail
<1>1. s \in NodeType /\ m \in Nodes
  BY LinkedNodes DEF Exact
<1>2. s.remote[m] \in RemoteType /\ Hushed(s.remote[m])
  BY <1>1 DEF NodeType, Exact
<1>3. /\ Keeps(s.remote[m], r) /\ (Hushed(s.remote[m]) => Hushed(r))
      /\ r.state = s.remote[m].state
  BY <1>2 DEF RemoteType, Keeps, Hushed
<1>4. t = Put(s, m, r)
  BY <1>1 DEF Put, NodeType
<1>5. ResendOrGiveUp(s, m, e) =
          CASE s.subsPending = "now" -> [s |-> s, again |-> TRUE]
            [] s.subsPending # "now" /\ c < Retry -> [s |-> t, again |-> TRUE]
            [] s.subsPending # "now" /\ c >= Retry + RetryLimit ->
                  [s |-> d, again |-> FALSE]
            [] OTHER -> [s |-> x, again |-> y]
  BY DEF ResendOrGiveUp
<1> HIDE DEF r, t, y, c
<1>6. Exact(t, {}) /\ Linked(t) = Linked(s) /\ t.remote[m] = r
  BY <1>1, <1>3, <1>4, PutQuiet DEF Keeps
<1>7. Exact(f, {})
  BY <1>6, FindRouteExact
<1> HIDE DEF f
<1>8. Exact(d, {})
  <2>1. Exact(f, {} \cup {m})
    BY <1>7, ExactMore
  <2> QED BY <1>1, <1>7, <2>1, DeleteExact
<1>9. Exact(x, {})
  <2>1. CASE s.remote[m].lastSubMsgType = "SUB"
    <3>1. t.remote[m].state # "MUTED"
      BY <1>2, <1>3, <1>6, <2>1 DEF Hushed
    <3>2. Exact(SendSubscription(t, m, e), {})
      BY <1>1, <1>6, <3>1, SendSubscriptionExact
    <3> QED BY <2>1, <3>2
  <2>2. CASE s.remote[m].lastSubMsgType # "SUB"
    <3>1. Exact(t, {} \cup {m})
      BY <1>6, ExactMore
    <3>2. \A b \in BOOLEAN : Exact(SendSubscriptionAck(t, m, b, e), {})
      BY <1>6, <3>1, SendAckExact
    <3>3. Exact(SendSubscriptionAck(t, m, FALSE, e), {})
      BY <3>2
    <3> QED BY <2>2, <3>3
  <2> QED BY <2>1, <2>2
<1> HIDE DEF x, d
<1> DEFINE q == ResendOrGiveUp(s, m, e)
<1>10. \/ q = [s |-> s, again |-> TRUE]
       \/ q = [s |-> t, again |-> TRUE]
       \/ q = [s |-> d, again |-> FALSE]
       \/ q = [s |-> x, again |-> y]
  BY <1>5
<1> HIDE DEF q
<1>11. q.s = s \/ q.s = t \/ q.s = d \/ q.s = x
  BY <1>10
<1>12. Exact(q.s, {})
  BY <1>6, <1>8, <1>9, <1>11
<1> QED BY <1>12 DEF q

\* SendSubsTimer for a remote that owes nothing: a muted one is left alone.
LEMMA SendIfChangedExact ==
    ASSUME NEW s, NEW m \in Nodes, NEW e, Exact(s, {}) PROVE Exact(SendIfChanged(s, m, e).s, {})
<1> DEFINE t == UpdateOutboundInterests(s, m)
           x == SendSubscription(t, m, e)
           y == m \notin e.fail
           q == SendIfChanged(s, m, e)
<1>1. Exact(t, {}) /\ t.remote[m].state = s.remote[m].state
  BY UpdateOutboundExact
<1>2. \/ q = [s |-> s, again |-> FALSE]
      \/ q = [s |-> x, again |-> y] /\ s.remote[m].state # "MUTED"
      \/ q = [s |-> t, again |-> FALSE]
  BY DEF SendIfChanged
<1> HIDE DEF t
<1>3. s.remote[m].state # "MUTED" => Exact(x, {})
  BY <1>1, SendSubscriptionExact
<1> HIDE DEF x, y, q
<1>4. q.s = s \/ (q.s = x /\ s.remote[m].state # "MUTED") \/ q.s = t
  BY <1>2
<1>5. Exact(q.s, {})
  BY <1>1, <1>3, <1>4
<1> QED BY <1>5 DEF q

\* One iteration of SendSubsTimer's loop.
LEMMA SendSubsStepExact ==
    ASSUME IInv, Precise, NEW n \in Nodes, SendSubsStep(n) PROVE Precise'
<1> DEFINE s == node[n]
           m == s.walk.next
           next == Successor(s, m)
           R(e) == IF s.remote[m].sakPending THEN ResendOrGiveUp(s, m, e)
                   ELSE SendIfChanged(s, m, e)
           w(e) == [next |-> next, reschedule |-> s.walk.reschedule \/ R(e).again]
           t(e) == [R(e).s EXCEPT !.walk = w(e)]
           u(e) == IF next = NULL \/ next \in Linked(R(e).s) THEN t(e)
                   ELSE Fault(t(e), "freed remote")
<1>1. PICK e \in Env(n) : Return(n, u(e), net)
  BY DEF SendSubsStep, Onward, Check
<1>2. s.walk # NULL /\ m # NULL /\ ~Crashed(n)
  BY DEF SendSubsStep
<1>3. GoodNode(s) /\ GoodWalk(s) /\ s \in NodeType /\ Exact(s, {})
  BY <1>2, NodeIsGood DEF Precise
<1>4. m \in Linked(s) /\ s.walk.reschedule \in BOOLEAN
  BY <1>2, <1>3 DEF GoodWalk, NodeType
<1>5. Choice(e)
  BY <1>1, EnvChoice DEF IInv
<1>6. next \in {NULL} \cup Nodes /\ m \in Nodes
  BY <1>3, <1>4, SuccessorType, LinkedNodes
<1> HIDE DEF s, m, next
<1>7. R(e).again \in BOOLEAN
  BY <1>3, <1>4, <1>5, ResendGood, SendIfChangedGood
<1>8. Exact(R(e).s, {})
  BY <1>3, <1>4, <1>5, <1>6, ResendExact, SendIfChangedExact
<1> HIDE DEF R
<1>9. w(e) \in Walks
  BY <1>4, <1>6, <1>7 DEF Walks
<1> HIDE DEF w
<1>10. Exact(t(e), {})
  BY <1>8, <1>9, OtherFields
<1> HIDE DEF t
<1>11. Exact(Fault(t(e), "freed remote"), {})
  BY <1>10, FaultExact DEF MayFail
<1>12. Exact(u(e), {})
  BY <1>10, <1>11
<1> HIDE DEF u
<1> QED BY <1>1, <1>12, ReturnExact

\* The end of SendSubsTimer.
LEMMA SendSubsEndExact ==
    ASSUME IInv, Precise, NEW n \in Nodes, SendSubsEnd(n) PROVE Precise'
<1> DEFINE s == node[n]
           p == IF s.walk.reschedule THEN "throttled" ELSE "none"
           t == [s EXCEPT !.walk = NULL]
           u == [t EXCEPT !.subsPending = p]
<1>1. Exact(s, {})
  BY DEF Precise
<1>2. u = [s EXCEPT !.walk = NULL, !.subsPending = p]
  BY <1>1 DEF Exact, NodeType
<1>3. Return(n, u, net)
  BY <1>2 DEF SendSubsEnd
<1>4. p \in {"none", "throttled", "now"} /\ NULL \in Walks
  BY DEF Walks
<1> HIDE DEF s, p
<1>5. Exact(t, {})
  BY <1>1, <1>4, OtherFields
<1> HIDE DEF t
<1>6. Exact(u, {})
  BY <1>4, <1>5, OtherFields
<1> HIDE DEF u
<1> QED BY <1>3, <1>6, ReturnExact

\* DPS_OnSendSubscriptionComplete
LEMMA SendSubCompleteExact ==
    ASSUME IInv, Precise, NEW n \in Nodes, NEW m \in Nodes, SendSubComplete(n, m) PROVE Precise'
<1> DEFINE s0 == node[n]
           q == s0.sending \ {m}
           s == [s0 EXCEPT !.sending = q]
           u == IF m \in Linked(s) /\ s.remote[m].sakPending
                  THEN UpdateSubs(s, "throttled") ELSE s
<1>1. Return(n, u, net)
  BY DEF SendSubComplete
<1>2. Exact(s0, {})
  BY DEF Precise
<1> HIDE DEF s0
<1>3. q \in SUBSET Nodes
  BY <1>2 DEF Exact, NodeType
<1> HIDE DEF q
<1>4. Exact(s, {})
  BY <1>2, <1>3, OtherFields
<1> HIDE DEF s
<1>5. Exact(u, {})
  BY <1>4, UpdateSubsExact
<1> HIDE DEF u
<1> QED BY <1>1, <1>5, ReturnExact

\* A send or a receive ends with an error.
LEMMA NetErrorExact ==
    ASSUME IInv, Precise, NEW n \in Nodes, NEW m \in Nodes, NetError(n, m) PROVE Precise'
<1> DEFINE s0 == node[n]
<1>0. PICK sub : Return(n, DeleteRemoteNode([s0 EXCEPT !.sending = @ \ sub], m), net)
  BY DEF NetError
<1> DEFINE q == s0.sending \ sub
           s == [s0 EXCEPT !.sending = q]
           u == DeleteRemoteNode(s, m)
<1>1. Return(n, u, net)
  BY <1>0
<1>2. Exact(s0, {})
  BY DEF Precise
<1> HIDE DEF s0
<1>3. q \in SUBSET Nodes
  BY <1>2 DEF Exact, NodeType
<1> HIDE DEF q
<1>4. Exact(s, {})
  BY <1>2, <1>3, OtherFields
<1> HIDE DEF s
<1>5. Exact(s, {} \cup {m})
  BY <1>4, ExactMore
<1>6. Exact(u, {})
  BY <1>4, <1>5, DeleteExact
<1> HIDE DEF u
<1> QED BY <1>1, <1>6, ReturnExact

\* OnNetReceive: what was sent by a node that did not crash is well formed.
LEMMA ReceiveExact ==
    ASSUME IInv, Precise, NEW n \in Nodes, NEW m \in Nodes, Receive(n, m) PROVE Precise'
<1> DEFINE s == node[n]
           u(i, e) == Handle(n, m, net[m][n][i], e)
<1>1. Idle
  BY DEF Receive
<1>2. PICK i \in Deliverable(m, n), e \in Env(n) :
        Return(n, u(i, e), [net EXCEPT ![m][n] = Without(@, i)])
  BY DEF Receive
<1>3. i \in DOMAIN net[m][n]
  BY DEF Deliverable
<1>4. ~Crashed(m) /\ Exact(s, {})
  BY <1>1, IdleNode DEF Precise
<1>5. Choice(e)
  BY <1>2, EnvChoice DEF IInv
<1> DEFINE msg == net[m][n][i]
<1>6. msg \in Messages /\ WellFormed(msg)
  <2>1. net[m][n] \in Seq(Messages)
    BY DEF IInv, TypeOK
  <2>2. Sent(m)
    BY <1>4 DEF IInv, NodeInv
  <2> QED BY <2>1, <2>2, <1>3 DEF Sent
<1>7. msg.type \in {"SUB", "SAK"}
  BY <1>6 DEF Messages
<1>8. u(i, e) = IF msg.type = "SUB" THEN DecodeSubscription(s, m, msg, e)
                ELSE DecodeSubscriptionAck(s, m, msg, e)
  BY DEF Handle
<1> HIDE DEF s, msg, u
<1>9. CASE msg.type = "SUB"
  <2>1. Exact(DecodeSubscription(s, m, msg, e), {})
    BY <1>4, <1>5, <1>6, <1>9, DecodeSubscriptionExact
  <2> QED BY <1>2, <1>8, <1>9, <2>1, ReturnExact
<1>10. CASE msg.type = "SAK"
  <2>1. Exact(DecodeSubscriptionAck(s, m, msg, e), {})
    BY <1>4, <1>5, <1>6, <1>10, DecodeAckExact
  <2> QED BY <1>2, <1>8, <1>10, <2>1, ReturnExact
<1> QED BY <1>7, <1>9, <1>10

\* A node that just started counts nothing.
LEMMA StartedExact == ASSUME NEW id \in Nat PROVE Exact(StartedNode(id), {})
<1> DEFINE s == StartedNode(id)
<1>1. s \in NodeType /\ Linked(s) = {}
  BY StartedNodeGood
<1>2. /\ s.subs = {} /\ s.fault = {} /\ s.interests = EmptyCV(Bits) /\ s.needs = EmptyCV(FHBits)
      /\ \A m \in Nodes : s.remote[m].state = "NEW"
  BY DEF StartedNode, NewRemote
<1> HIDE DEF s
<1>3. Known(s) = {}
  BY <1>1 DEF Known
<1>4. \A g, h, X : Tallies(EmptyCV(X), X, {}, g, {}, h)
  <2>1. IsFiniteSet({}) /\ Cardinality({}) = 0
    BY FS_EmptySet
  <2>2. \A g, b : Having({}, g, b) = {}
    BY DEF Having
  <2>3. \A X : EmptyCV(X).entries = 0 /\ \A b \in X : EmptyCV(X).count[b] = 0
    BY DEF EmptyCV
  <2> QED BY <2>1, <2>2, <2>3, SMTT(40) DEF Tallies
<1>5. Counted(s)
  BY <1>2, <1>3, <1>4 DEF Counted
<1>6. \A m \in Nodes : Hushed(s.remote[m])
  BY <1>2 DEF Hushed
<1>7. Exact(s, {})
  BY <1>1, <1>2, <1>5, <1>6 DEF Exact
<1> QED BY <1>7 DEF s

\* The program of a node starts again.
LEMMA RestartExact == ASSUME IInv, Precise, NEW n \in Nodes, Restart(n) PROVE Precise'
<1>1. PICK id \in Fresh(n) : node' = [node EXCEPT ![n] = StartedNode(id)]
  BY DEF Restart
<1>2. node \in [Nodes -> NodeType]
  BY DEF IInv, TypeOK
<1>3. id \in Nat
  <2>1. MinMeshId(node[n], NULL) \in Nat /\ MeshSpan \in Nat
    BY <1>2, MinMeshIdType, BoundsAssumption
  <2> QED BY <2>1 DEF Fresh
<1> DEFINE s == StartedNode(id)
<1>4. Exact(s, {})
  BY <1>3, StartedExact
<1> HIDE DEF s
<1>5. node'[n] = s /\ \A k \in Nodes \ {n} : node'[k] = node[k]
  BY <1>1, <1>2 DEF s
<1> QED BY <1>4, <1>5 DEF Precise

--------------------------------------------------------------------------------
(* The theorems. *)

\* Nodes that have just started have counted nothing.
LEMMA InitExact == ASSUME Init PROVE Precise
<1>1. \A n \in Nodes : node[n] = StartedNode(MeshIdOf[n]) /\ MeshIdOf[n] \in Nat
  BY BoundsAssumption DEF Init
<1> QED BY <1>1, StartedExact DEF Precise

\* Every handler keeps the counts exact.
LEMMA NextExact == ASSUME IInv, Precise, [Next]_vars PROVE Precise'
<1>1. ASSUME NEW n \in Nodes, App(n) PROVE Precise'
  BY <1>1, SubscribeExact, UnsubscribeExact, LinkCallsExact, ShutdownExact DEF App
<1>2. ASSUME NEW n \in Nodes, Task(n) PROVE Precise'
  BY <1>2, LinkExistsExact, SendSubCompleteExact, OnShutdownRequestExact, SendSubsStartExact DEF Task
<1>3. ASSUME NEW n \in Nodes, SendSubsTimer(n) PROVE Precise'
  BY <1>3, SendSubsStartExact
<1>4. ASSUME Walk PROVE Precise'
  BY <1>4, SendSubsStepExact, SendSubsEndExact DEF Walk
<1>5. ASSUME NEW n \in Nodes, NEW m \in Nodes, Receive(n, m) PROVE Precise'
  BY <1>5, ReceiveExact
<1>6. UNCHANGED node => Precise'
  BY DEF Precise
<1>7. ASSUME Environment PROVE Precise'
  BY <1>6, <1>7, RestartExact, NetErrorExact DEF Environment, Duplicate, Lose
<1>8. ASSUME UNCHANGED vars PROVE Precise'
  BY <1>6, <1>8 DEF vars
<1> QED BY <1>1, <1>2, <1>3, <1>4, <1>5, <1>7, <1>8 DEF Next

\* Precise is an invariant of the protocol.
THEOREM InterestsInductive == Spec => []Precise
<1>1. Init => Precise
  BY InitExact
<1>2. IInv /\ Precise /\ [Next]_vars => Precise'
  BY NextExact
<1> QED BY <1>1, <1>2, Inductive, PTL DEF Spec

\* A node's interests and needs count exactly its subscriptions and what its remotes
\* last told it, through every handler of sub.c and dps.c and every failing send.
THEOREM CountsExactHolds == Spec => []CountsExact
<1>1. ASSUME Precise, NEW n \in Nodes
      PROVE  LET s == node[n]
                 local(x) == FuzzyHash(SubBits[x])
                 int(m) == s.remote[m].inInt
                 needs(m) == s.remote[m].inNeeds
                 bits(x) == SubBits[x]
             IN  /\ CountsOf(s, s.interests, Bits, bits, int)
                 /\ CountsOf(s, s.needs, FHBits, local, needs)
  <2> DEFINE s == node[n]
  <2>1. /\ Tallies(s.interests, Bits, s.subs, SubBits, Known(s), Inbound(s))
        /\ Tallies(s.needs, FHBits, s.subs, SubNeeds, Known(s), InboundNeeds(s))
        /\ s \in NodeType
    BY <1>1 DEF Precise, Exact, Counted
  <2> HIDE DEF s
  <2>2. s.subs \subseteq Subs /\ Known(s) \subseteq Nodes
    BY <2>1, LinkedNodes DEF NodeType, Known
  <2>3. /\ \A b : {x \in s.subs : b \in SubBits[x]} = Having(s.subs, SubBits, b)
        /\ \A b : {x \in s.subs : b \in FuzzyHash(SubBits[x])} = Having(s.subs, SubNeeds, b)
    BY <2>2 DEF Having, SubNeeds
  <2>4. /\ \A b : {m \in Known(s) : b \in s.remote[m].inInt} = Having(Known(s), Inbound(s), b)
        /\ \A b : {m \in Known(s) : b \in s.remote[m].inNeeds} = Having(Known(s), InboundNeeds(s), b)
    BY <2>2 DEF Having, Inbound, InboundNeeds
  <2>5. /\ s.interests.entries = Cardinality(s.subs) + Cardinality(Known(s))
        /\ s.needs.entries = Cardinality(s.subs) + Cardinality(Known(s))
    BY <2>1 DEF Tallies
  <2>6. \A b \in Bits : s.interests.count[b]
            = Cardinality({x \in s.subs : b \in SubBits[x]})
              + Cardinality({m \in Known(s) : b \in s.remote[m].inInt})
    BY <2>1, <2>3, <2>4, Zenon DEF Tallies
  <2>7. \A b \in FHBits : s.needs.count[b]
            = Cardinality({x \in s.subs : b \in FuzzyHash(SubBits[x])})
              + Cardinality({m \in Known(s) : b \in s.remote[m].inNeeds})
    BY <2>1, <2>3, <2>4, Zenon DEF Tallies
  <2> QED BY <2>5, <2>6, <2>7, Zenon DEF CountsOf, s
<1>2. Precise => CountsExact
  BY <1>1, Zenon DEF CountsExact
<1> QED BY <1>2, InterestsInductive, PTL

\* DPS_SendSubscription's assertion never fails: not at a resend by SendSubsTimer, not
\* when a remote is muted while a SUB to it is unanswered, not at an unlink.
THEOREM MutedIsSilentHolds == Spec => []MutedIsSilent
<1>1. Precise => MutedIsSilent
  BY DEF Precise, Exact, MutedIsSilent
<1> QED BY <1>1, InterestsInductive, PTL

================================================================================
