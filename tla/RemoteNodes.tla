------------------------------ MODULE RemoteNodes ------------------------------
(***************************************************************************)
(* What one DPS node keeps about its peers, and the functions of src/dps.c *)
(* and src/sub.c that change it.  Every operator here is one C function    *)
(* that runs with the node lock held; it takes the node's record `s` and   *)
(* returns the record the function leaves behind.  Messages the function   *)
(* hands to DPS_NetSend are appended to s.out; module LinkProtocol moves   *)
(* them to the network when the handler returns.                           *)
(*                                                                         *)
(* `e` is what the environment decides during one handler:                 *)
(*   e.fail   the peers for which DPS_NetSend returns an error,            *)
(*   e.fresh  the mesh id DPS_RandUUIDLess draws, should it be called.     *)
(*                                                                         *)
(* A Bloom filter is the set of its bits (Bits).  An assert() of the code  *)
(* that fails adds a word to s.fault and execution goes on, which is what  *)
(* a build with NDEBUG does.                                               *)
(***************************************************************************)
EXTENDS Integers, Sequences, FiniteSets

CONSTANTS Nodes,        \* the addresses of the nodes
          Bits,         \* positions of a Bloom filter
          Subs,         \* the subscriptions an application may create
          SubBits,      \* SubBits[x]: the Bloom filter of subscription x
          NULL,         \* a null pointer
          MaxMeshId     \* DPS_MaxMeshId, greater than every generated mesh id

\* Subscriptions have at least one topic (DPS_CreateSubscription) and every
\* topic sets at least one bit.
ASSUME SubBitsAssumption ==
    /\ IsFiniteSet(Bits)
    /\ SubBits \in [Subs -> (SUBSET Bits) \ {{}}]
ASSUME MeshAssumption == MaxMeshId \in Nat

Retry == 2              \* DPS_SAK_RETRY_THRESHOLD
RetryLimit == 3         \* DPS_SAK_RETRY_LIMIT

RemoteStates == {"NEW", "ACTIVE", "LINKING", "UNLINKING", "MUTED", "UNMUTING"}

\* The "needs" vectors: a squashed copy of the bits and a unary population
\* count, so that FuzzyHash(A) is included in FuzzyHash(B) when A \subseteq B.
FHBits == Bits \X {"squash"} \cup (1 .. Cardinality(Bits)) \X {"pop"}
FuzzyHash(v) == v \X {"squash"} \cup (1 .. Cardinality(v)) \X {"pop"}

ASSUME NullAssumption == /\ NULL \notin Nodes /\ "shutdown" \notin Nodes
                         /\ \A v \in (SUBSET Bits) \cup (SUBSET FHBits) : v # NULL

Xor(a, b) == (a \ b) \cup (b \ a)

--------------------------------------------------------------------------------
(* Count vectors: how many vectors were added, and how many have each bit. *)

EmptyCV(X) == [entries |-> 0, count |-> [b \in X |-> 0]]
CVAdd(cv, v) == [entries |-> cv.entries + 1,
                 count |-> [b \in DOMAIN cv.count |->
                                cv.count[b] + (IF b \in v THEN 1 ELSE 0)]]
CVDel(cv, v) == IF cv.entries = 0 THEN cv
                ELSE [entries |-> cv.entries - 1,
                      count |-> [b \in DOMAIN cv.count |->
                                    cv.count[b] - (IF b \in v THEN 1 ELSE 0)]]
CVUnion(cv) == {b \in DOMAIN cv.count : cv.count[b] # 0}
CVIntersection(cv) == {b \in DOMAIN cv.count : cv.entries # 0 /\ cv.count[b] = cv.entries}

--------------------------------------------------------------------------------
(* The state of a node. *)

\* calloc and DPS_AddRemoteNode
NewRemote ==
    [state |-> "NEW", completion |-> "none",
     inRev |-> 0, inMesh |-> MaxMeshId, inInt |-> NULL, inNeeds |-> NULL,
     linkRequested |-> FALSE, deltaInd |-> FALSE, sakCounter |-> 0,
     sendInterests |-> FALSE, sakPending |-> FALSE, lastSubMsgType |-> "none",
     outRev |-> 0, outInt |-> NULL, outNeeds |-> NULL, delta |-> NULL]

\* A node just started, with the mesh id drawn by DPS_GenerateUUID.
StartedNode(meshId) ==
    [meshId |-> meshId,
     remoteNodes |-> <<>>,                       \* the linked list, head first
     remote |-> [m \in Nodes |-> NewRemote],     \* meaningful for m on the list
     subs |-> {},
     interests |-> EmptyCV(Bits), needs |-> EmptyCV(FHBits),
     subsPending |-> "none", subsAsync |-> FALSE,
     walk |-> NULL,                              \* SendSubsTimer's loop
     onShutdown |-> FALSE,
     requests |-> {},                            \* scheduled NodeRequests
     sending |-> {},                             \* peers a SUB is being sent to
     owed |-> [m \in Nodes |-> 0],               \* callbacks owed to the application
     out |-> [m \in Nodes |-> <<>>],
     fault |-> {}]

--------------------------------------------------------------------------------
(* Types. *)

Vector(X) == {NULL} \cup SUBSET X
CountVector(X) == [entries : Nat, count : [X -> Int]]
RemoteType ==
    [state : RemoteStates, completion : {"none", "link", "unlink"},
     inRev : Nat, inMesh : Nat, inInt : Vector(Bits), inNeeds : Vector(FHBits),
     linkRequested : BOOLEAN, deltaInd : BOOLEAN, sakCounter : Nat,
     sendInterests : BOOLEAN, sakPending : BOOLEAN, lastSubMsgType : {"none", "SUB", "SAK"},
     outRev : Nat, outInt : Vector(Bits), outNeeds : Vector(FHBits), delta : Vector(Bits)]
Messages ==
    [type : {"SUB", "SAK"}, rev : Nat, ackRev : Nat, mesh : Nat,
     sakReq : BOOLEAN, unlink : BOOLEAN, mute : BOOLEAN, delta : BOOLEAN, unmute : BOOLEAN,
     int : Vector(Bits), needs : Vector(FHBits)]
Faults == {"count", "needs", "sub to muted", "duplicate from new",
           "null interests", "freed remote", "called twice"}
\* A linked list whose elements all differ.
Lists == {l \in Seq(Nodes) : \A i, j \in DOMAIN l : l[i] = l[j] => i = j}
NodeType ==
    [meshId : Nat, remoteNodes : Lists, remote : [Nodes -> RemoteType],
     subs : SUBSET Subs, interests : CountVector(Bits), needs : CountVector(FHBits),
     subsPending : {"none", "throttled", "now"}, subsAsync : BOOLEAN,
     walk : {NULL} \cup [next : {NULL} \cup Nodes, reschedule : BOOLEAN],
     onShutdown : BOOLEAN, requests : SUBSET (Nodes \cup {"shutdown"}),
     sending : SUBSET Nodes, owed : [Nodes -> Int],
     out : [Nodes -> Seq(Messages)], fault : SUBSET Faults]

Linked(s) == {s.remoteNodes[i] : i \in DOMAIN s.remoteNodes}

\* One remote changed, or a field of it.
Put(s, m, r) == [s EXCEPT !.remote[m] = r]
Fault(s, word) == [s EXCEPT !.fault = @ \cup {word}]
Check(s, cond, word) == IF cond THEN s ELSE Fault(s, word)
\* DPS_NetSend
Emit(s, m, msg) == [s EXCEPT !.out[m] = Append(@, msg)]

\* InsertRemoteNode, RemoveRemoteNode
InsertRemoteNode(s, m) == [s EXCEPT !.remoteNodes = <<m>> \o @]
RemoveRemoteNode(s, m) ==
    LET l == s.remoteNodes
        i == CHOOSE j \in DOMAIN l : l[j] = m
    IN  [s EXCEPT !.remoteNodes =
            [j \in 1 .. Len(l) - 1 |-> IF j < i THEN l[j] ELSE l[j + 1]]]
\* remote->next
Successor(s, m) ==
    LET l == s.remoteNodes
        i == CHOOSE j \in DOMAIN l : l[j] = m
    IN  IF i < Len(l) THEN l[i + 1] ELSE NULL

UpdateSubs(s, pending) ==
    [s EXCEPT !.subsPending = IF @ # "now" /\ pending = "throttled"
                                THEN "throttled" ELSE "now",
              !.subsAsync = TRUE]

\* DPS_MinMeshId: the least of the node's own mesh id and those received from
\* the active or linking remotes other than `excluded`.
MinMeshId(s, excluded) ==
    LET ids == {s.meshId} \cup
               {s.remote[m].inMesh : m \in {x \in Linked(s) \ {excluded} :
                                     s.remote[x].state \in {"ACTIVE", "LINKING"}}}
    IN  CHOOSE i \in ids : \A j \in ids : i <= j

\* Mutant: loops are not detected.
NoLoopSeen(s, m, meshId) == FALSE
MeshHasLoop(s, m, meshId) ==
    /\ s.remote[m].inMesh # meshId
    /\ meshId = MinMeshId(s, m)

--------------------------------------------------------------------------------
(* Deleting a remote and completing an operation on it. *)

ClearInboundInterests(s, m) ==
    LET r == s.remote[m]
    IN  IF r.inInt = NULL THEN s
        ELSE [Put(Check(s, s.interests.entries # 0 /\ s.needs.entries # 0, "count"),
                  m, [r EXCEPT !.inInt = NULL, !.inNeeds = NULL]) EXCEPT
                !.interests = CVDel(@, r.inInt), !.needs = CVDel(@, r.inNeeds)]

\* Mutant: the shutdown callback is not called.
OnShutdownLost(s) == s
OnShutdown(s) == IF s.remoteNodes = <<>> THEN [s EXCEPT !.onShutdown = FALSE] ELSE s

\* The tail of RemoteCompletion: cancel the queued request, call the application.
CallBack(s, m) == [s EXCEPT !.requests = @ \ {m}, !.owed[m] = @ - 1]

\* RemoteCompletion when the remote is gone (DPS_ERR_MISSING).
CompleteMissing(s, m, completion) ==
    IF completion = "none" THEN s ELSE OnShutdown(CallBack(s, m))

\* Mutant: the remote's interests stay in the count vectors.
DeleteKeepsCounts(s, m) ==
    IF m \notin Linked(s) THEN s
    ELSE CompleteMissing(Put(RemoveRemoteNode(s, m), m, NewRemote), m, s.remote[m].completion)

DeleteRemoteNode(s, m) ==
    IF m \notin Linked(s) THEN s
    ELSE CompleteMissing(Put(RemoveRemoteNode(ClearInboundInterests(s, m), m), m, NewRemote),
                         m, s.remote[m].completion)

--------------------------------------------------------------------------------
(* Outbound interests. *)

FreeOutbound(r) == [r EXCEPT !.outInt = NULL, !.outNeeds = NULL]
ClearOutboundInterests(r) == [r EXCEPT !.outInt = {}, !.outNeeds = {}, !.deltaInd = FALSE]

\* What would be sent to m: everything the node wants, m's own wants excluded.
OutboundInterests(s, m) ==
    LET v == s.remote[m].inInt IN CVUnion(IF v = NULL THEN s.interests ELSE CVDel(s.interests, v))
OutboundNeeds(s, m) ==
    LET v == s.remote[m].inNeeds IN CVIntersection(IF v = NULL THEN s.needs ELSE CVDel(s.needs, v))

\* DPS_UpdateOutboundInterests sets *changes when:
Changes(s, m) ==
    LET r == s.remote[m]
    IN  r.state = "UNLINKING" \/ r.outInt = NULL \/ r.outInt # OutboundInterests(s, m)

UpdateOutboundInterests(s, m) ==
    LET r == s.remote[m]
        i == OutboundInterests(s, m)
        n == OutboundNeeds(s, m)
        rev == r.outRev + (IF Changes(s, m) THEN 1 ELSE 0)
    IN  IF r.state = "UNLINKING"
          THEN Put(s, m, [FreeOutbound(r) EXCEPT !.outRev = rev])
          ELSE Put(Check(s, Changes(s, m) \/ r.outNeeds = n, "needs"), m,
                   [r EXCEPT !.outInt = i, !.outNeeds = n, !.outRev = rev,
                             !.deltaInd = (r.outInt # NULL),
                             !.delta = IF r.outInt = NULL THEN @ ELSE Xor(r.outInt, i)])

--------------------------------------------------------------------------------
(* Sending SUBs and SAKs. *)

\* Every message that asks for a SAK, an unlinking SUB excepted, announces
\* interests: they must be there when it is serialized.
WellFormed(msg) == msg.sakReq /\ (msg.type = "SUB" => ~msg.unlink)
                     => msg.int # NULL /\ msg.needs # NULL

\* DPS_SendSubscription
SubMsg(s, m) ==
    LET r == s.remote[m]
        u == r.state = "UNLINKING"
    IN  [type |-> "SUB", rev |-> r.outRev, ackRev |-> 0, mesh |-> MinMeshId(s, m),
         sakReq |-> TRUE, unlink |-> u, mute |-> FALSE,
         delta |-> ~u /\ r.deltaInd, unmute |-> r.state = "UNMUTING",
         int |-> IF u THEN NULL ELSE IF r.deltaInd THEN r.delta ELSE r.outInt,
         needs |-> IF u THEN NULL ELSE r.outNeeds]

SendSubscription(s, m, e) ==
    LET r == s.remote[m]
        msg == SubMsg(s, m)
        t == Check(Check(s, r.state # "MUTED", "sub to muted"), WellFormed(msg), "null interests")
    IN  IF m \in e.fail THEN DeleteRemoteNode(Put(t, m, [r EXCEPT !.sakPending = FALSE]), m)
        ELSE Emit([Put(t, m, [r EXCEPT !.sakPending = TRUE, !.lastSubMsgType = "SUB",
                                       !.sakCounter = IF r.sakPending THEN @ ELSE 0])
                   EXCEPT !.sending = @ \cup {m}], m, msg)

\* DPS_SendSubscriptionAck.  An UNMUTING remote becomes ACTIVE and is told the
\* interests; a SAK carries interests, and then asks for a SAK in turn, unless
\* the SUB it answers crossed one of ours.
Unmuted(r) == IF r.state = "UNMUTING" THEN [r EXCEPT !.state = "ACTIVE", !.sendInterests = TRUE]
              ELSE r
AckMsg(s, m, req) ==
    LET r == s.remote[m]
    IN  [type |-> "SAK", rev |-> r.outRev, ackRev |-> r.inRev, mesh |-> MinMeshId(s, m),
         sakReq |-> req, unlink |-> r.state = "UNLINKING",
         mute |-> r.state = "MUTED", delta |-> r.deltaInd, unmute |-> FALSE,
         int |-> IF ~req THEN NULL ELSE IF r.deltaInd THEN r.delta ELSE r.outInt,
         needs |-> IF req THEN r.outNeeds ELSE NULL]

SendSubscriptionAck(s, m, collision, e) ==
    LET r == Unmuted(s.remote[m])
        req == ~collision /\ r.sendInterests
        msg == AckMsg(s, m, req)
        t == Check(s, WellFormed(msg), "null interests")
    IN  IF m \in e.fail THEN DeleteRemoteNode(Put(t, m, [r EXCEPT !.sakPending = FALSE]), m)
        ELSE Emit(Put(t, m, [r EXCEPT !.sakPending = req,
                                      !.lastSubMsgType = IF req THEN "SAK" ELSE "none",
                                      !.sakCounter = IF req /\ ~r.sakPending THEN 0 ELSE @]),
                  m, msg)

\* Mutant: the remote is put at the head of the list and not taken from where it was.
MuteInsertsTwice(s, m) ==
    IF s.remote[m].state \in {"MUTED", "UNLINKING"} THEN s
    ELSE LET r == [FreeOutbound(s.remote[m]) EXCEPT !.state = "MUTED", !.sendInterests = FALSE]
         IN  InsertRemoteNode(Put(s, m, r), m)

MuteRemoteNode(s, m) ==
    IF s.remote[m].state \in {"MUTED", "UNLINKING"} THEN s
    ELSE LET r == [FreeOutbound(s.remote[m]) EXCEPT !.state = "MUTED", !.sendInterests = FALSE]
         IN  InsertRemoteNode(RemoveRemoteNode(Put(s, m, r), m), m)

UnmuteRemoteNode(s, m, e) ==
    IF s.remote[m].state \notin {"MUTED", "UNMUTING"} THEN s
    ELSE LET r == [ClearOutboundInterests(s.remote[m]) EXCEPT !.state = "UNMUTING", !.sakCounter = 0]
             t == [Put(s, m, r) EXCEPT !.meshId = e.fresh]
         IN  SendSubscription(UpdateOutboundInterests(t, m), m, e)

--------------------------------------------------------------------------------
(* Link, unlink and their completion. *)

\* Unlink for every remote in ms; the caller has checked that none of them has
\* an operation in progress (DPS_ERR_BUSY).
Unlink(s, ms) ==
    LET Unlinking(r) == [r EXCEPT !.linkRequested = FALSE, !.completion = "unlink",
                                  !.state = IF r.sakPending THEN @ ELSE "UNLINKING"]
        t == [s EXCEPT !.owed = [m \in Nodes |-> s.owed[m] + (IF m \in ms THEN 1 ELSE 0)],
                       !.remote = [m \in Nodes |-> IF m \in ms THEN Unlinking(s.remote[m])
                                                   ELSE s.remote[m]]]
    IN  IF \E m \in ms : ~s.remote[m].sakPending THEN UpdateSubs(t, "now") ELSE t

\* Mutant: remote->completion is not cleared.
LinkCompletionKept(s, m) ==
    CallBack([s EXCEPT !.remote[m].state = IF @ = "LINKING" THEN "ACTIVE" ELSE @], m)

\* RemoteCompletion of a link operation, status DPS_OK or DPS_ERR_EXISTS.
LinkCompletion(s, m) ==
    LET r == s.remote[m]
        t == CallBack(Put(s, m, [r EXCEPT !.completion = "none",
                                          !.state = IF @ = "LINKING" THEN "ACTIVE" ELSE @]), m)
    IN  IF s.onShutdown THEN Unlink(t, {m}) ELSE t

\* RemoteCompletion of an unlink operation.  The unlink that waited for a SAK is
\* sent now; if that send fails the remote and its completion are gone, and the
\* callback is called a second time.
CalledTwice(s, m, e) == IF m \in e.fail THEN Fault(CallBack(s, m), "called twice") ELSE s
UnlinkCompletion(s, m, e) ==
    IF s.remote[m].state # "UNLINKING"
      THEN CalledTwice(SendSubscription(
                UpdateOutboundInterests([s EXCEPT !.remote[m].state = "UNLINKING"], m), m, e), m, e)
      ELSE OnShutdown(CallBack(DeleteRemoteNode([s EXCEPT !.remote[m].completion = "none"], m), m))

RemoteCompletion(s, m, e) ==
    CASE s.remote[m].completion = "link" -> LinkCompletion(s, m)
      [] s.remote[m].completion = "unlink" -> UnlinkCompletion(s, m, e)
      [] OTHER -> s

--------------------------------------------------------------------------------
(* Receiving SUBs and SAKs. *)

\* Mutant: DPS_SUB_FLAG_DELTA_IND is ignored.
UpdateInboundNoDelta(s, m, msg) ==
    LET t == ClearInboundInterests(s, m)
    IN  IF msg.int = {} THEN t
        ELSE [t EXCEPT !.interests = CVAdd(@, msg.int), !.needs = CVAdd(@, msg.needs),
                       !.remote[m].inInt = msg.int, !.remote[m].inNeeds = msg.needs]

UpdateInboundInterests(s, m, msg) ==
    LET old == s.remote[m].inInt
        int == IF msg.delta /\ old # NULL THEN Xor(msg.int, old) ELSE msg.int
        t == ClearInboundInterests(s, m)
    IN  IF int = {} THEN t
        ELSE [Put(t, m, [t.remote[m] EXCEPT !.inInt = int, !.inNeeds = msg.needs]) EXCEPT
                !.interests = CVAdd(@, int), !.needs = CVAdd(@, msg.needs)]

\* Mutant: stale messages are not discarded.
NeverStale(s, m, msg) == FALSE
\* "Discard stale subscription messages"
Stale(s, m, msg) == msg.rev < s.remote[m].inRev

\* DecodeSubscription from the point where the remote is known and the message
\* is not stale, in the order of the code.  `dup`: the revision is the one already
\* received.  A handler whose remote disappeared under it (a send failed) goes on
\* with the freed structure.
MuteOrUnmute(s, m, msg, e) ==
    IF msg.unmute THEN UnmuteRemoteNode(s, m, e)
    ELSE IF /\ s.remote[m].state \notin {"MUTED", "UNMUTING"}
            /\ msg.mute \/ MeshHasLoop(s, m, msg.mesh)
      THEN MuteRemoteNode(s, m) ELSE s
Learn(s, m, msg, dup) == IF msg.sakReq /\ ~dup THEN UpdateInboundInterests(s, m, msg) ELSE s
\* "Always send the interests in the first SAK"
FirstSak(s, m, dup) ==
    IF s.remote[m].state # "NEW" THEN s
    ELSE [UpdateOutboundInterests(Check(s, ~dup, "duplicate from new"), m)
            EXCEPT !.remote[m].sendInterests = Changes(s, m)]
Answer(s, m, msg, collision, dup, e) ==
    IF msg.sakReq THEN SendSubscriptionAck(FirstSak(s, m, dup), m, collision, e)
    ELSE [s EXCEPT !.remote[m].lastSubMsgType = "none"]
Conclude(s, m, msg) ==
    IF m \notin Linked(s) THEN Fault(s, "freed remote")
    ELSE Put(s, m, [s.remote[m] EXCEPT !.inMesh = msg.mesh,
                                       !.state = IF @ = "NEW" THEN "ACTIVE" ELSE @])
Exchange(s, m, msg, collision, dup, e) ==
    IF m \notin Linked(s) THEN Fault(s, "freed remote")
    ELSE Conclude(Answer(Learn(s, m, msg, dup), m, msg, collision, dup, e), m, msg)
Accept(s, m, msg, collision, e) ==
    Exchange(MuteOrUnmute([s EXCEPT !.remote[m].inRev = msg.rev], m, msg, e),
             m, msg, collision, s.remote[m].inRev = msg.rev, e)

\* UnlinkRemote
ReceiveUnlink(s, m, msg, e) ==
    LET r == [s.remote[m] EXCEPT !.sendInterests = FALSE, !.inRev = msg.rev]
        t == SendSubscriptionAck(Put(s, m, r), m, FALSE, e)
        u == [Check(t, m \notin e.fail, "freed remote") EXCEPT !.remote[m].linkRequested = FALSE]
    IN  UpdateSubs(DeleteRemoteNode(u, m), "now")

\* The end of DPS_DecodeSubscription: an operation that waited for m to be heard.
FinishSub(s, m, e) ==
    IF m \in Linked(s) /\ ~s.remote[m].sakPending THEN RemoteCompletion(s, m, e) ELSE s

\* DPS_AddRemoteNode, as DecodeSubscription calls it.
AddRemoteNode(s, m) ==
    IF m \in Linked(s) THEN s
    ELSE InsertRemoteNode(Put(s, m, ClearOutboundInterests(NewRemote)), m)
\* The answer was sent: the other remotes may have to be told.
Propagate(s, m, e) == IF m \in e.fail THEN s ELSE UpdateSubs(s, "throttled")
ReceiveSub(s, m, msg, collision, e) ==
    IF Stale(s, m, msg) THEN s ELSE Propagate(Accept(s, m, msg, collision, e), m, e)
DecodeSubscription(s, m, msg, e) ==
    IF msg.unlink THEN IF m \in Linked(s) THEN ReceiveUnlink(s, m, msg, e) ELSE s
    ELSE FinishSub(ReceiveSub(AddRemoteNode(s, m), m, msg,
                              m \in Linked(s) /\ s.remote[m].sakPending, e), m, e)

\* The end of DPS_DecodeSubscriptionAck: the SAK is for the latest revision.
Acknowledged(s, m, msg, e) ==
    IF m \notin Linked(s) \/ s.remote[m].outRev # msg.ackRev THEN s
    ELSE RemoteCompletion(Put(s, m, [s.remote[m] EXCEPT !.sendInterests = FALSE,
                                        !.sakPending = FALSE,
                                        !.state = IF @ = "UNMUTING" THEN "ACTIVE" ELSE @]), m, e)
DecodeSubscriptionAck(s, m, msg, e) ==
    IF m \notin Linked(s) \/ Stale(s, m, msg) THEN s
    ELSE Acknowledged(Accept(s, m, msg, FALSE, e), m, msg, e)

================================================================================
