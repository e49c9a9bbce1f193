------------------------------ MODULE LinkProtocol -----------------------------
(***************************************************************************)
(* DPS nodes that link to each other and keep each other informed of what  *)
(* they are interested in, by SUBs and the SAKs that acknowledge them.     *)
(* One action is one handler: an API call of the application, a task or    *)
(* timer of the node's libuv loop, or a message.  A handler runs with the  *)
(* node lock held, so it is one step; the loop of SendSubsTimer is the     *)
(* exception, it takes one step per remote and excludes other handlers     *)
(* until it is done.                                                       *)
(***************************************************************************)
EXTENDS RemoteNodes

CONSTANTS Stream,       \* TRUE: TCP or pipes.  FALSE: UDP, datagrams
          Linkable,     \* bound: the links <<n, m>> the application of n may ask for
          MeshIdOf,     \* MeshIdOf[n]: the mesh id n draws when it starts
          MeshSpan,     \* bound: how far below the least id a fresh one is drawn
          MaxQueue,     \* bound: messages in flight to a peer when SendSubsTimer starts
          Budget        \* bound: how often each kind of outside event happens

VARIABLES node,         \* node[n]: the state of n (RemoteNodes)
          net,          \* net[a][b]: messages a sent to b that are in flight
          budget        \* what is left of Budget

vars == <<node, net, budget>>

Events == {"subscribe", "unsubscribe", "link", "unlink", "shutdown",
           "early", "lose", "duplicate", "sendfail", "error", "restart"}

ASSUME BoundsAssumption ==
    /\ Stream \in BOOLEAN
    /\ Linkable \subseteq {l \in Nodes \X Nodes : l[1] # l[2]}
    /\ MeshIdOf \in [Nodes -> Nat]
    /\ \A n \in Nodes : MeshIdOf[n] < MaxMeshId
    /\ MeshSpan \in Nat /\ MaxQueue \in Nat
    /\ Budget \in [Events -> Nat]

Init == /\ node = [n \in Nodes |-> StartedNode(MeshIdOf[n])]
        /\ net = [a \in Nodes |-> [b \in Nodes |-> <<>>]]
        /\ budget = Budget

--------------------------------------------------------------------------------
\* The handler used a null pointer, a freed remote or a freed completion: what
\* follows is undefined and not modelled.
Faulty(s) == s.fault \cap {"null interests", "freed remote", "called twice"} # {}
Crashed(n) == Faulty(node[n])
\* No SendSubsTimer loop is running: the loop reads and changes one node and
\* only adds to the network, so nothing is lost by letting it run to its end.
Idle == \A n \in Nodes : node[n].walk = NULL /\ ~Crashed(n)

Spend(event) == /\ budget[event] > 0
                /\ budget' = [budget EXCEPT ![event] = @ - 1]

\* What the environment may decide during a handler of n.  A failing
\* DPS_NetSend is one "sendfail".  DPS_RandUUIDLess draws an id less than
\* all the ids n knows; ids being random, no two nodes draw the same one: n's
\* ids are those that leave the remainder of MeshIdOf[n].
Fresh(n) == LET min == MinMeshId(node[n], NULL)
            IN  {i \in min - MeshSpan .. min - 1 :
                        i >= 0 /\ (i - MeshIdOf[n]) % Cardinality(Nodes) = 0}
Env(n) == {e \in [fail : SUBSET Linked(node[n]), fresh : Fresh(n)] :
                e.fail # {} => budget["sendfail"] > 0}
PayFor(e) == IF e.fail = {} THEN UNCHANGED budget ELSE Spend("sendfail")

\* The handler of n returns, leaving state s and, on the links that lead to
\* it, the messages `in`.
Return(n, s, in) ==
    /\ node' = [node EXCEPT ![n] = [s EXCEPT !.out = [m \in Nodes |-> <<>>]]]
    /\ net' = [in EXCEPT ![n] = [m \in Nodes |-> in[n][m] \o s.out[m]]]

--------------------------------------------------------------------------------
(* Calls of the application. *)

\* DPS_Subscribe
Subscribe(n, x) ==
    /\ Idle /\ Spend("subscribe")
    /\ x \notin node[n].subs
    /\ Return(n, UpdateSubs([node[n] EXCEPT !.subs = @ \cup {x},
                                !.interests = CVAdd(@, SubBits[x]),
                                !.needs = CVAdd(@, FuzzyHash(SubBits[x]))], "now"), net)

\* DPS_DestroySubscription
Unsubscribe(n, x) ==
    /\ Idle /\ Spend("unsubscribe")
    /\ x \in node[n].subs
    /\ Return(n, UpdateSubs([Check(node[n], node[n].interests.entries # 0
                                            /\ node[n].needs.entries # 0, "count") EXCEPT
                                !.subs = @ \ {x},
                                !.interests = CVDel(@, SubBits[x]),
                                !.needs = CVDel(@, FuzzyHash(SubBits[x]))], "now"), net)

\* DPS_Link, and LinkRemoteAddr: DPS_ERR_BUSY changes nothing and is left out.
LinkNew(s, m) ==
    UpdateSubs([InsertRemoteNode(s, m) EXCEPT
                    !.remote[m] = [NewRemote EXCEPT !.linkRequested = TRUE,
                                    !.state = "LINKING", !.completion = "link"],
                    !.owed[m] = @ + 1], "now")
LinkAgain(s, m) == [s EXCEPT !.requests = @ \cup {m},
                             !.remote[m].completion = "link", !.owed[m] = @ + 1]
Link(n, m) ==
    /\ Idle /\ Spend("link")
    /\ <<n, m>> \in Linkable
    /\ \/ m \notin Linked(node[n]) /\ Return(n, LinkNew(node[n], m), net)
       \/ /\ m \in Linked(node[n]) /\ node[n].remote[m].completion = "none"
          /\ Return(n, LinkAgain(node[n], m), net)

\* DPS_Unlink
UnlinkRemote(n, m) ==
    /\ Idle /\ Spend("unlink")
    /\ m \in Linked(node[n]) /\ node[n].remote[m].completion = "none"
    /\ Return(n, Unlink(node[n], {m}), net)

\* DPS_ShutdownNode
ShutdownNode(n) ==
    LET s == [node[n] EXCEPT !.onShutdown = TRUE]
    IN  /\ Idle /\ Spend("shutdown")
        /\ ~node[n].onShutdown
        /\ Return(n, IF s.remoteNodes = <<>> THEN [s EXCEPT !.requests = @ \cup {"shutdown"}]
                     ELSE Unlink(s, {m \in Linked(s) : s.remote[m].completion = "none"}), net)

--------------------------------------------------------------------------------
(* Tasks and timers of the node's loop. *)

\* RequestTask: LinkExists and OnShutdownRequest
LinkExists(n, m) ==
    /\ Idle /\ m \in node[n].requests
    /\ Return(n, LinkCompletion([node[n] EXCEPT !.remote[m].linkRequested = TRUE], m), net)
    /\ UNCHANGED budget
OnShutdownRequest(n) ==
    /\ Idle /\ "shutdown" \in node[n].requests
    /\ Return(n, OnShutdown([node[n] EXCEPT !.requests = @ \ {"shutdown"}]), net)
    /\ UNCHANGED budget

StartWalk(s) == [s EXCEPT !.walk = [next |-> IF s.remoteNodes = <<>> THEN NULL
                                             ELSE s.remoteNodes[1],
                                    reschedule |-> FALSE]]
Room(n) == \A m \in Nodes : Len(net[n][m]) < MaxQueue
\* SendSubsTask; the timer it may start is running anyway.
SendSubsTask(n) ==
    LET s == [node[n] EXCEPT !.subsAsync = FALSE]
    IN  /\ Idle /\ Room(n) /\ node[n].subsAsync
        /\ Return(n, IF s.subsPending = "now" THEN StartWalk(s) ELSE s, net)
        /\ UNCHANGED budget

\* The subsTimer, which repeats every linkLossTimeout, expires.  An expiry is
\* early when a message from or to the node is still in flight.
SendSubsTimer(n) ==
    /\ Idle /\ Room(n)
    /\ IF \A m \in Nodes : net[n][m] = <<>> /\ net[m][n] = <<>>
         THEN UNCHANGED budget ELSE Spend("early")
    /\ Return(n, StartWalk(node[n]), net)

\* The first remote in list order that decides FindAlternativeRoute's loop.
FindAlternativeRoute(s, old, e) ==
    LET l == s.remoteNodes
        st(i) == s.remote[l[i]].state
        same(i) == l[i] # old /\ s.remote[l[i]].inMesh = s.remote[old].inMesh
        stop == {i \in DOMAIN l : same(i) /\ st(i) \in {"ACTIVE", "UNMUTING", "MUTED"}}
        muted == {i \in DOMAIN l : l[i] # old /\ st(i) = "MUTED"}
        First(S) == CHOOSE i \in S : \A j \in S : i <= j
    IN  IF stop # {}
          THEN IF st(First(stop)) = "MUTED" THEN UnmuteRemoteNode(s, l[First(stop)], e) ELSE s
          ELSE IF muted # {} THEN UnmuteRemoteNode(s, l[First(muted)], e) ELSE s

\* Mutant: an unacknowledged SUB is never resent.
ResendForgotten(s, m, e) == [s |-> s, again |-> TRUE]

\* One iteration of SendSubsTimer's loop, for remote m: what it does and
\* whether it asks for the timer to be started again.
ResendOrGiveUp(s, m, e) ==
    LET c == s.remote[m].sakCounter + 1
        t == [s EXCEPT !.remote[m].sakCounter = c]
    IN  CASE s.subsPending = "now" -> [s |-> s, again |-> TRUE]
          [] s.subsPending # "now" /\ c < Retry -> [s |-> t, again |-> TRUE]
          [] s.subsPending # "now" /\ c >= Retry + RetryLimit ->
                [s |-> DeleteRemoteNode(IF s.remote[m].state = "ACTIVE"
                                          THEN FindAlternativeRoute(t, m, e) ELSE t, m),
                 again |-> FALSE]
          [] OTHER -> [s |-> IF s.remote[m].lastSubMsgType = "SUB" THEN SendSubscription(t, m, e)
                             ELSE SendSubscriptionAck(t, m, FALSE, e),
                       again |-> m \notin e.fail]
\* Mutant: a muted remote is sent SUBs like any other.
SendIfChangedMuted(s, m, e) ==
    IF Changes(s, m) \/ s.subsPending = "none"
      THEN [s |-> SendSubscription(UpdateOutboundInterests(s, m), m, e), again |-> m \notin e.fail]
      ELSE [s |-> UpdateOutboundInterests(s, m), again |-> FALSE]
SendIfChanged(s, m, e) ==
    LET t == UpdateOutboundInterests(s, m)
    IN  IF s.remote[m].state = "MUTED" THEN [s |-> s, again |-> FALSE]
        ELSE IF Changes(s, m) \/ s.subsPending = "none"
          THEN [s |-> SendSubscription(t, m, e), again |-> m \notin e.fail]
          ELSE [s |-> t, again |-> FALSE]

\* remoteNext was read before the remote was handled: it may have been freed.
Onward(s, r, next) ==
    Check([r.s EXCEPT !.walk = [next |-> next, reschedule |-> s.walk.reschedule \/ r.again]],
          next = NULL \/ next \in Linked(r.s), "freed remote")
SendSubsStep(n) ==
    LET s == node[n]
        m == s.walk.next
    IN  /\ s.walk # NULL /\ m # NULL /\ ~Crashed(n)
        /\ \E e \in Env(n) :
             /\ PayFor(e)
             /\ Return(n, Onward(s, IF s.remote[m].sakPending THEN ResendOrGiveUp(s, m, e)
                                    ELSE SendIfChanged(s, m, e), Successor(s, m)), net)
SendSubsEnd(n) ==
    /\ node[n].walk # NULL /\ node[n].walk.next = NULL /\ ~Crashed(n)
    /\ Return(n, [node[n] EXCEPT !.walk = NULL,
                    !.subsPending = IF node[n].walk.reschedule THEN "throttled" ELSE "none"], net)
    /\ UNCHANGED budget

--------------------------------------------------------------------------------
(* The network. *)

\* DPS_OnSendSubscriptionComplete, status DPS_OK
SendSubComplete(n, m) ==
    LET s == [node[n] EXCEPT !.sending = @ \ {m}]
    IN  /\ Idle /\ m \in node[n].sending
        /\ Return(n, IF m \in Linked(s) /\ s.remote[m].sakPending
                       THEN UpdateSubs(s, "throttled") ELSE s, net)
        /\ UNCHANGED budget

\* A send completes, or a receive ends, with an error: DPS_SendComplete,
\* DPS_OnSendSubscriptionComplete (the send was a SUB), OnNetReceive.
NetError(n, m) ==
    /\ Idle /\ Spend("error")
    /\ m \in Linked(node[n])
    /\ \E sub \in SUBSET {m} :
         Return(n, DeleteRemoteNode([node[n] EXCEPT !.sending = @ \ sub], m), net)

\* Datagrams are delivered in any order, stream messages in the order sent.
Deliverable(m, n) == IF Stream THEN DOMAIN net[m][n] \cap {1} ELSE DOMAIN net[m][n]
Without(q, i) == [j \in 1 .. Len(q) - 1 |-> IF j < i THEN q[j] ELSE q[j + 1]]
Handle(n, m, msg, e) ==
    IF msg.type = "SUB" THEN DecodeSubscription(node[n], m, msg, e)
    ELSE DecodeSubscriptionAck(node[n], m, msg, e)

\* OnNetReceive, DecodeRequest
Receive(n, m) ==
    /\ Idle
    /\ \E i \in Deliverable(m, n) : \E e \in Env(n) :
         /\ PayFor(e)
         /\ Return(n, Handle(n, m, net[m][n][i], e),
                   [net EXCEPT ![m][n] = Without(@, i)])

\* The network delivers a datagram twice, or not at all.
Duplicate(m, n) ==
    /\ Idle /\ ~Stream /\ Spend("duplicate")
    /\ \E i \in DOMAIN net[m][n] :
         /\ Len(net[m][n]) < MaxQueue
         /\ net' = [net EXCEPT ![m][n] = Append(@, net[m][n][i])]
    /\ UNCHANGED node
Lose(m, n) ==
    /\ Idle /\ ~Stream /\ Spend("lose")
    /\ \E i \in DOMAIN net[m][n] : net' = [net EXCEPT ![m][n] = Without(@, i)]
    /\ UNCHANGED node

\* The program of n ends and starts again.  Connections do not survive that,
\* datagrams in flight do.
Restart(n) ==
    /\ Idle /\ Spend("restart")
    /\ \E id \in Fresh(n) : node' = [node EXCEPT ![n] = StartedNode(id)]
    /\ net' = IF Stream THEN [a \in Nodes |-> [b \in Nodes |->
                                IF n \in {a, b} THEN <<>> ELSE net[a][b]]]
              ELSE net

--------------------------------------------------------------------------------
App(n) == \/ \E x \in Subs : Subscribe(n, x) \/ Unsubscribe(n, x)
          \/ \E m \in Nodes : Link(n, m) \/ UnlinkRemote(n, m)
          \/ ShutdownNode(n)
Task(n) == \/ \E m \in Nodes : LinkExists(n, m) \/ SendSubComplete(n, m)
           \/ OnShutdownRequest(n)
           \/ SendSubsTask(n)
Walk == \E n \in Nodes : SendSubsStep(n) \/ SendSubsEnd(n)
Environment == \E n \in Nodes :
                 \/ Restart(n)
                 \/ \E m \in Nodes : NetError(n, m) \/ Duplicate(n, m) \/ Lose(n, m)

Next == \/ \E n \in Nodes : App(n) \/ Task(n) \/ SendSubsTimer(n)
        \/ Walk
        \/ \E n, m \in Nodes : Receive(n, m)
        \/ Environment

Spec == Init /\ [][Next]_vars

\* When a handler can run: ENABLED of the action, written out where it is costly.
TimerDue(n) == /\ Idle /\ Room(n)
               /\ budget["early"] > 0 \/ \A m \in Nodes : net[n][m] = <<>> /\ net[m][n] = <<>>
TaskDue == Idle /\ \E n \in Nodes : \/ node[n].requests # {} \/ node[n].sending # {}
                                    \/ node[n].subsAsync /\ Room(n)
MessageDue == Idle /\ \E n, m \in Nodes : net[m][n] # <<>>
Walking == \E n \in Nodes : node[n].walk # NULL /\ node[n].walk.next # NULL /\ ~Crashed(n)

\* A loop of SendSubsTimer goes on to its end (weak fairness of SendSubsStep and
\* SendSubsEnd); libuv runs the timer of every node again and again; some task or completion
\* that is due, and some message in flight, always gets its turn.  Fairness is
\* strong where a handler waits for another node's SendSubsTimer to be over (Idle),
\* which is an artefact of the model.
Fairness == /\ <>[]Walking => []<><<\E n \in Nodes : SendSubsStep(n)>>_vars
            /\ WF_vars(\E n \in Nodes : SendSubsEnd(n))
            /\ []<>MessageDue => []<><<\E n, m \in Nodes : Receive(n, m)>>_vars
            /\ []<>TaskDue => []<><<\E n \in Nodes : Task(n)>>_vars
            /\ \A n \in Nodes : []<>TimerDue(n) => []<><<SendSubsTimer(n)>>_vars
FairSpec == Spec /\ Fairness

--------------------------------------------------------------------------------
(* Properties. *)

\* The type invariant; a node never has two structures for one peer.
TypeOK == /\ node \in [Nodes -> NodeType]
          /\ net \in [Nodes -> [Nodes -> Seq(Messages)]]
          /\ budget \in [Events -> Nat]

\* Which subscriptions and remotes of s contribute bit b to a count vector.
Known(s) == {m \in Linked(s) : s.remote[m].inInt # NULL}
CountsOf(s, cv, X, local(_), inbound(_)) ==
    /\ cv.entries = Cardinality(s.subs) + Cardinality(Known(s))
    /\ \A b \in X : cv.count[b] = Cardinality({x \in s.subs : b \in local(x)})
                                 + Cardinality({m \in Known(s) : b \in inbound(m)})
\* A node's interests and needs always count exactly its own subscriptions and
\* what its remotes last told it: no handler, error path or deletion of a remote
\* adds or removes a contribution twice or forgets one.
CountsExact ==
    \A n \in Nodes : LET s == node[n]
                         local(x) == FuzzyHash(SubBits[x])
                         int(m) == s.remote[m].inInt
                         needs(m) == s.remote[m].inNeeds
                         bits(x) == SubBits[x]
                     IN  /\ CountsOf(s, s.interests, Bits, bits, int)
                         /\ CountsOf(s, s.needs, FHBits, local, needs)

\* An operation on a remote that was accepted (DPS_Link, DPS_Unlink and the
\* unlinks of DPS_ShutdownNode) is owed exactly one callback, for as long as the
\* remote's completion is set: RemoteCompletion, DPS_DeleteRemoteNode and the
\* queued LinkExists never call it twice and never drop it.  (Where they do, at
\* a failing send, the model ends: see NotCalledTwice.)
CallbackOnce ==
    \A n, m \in Nodes : Crashed(n) \/ node[n].owed[m] =
        IF m \in Linked(node[n]) /\ node[n].remote[m].completion # "none" THEN 1 ELSE 0

\* Nothing is in flight between n and m and neither waits for the other.
Settled(n, m) == /\ net[n][m] = <<>> /\ net[m][n] = <<>>
                 /\ m \in Linked(node[n]) /\ n \in Linked(node[m])
                 /\ {node[n].remote[m].state, node[m].remote[n].state} \subseteq {"ACTIVE"}
                 /\ ~node[n].remote[m].sakPending /\ ~node[m].remote[n].sakPending
\* What m knows of n: UpdateInboundInterests keeps no vector for "nothing".
Heard(v) == IF v = NULL THEN {} ELSE v
\* Once a SUB/SAK exchange is over, the receiver holds exactly the interests and
\* needs the sender thinks it sent, deltas, collisions and resends included.
Agreement == \A n, m \in Nodes : Settled(n, m) =>
    LET sent == node[n].remote[m]
        got == node[m].remote[n]
    IN  sent.outInt # NULL => /\ Heard(got.inInt) = sent.outInt
                              /\ sent.outInt # {} => got.inNeeds = sent.outNeeds

\* Every operation the application starts on a link is completed: by the SAK, by
\* the peer's own SUB, or by SendSubsTimer giving up on the peer.
EveryOpCompletes == \A n \in Nodes : \A m \in Nodes \ {n} :
                        node[n].owed[m] > 0 ~> node[n].owed[m] = 0

\* A message older than what was already received from a peer changes nothing: as
\* long as the remote exists, the revision it was heard at never goes back.
RevisionsGrow ==
    \A n, m \in Nodes : m \in Linked(node[n]) /\ m \in Linked(node'[n]) =>
        node'[n].remote[m].inRev >= node[n].remote[m].inRev
NoStepBack == [][RevisionsGrow]_vars

\* DPS_ShutdownNode calls back once all remotes are unlinked, unless a peer that
\* linked meanwhile keeps the node's list of remotes from becoming empty.
Joined(n) == \E m \in Linked(node[n]) : node[n].remote[m].completion = "none"
ShutdownUnlessJoined ==
    \A n \in Nodes : node[n].onShutdown ~> ~node[n].onShutdown \/ Joined(n)

--------------------------------------------------------------------------------
(* What the code or its documentation says and the code does not do. *)

\* assert(DPS_BitVectorEquals(destNode->outbound.needs, newNeeds)) in
\* DPS_UpdateOutboundInterests: needs change only when the interests change.
NeedsFollowInterests == \A n \in Nodes : "needs" \notin node[n].fault

\* assert(remote->completion == completion) in RemoteCompletion: the send of an
\* unlink that was deferred does not itself complete the operation.
NotCalledTwice == \A n \in Nodes : "called twice" \notin node[n].fault

================================================================================
