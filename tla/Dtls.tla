-------------------------------- MODULE Dtls --------------------------------
(***************************************************************************)
(* The DTLS transport (src/src/dtls/network.c): connections that exist     *)
(* only as long as somebody holds a reference to them.  Every handler runs *)
(* to its end on the event loop, so a handler is one action; what libuv    *)
(* and mbedtls may answer is a choice.                                     *)
(*                                                                         *)
(* A connection is a record and every function of the source that changes  *)
(* one is an operator from records to records.  A handler holds a          *)
(* reference of its own while it runs, so that a connection is destroyed   *)
(* at its end or not at all (Settle).  The requests in a queue are         *)
(* counted, not told apart.                                                *)
(***************************************************************************)
EXTENDS Integers, FiniteSets

CONSTANTS Conns,        \* connections, one for each address of a peer
          Dialled,      \* those this node dials; the others dial it
          MaxSends,     \* bound: DPS_NetSend requests of a connection
          MaxWrites     \* bound: datagrams handed to libuv when a step starts

VARIABLES cn,           \* [Conns -> connection record]
          state,        \* netCtx->state
          rxSocket      \* handles of the net context still open

dtlsVars == <<cn, state, rxSocket>>

-----------------------------------------------------------------------------

(* stage is where a connection is: "none" before CreateConnection, "open", *)
(* then the libuv handle whose close callback is awaited ("socket",        *)
(* "idle", "timer"; together CN_CLOSING), then "freed".  held is the       *)
(* reference of the upper layer's remote node.  late is not in the code:   *)
(* it says that a datagram was handed to the connection after its handles  *)
(* began to close.                                                         *)
Nothing == [stage |-> "none", type |-> "server", listed |-> FALSE, refCount |-> 0,
            held |-> FALSE, handshake |-> "none", handshakeDone |-> FALSE,
            sendClosed |-> TRUE, recvClosed |-> TRUE, destroyTime |-> FALSE,
            recvQueue |-> 0, sendQueue |-> 0, sentOK |-> 0, sentErr |-> 0,
            timer |-> FALSE, idle |-> FALSE, writes |-> 0,
            accepted |-> 0, called |-> 0, asserts |-> TRUE, late |-> FALSE]

(* Values of handshake for which TLSHandshake leaves its reference behind. *)
Waiting == {"verify", "read"}

Closing == {"socket", "idle", "timer"}

AsNat(b) == IF b THEN 1 ELSE 0

(* The connections of the list netCtx->cns. *)
cns == {k \in Conns : cn[k].listed}

(* CreateConnection after all that can fail in it: both directions are     *)
(* closed until the handshake is done.                                     *)
CreateConnection(type) ==
    [Nothing EXCEPT !.stage = "open", !.type = type, !.listed = TRUE]

(* The key store has no usable credentials or a handle cannot be set up:   *)
(* the connection is not listed and only waits for its handles to close.   *)
CreateFails(type) ==
    [Nothing EXCEPT !.stage = IF type = "client" THEN "socket" ELSE "idle",
                    !.type = type]

IncRef(c) == [c EXCEPT !.refCount = @ + 1]

DecRef(c, n) == [c EXCEPT !.refCount = @ - n, !.asserts = @ /\ n <= c.refCount]

(* One datagram for the peer; tx is what uv_udp_send answers. *)
OnTLSSend(c, tx) == IF tx THEN [IncRef(c) EXCEPT !.writes = @ + 1] ELSE c

OnTLSTimerSet(c, on) ==
    [c EXCEPT !.timer = on, !.refCount = @ + AsNat(on) - AsNat(c.timer)]

(* mbedtls asks for the queued datagrams. *)
OnTLSRecv(c) == [DecRef(c, c.recvQueue) EXCEPT !.recvQueue = 0]

(* The upper layer deletes the remote node of the connection. *)
DeleteRemoteNode(c) == IF c.held THEN [DecRef(c, 1) EXCEPT !.held = FALSE] ELSE c

(* The send complete callbacks of all requests in sendCompletedQueue; the  *)
(* upper layer deletes a remote node that could not be sent to.            *)
SendCallbacks(c) ==
    LET n == c.sentOK + c.sentErr
        d == [DecRef(c, n) EXCEPT !.sentOK = 0, !.sentErr = 0, !.called = @ + n]
    IN  IF c.sentErr > 0 THEN DeleteRemoteNode(d) ELSE d

CancelPending(c) ==
    SendCallbacks([OnTLSRecv(c) EXCEPT !.sendQueue = 0, !.sentErr = @ + c.sendQueue])

(* DestroyConnection: says goodbye once, then waits for the peer's         *)
(* close_notify or the destroy timer before it closes the handles.         *)
DestroyConnection(c, tx) ==
    LET a == [c EXCEPT !.asserts = @ /\ c.recvQueue + c.sendQueue + c.sentOK + c.sentErr = 0
                                     /\ c.handshake \notin Waiting]
        b == IF c.sendClosed THEN a
             ELSE [OnTLSSend(a, tx) EXCEPT !.sendClosed = TRUE,
                                           !.destroyTime = @ \/ ~c.recvClosed]
    IN  IF b.refCount = 0 /\ b.recvClosed /\ b.stage = "open"
        THEN [b EXCEPT !.stage = IF c.type = "client" THEN "socket" ELSE "idle",
                       !.asserts = @ /\ ~b.timer /\ ~b.idle]
        ELSE b

(* The last DPS_NetConnectionDecRef of a handler. *)
Settle(c, tx) == IF c.refCount = 0 THEN DestroyConnection(c, tx) ELSE c

(* TLSSend for every queued request: the callback follows from the idler. *)
TLSSend(c, tx) ==
    LET n == c.sendQueue
        w == IF tx THEN n ELSE 0
    IN  IF n = 0 THEN c
        ELSE [c EXCEPT !.sendQueue = 0, !.sentOK = @ + w, !.sentErr = @ + n - w,
                       !.writes = @ + w, !.idle = TRUE,
                       !.refCount = @ + w + 1 - AsNat(c.idle)]

(* What the upper layer does with a message: a new remote node takes a     *)
(* reference (keep); with an error it deletes the one it has.              *)
receiveCB(c, status, keep) ==
    CASE state # "running" -> c
      [] state = "running" /\ status = "data" ->
             IF keep /\ ~c.held THEN [IncRef(c) EXCEPT !.held = TRUE] ELSE c
      [] OTHER -> DeleteRemoteNode(c)

(* TLSRecv; status is what mbedtls_ssl_read makes of the datagram. The     *)
(* first answer ends the wait of an incoming connection for data.          *)
TLSRecv(c, status, keep, tx) ==
    LET r == OnTLSRecv(c)
        d == receiveCB([r EXCEPT !.recvClosed = @ \/ status = "closed"], status, keep)
    IN  CASE status = "again" -> OnTLSSend(r, tx)
          [] status # "again" /\ d.handshake = "read" ->
                 [DecRef(d, 1) EXCEPT !.handshake = "none"]
          [] OTHER -> d

(* What mbedtls_ssl_handshake may answer (external). Only a server asks    *)
(* for a second hello, and nobody is done in one call. A context that      *)
(* failed stays failed.                                                    *)
HandshakeAnswers(c) ==
    CASE c.handshake = "fail" -> {"fail"}
      [] c.handshake \in {"none", "verify"} /\ c.type = "server" -> {"verify", "read", "fail"}
      [] c.handshake = "none" /\ c.type = "client" -> {"read", "fail"}
      [] OTHER -> {"read", "done", "fail"}

(* mbedtls_ssl_handshake (external): it reads what is queued, writes a     *)
(* flight and runs the timer while it waits for an answer to one. A server *)
(* that has sent no flight yet waits without a timer.                      *)
ssl_handshake(c, answer, tx) ==
    LET r == OnTLSRecv(c)
        w == IF c.handshake = "fail" THEN r ELSE OnTLSSend(r, tx)
    IN  CASE answer = "read" /\ c.type = "server" /\ ~tx /\ ~c.timer -> w
          [] answer = "read" /\ ~(c.type = "server" /\ ~tx /\ ~c.timer) ->
                 OnTLSTimerSet(w, TRUE)
          [] answer = "fail" -> w
          [] OTHER -> OnTLSTimerSet(w, FALSE)

TLSHandshakeBug(c, answer, tx) ==
    LET p == IncRef(c)
        m == IF state = "running" THEN ssl_handshake(p, answer, tx) ELSE p
        a == IF state = "running" THEN answer ELSE "fail"
    IN  CASE a \in Waiting -> [m EXCEPT !.handshake = a]
          [] a = "fail" -> [DecRef(m, 1) EXCEPT !.handshake = a]
          [] a = "done" ->
                 LET d == TLSSend([m EXCEPT !.handshakeDone = TRUE, !.sendClosed = FALSE,
                                            !.recvClosed = FALSE], tx)
                 IN  IF c.type = "server" THEN [d EXCEPT !.handshake = "read"]
                     ELSE [DecRef(d, 1) EXCEPT !.handshake = "none"]

(* TLSHandshake: the reference it takes stays while it waits for the peer, *)
(* and an incoming connection waits once more, for its first data.         *)
TLSHandshake(c, answer, tx) ==
    LET p == IF c.handshake \in Waiting THEN c ELSE IncRef(c)
        m == IF state = "running" THEN ssl_handshake(p, answer, tx) ELSE p
        a == IF state = "running" THEN answer ELSE "fail"
    IN  CASE a \in Waiting -> [m EXCEPT !.handshake = a]
          [] a = "fail" -> [DecRef(m, 1) EXCEPT !.handshake = a]
          [] a = "done" ->
                 LET d == TLSSend([m EXCEPT !.handshakeDone = TRUE, !.sendClosed = FALSE,
                                            !.recvClosed = FALSE], tx)
                 IN  IF c.type = "server" THEN [d EXCEPT !.handshake = "read"]
                     ELSE [DecRef(d, 1) EXCEPT !.handshake = "none"]

HandshakeFailed(c) == c.handshake = "fail"

-----------------------------------------------------------------------------

Init ==
    /\ cn = [k \in Conns |-> Nothing]
    /\ state = "running"          \* DPS_NetStart
    /\ rxSocket = "open"

(* A handler that is called for a connection after FreeConnection uses     *)
(* freed memory; nothing more is modelled of such a connection.            *)
Allocated(k) == cn[k].stage # "freed"

Become(k, c) == cn' = [cn EXCEPT ![k] = c]

(* DPS_NetSend to a peer without a connection: the caller gets a reference *)
(* and the request waits for the handshake.                                *)
NetSendNew(k) ==
    /\ k \in Dialled /\ cn[k].stage = "none" /\ state = "running"
    /\ \/ Become(k, CreateFails("client"))
       \/ \E tx \in BOOLEAN, a \in {"read", "fail"} :
              LET c == TLSHandshake(IncRef(CreateConnection("client")), a, tx)
              IN  Become(k, IF HandshakeFailed(c) THEN Settle(DecRef(c, 1), tx)
                            ELSE [IncRef(c) EXCEPT !.held = TRUE, !.sendQueue = 1,
                                                   !.accepted = 1])
    /\ UNCHANGED <<state, rxSocket>>

(* DPS_NetSend on a connection the upper layer holds. *)
NetSend(k) ==
    /\ cn[k].held /\ Allocated(k) /\ state = "running"
    /\ cn[k].accepted < MaxSends /\ cn[k].writes < MaxWrites
    /\ \E tx \in BOOLEAN :
           LET c == [IncRef(cn[k]) EXCEPT !.sendQueue = @ + 1, !.accepted = @ + 1]
           IN  Become(k, IF cn[k].sendQueue = 0 /\ c.handshakeDone THEN TLSSend(c, tx) ELSE c)
    /\ UNCHANGED <<state, rxSocket>>

(* The upper layer is done with the peer. *)
NetConnectionDecRef(k) ==
    /\ cn[k].held /\ Allocated(k)
    /\ \E tx \in BOOLEAN : Become(k, Settle(DeleteRemoteNode(cn[k]), tx))
    /\ UNCHANGED <<state, rxSocket>>

(* A datagram is queued and given to mbedtls: OnUdpData for connection c. *)
Deliver(k, c, tx) ==
    LET q == [IncRef(c) EXCEPT !.recvQueue = @ + 1]
    IN  IF c.handshakeDone
        THEN \E s \in {"data", "closed", "again", "error"}, keep \in BOOLEAN :
                 Become(k, Settle(TLSRecv(q, s, keep, tx), tx))
        ELSE \E a \in HandshakeAnswers(c) :
                 LET h == TLSHandshake(q, a, tx)
                 IN  Become(k, Settle(IF HandshakeFailed(h)
                                      THEN OnTLSTimerSet(CancelPending(h), FALSE)
                                      ELSE h, tx))

(* OnUdpData. A peer that is not listed gets a new connection, unless the  *)
(* net layer is stopping. A connection is listed until FreeConnection: an  *)
(* incoming one hears its peer while its handles close (the socket of an   *)
(* outgoing one has stopped reading).                                      *)
OnUdpData(k) ==
    /\ cn[k].stage = "none" => k \notin Dialled /\ state = "running"
    /\ cn[k].stage = "none" \/ cn[k].listed
    /\ cn[k].stage \in Closing => cn[k].type = "server"
    /\ rxSocket = "open" \/ cn[k].type = "client"
    /\ cn[k].writes < MaxWrites
    /\ \/ cn[k].stage = "none" /\ Become(k, CreateFails("server"))
       \/ \E tx \in BOOLEAN :
              Deliver(k, IF cn[k].stage = "none" THEN CreateConnection("server")
                         ELSE [cn[k] EXCEPT !.late = cn[k].stage \in Closing], tx)
    /\ UNCHANGED <<state, rxSocket>>

(* The final DTLS timeout: a handshake step, then the timer's reference. *)
OnTimeout(k) ==
    /\ cn[k].timer /\ cn[k].stage = "open" /\ cn[k].writes < MaxWrites
    /\ \E tx \in BOOLEAN, a \in {"read", "fail"} :
           LET stopped == [cn[k] EXCEPT !.timer = FALSE]
               h == TLSHandshake(stopped, a, tx)
               d == IF HandshakeFailed(h) THEN CancelPending(h) ELSE h
           IN  Become(k, Settle(DecRef(d, 1), tx))
    /\ UNCHANGED <<state, rxSocket>>

OnIdleForSendCallbacks(k) ==
    /\ cn[k].idle /\ Allocated(k)
    /\ \E tx \in BOOLEAN :
           Become(k, Settle([DecRef(SendCallbacks(cn[k]), 1) EXCEPT !.idle = FALSE], tx))
    /\ UNCHANGED <<state, rxSocket>>

(* libuv is done with a datagram. *)
OnSendComplete(k) ==
    /\ cn[k].writes > 0 /\ Allocated(k)
    /\ \E tx \in BOOLEAN : Become(k, Settle([DecRef(cn[k], 1) EXCEPT !.writes = @ - 1], tx))
    /\ UNCHANGED <<state, rxSocket>>

(* DestroyTimeout: the connections of the list whose time has come; it is  *)
(* scheduled while one of them waits for the peer's close_notify.          *)
DestroyTimeout ==
    /\ rxSocket = "open"
    /\ \E due \in SUBSET {k \in cns : cn[k].sendClosed /\ cn[k].destroyTime} :
           /\ \E k \in due : ~cn[k].recvClosed
           /\ cn' = [k \in Conns |->
                        IF k \in due THEN Settle([cn[k] EXCEPT !.recvClosed = TRUE], FALSE)
                        ELSE cn[k]]
    /\ UNCHANGED <<state, rxSocket>>

NextHandle(stage) ==
    CASE stage = "socket" -> "idle" [] stage = "idle" -> "timer" [] OTHER -> "freed"

HandleClosedBug(k) ==
    /\ cn[k].stage \in Closing
    /\ LET next == NextHandle(cn[k].stage)
       IN  Become(k, [cn[k] EXCEPT !.stage = next, !.listed = @ /\ next # "freed"])
    /\ UNCHANGED <<state, rxSocket>>

(* SocketClosed, IdleForCallbacksClosed, TimerClosed; after the last one   *)
(* FreeConnection finishes the work of DPS_NetStop.                        *)
HandleClosed(k) ==
    /\ cn[k].stage \in Closing
    /\ LET next == NextHandle(cn[k].stage)
       IN  /\ Become(k, [cn[k] EXCEPT !.stage = next, !.listed = @ /\ next # "freed"])
           /\ rxSocket' = IF next = "freed" /\ state = "stopping" /\ cns \subseteq {k}
                             /\ rxSocket = "open"
                          THEN "rx" ELSE rxSocket
    /\ UNCHANGED state

(* DPS_NetStop, and the remote nodes the node deletes after it. *)
NetStop ==
    /\ state = "running" /\ state' = "stopping"
    /\ \E tx \in BOOLEAN :
           LET Cancelled(k) == DeleteRemoteNode(CancelPending(cn[k]))
           IN  cn' = [k \in Conns |->
                         IF k \in cns /\ cn[k].refCount > 0 THEN Settle(Cancelled(k), tx)
                         ELSE cn[k]]
    /\ rxSocket' = IF cns = {} THEN "rx" ELSE rxSocket

(* RxHandleClosed, then DestroyTimerClosed, which frees the net context. *)
NetClosed ==
    /\ rxSocket \in {"rx", "timer"}
    /\ rxSocket' = IF rxSocket = "rx" THEN "timer" ELSE "freed"
    /\ UNCHANGED <<cn, state>>

LoopWork ==
    \/ \E k \in Conns : \/ OnTimeout(k) \/ OnIdleForSendCallbacks(k)
                        \/ OnSendComplete(k) \/ HandleClosed(k)
    \/ DestroyTimeout \/ NetClosed

Next ==
    \/ \E k \in Conns : NetSendNew(k) \/ NetSend(k) \/ NetConnectionDecRef(k) \/ OnUdpData(k)
    \/ LoopWork \/ NetStop

-----------------------------------------------------------------------------

(* Closed(c): the handles of c close or have closed, and no datagram       *)
(* reached it since.                                                       *)
Closed(c) == c.stage \in Closing \cup {"freed"} /\ ~c.late

(* RefsExact: the strategy written above refCount.  Between two handlers   *)
(* the count is exactly what the upper layer, the queued requests, the     *)
(* timer, the idler, the datagrams libuv has and a waiting handshake own;  *)
(* no assert of DestroyConnection, DPS_NetConnectionDecRef or TLSRecv ever *)
(* fails.  A connection begins to close only when nobody owns a reference, *)
(* and nobody takes one while it closes unless its peer is heard again,    *)
(* which happens to no connection this node dialled.                       *)
RefsExact ==
    \A k \in Conns :
        LET c == cn[k]
        IN  /\ c.asserts
            /\ c.refCount = AsNat(c.held) + c.recvQueue + c.sendQueue + c.sentOK + c.sentErr
                            + AsNat(c.timer) + AsNat(c.idle) + c.writes
                            + AsNat(c.handshake \in Waiting)
            /\ Closed(c) => c.refCount = 0
            /\ c.late => c.type = "server"

(* CompletesOnce: every request DPS_NetSend took is in one queue or has    *)
(* had its callback, and once the connection closes all have had it; also  *)
(* when the handshake fails, the peer vanishes or the net layer stops.     *)
(* Only requests for a peer that was heard again while its connection      *)
(* closed may be left in a queue.                                          *)
CompletesOnce ==
    \A k \in Conns :
        LET c == cn[k]
        IN  /\ c.accepted = c.called + c.sendQueue + c.sentOK + c.sentErr
            /\ Closed(c) => c.called = c.accepted

(* NothingFreedIsOwned: what is freed has no owner, late datagrams or not. *)
NothingFreedIsOwned == \A k \in Conns : cn[k].stage = "freed" => cn[k].refCount = 0

(* ListedUseContext: the net context, with the socket incoming connections *)
(* write to, outlives every connection of its list.                        *)
ListedUseContext == rxSocket # "open" => cns = {}

(* A connection that waits for its peer and has no timer. *)
WaitsForPeer(k) == cn[k].handshake \in Waiting /\ ~cn[k].timer

(* StopsUnlessWaiting: after DPS_NetStop the net context is freed, unless  *)
(* an incoming connection waits for a peer that never answers.             *)
StopsUnlessWaiting ==
    state = "stopping" ~> (rxSocket = "freed" \/ \E k \in Conns : WaitsForPeer(k))

(* StopsAlways: a handshake is aborted when the net layer stops, "so that  *)
(* we don't wait around for timeouts" (TLSHandshake).                      *)
StopsAlways == state = "stopping" ~> rxSocket = "freed"

(* ContextOutlives: the net context outlives every connection.             *)
ContextOutlives ==
    rxSocket = "freed" => \A k \in Conns : cn[k].stage \in {"none", "freed"}

=============================================================================
