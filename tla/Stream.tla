------------------------------- MODULE Stream -------------------------------
(***************************************************************************)
(* The stream transports, TCP (src/src/tcp/network.c) and pipes            *)
(* (src/src/pipe/network.c), which differ in the libuv handle only: the    *)
(* life of a connection from the connect or accept to the last close       *)
(* callback, and the send requests that wait, are written or are           *)
(* cancelled.  How the bytes of a stream become messages is module         *)
(* Framing; here a read ends in part of a message, a message or an error.  *)
(*                                                                         *)
(* Handlers run to their end on the event loop.  Requests in a queue are   *)
(* counted, not told apart.                                                *)
(***************************************************************************)
EXTENDS Integers

CONSTANTS Conns,        \* connections
          MaxSends      \* bound: DPS_NetSend requests of a connection

VARIABLES cn,           \* [Conns -> connection record]
          running,      \* node->netCtx is set
          listener      \* the listen socket: "open", "closing", "closed", "closed twice"

streamVars == <<cn, running, listener>>

-----------------------------------------------------------------------------

(* stage: "none", "connecting", "open", "shutdown" while uv_shutdown is    *)
(* pending, "stream" and "idle" while that handle closes, "freed".  held   *)
(* is the reference of the upper layer's remote node, writes the requests  *)
(* libuv has, idle whether SendCompletedTask is scheduled.                 *)
Nothing == [stage |-> "none", refCount |-> 0, held |-> FALSE, wasHeld |-> FALSE,
            reading |-> FALSE, sendQueue |-> 0, writes |-> 0,
            sentOK |-> 0, sentErr |-> 0, idle |-> FALSE,
            accepted |-> 0, called |-> 0, asserts |-> TRUE]

(* Shutdown, once: a stream that is not connected is closed at once.       *)
Shutdown(c) ==
    CASE c.stage = "connecting" -> [c EXCEPT !.stage = "stream", !.reading = FALSE]
      [] c.stage = "open" -> [c EXCEPT !.stage = "shutdown", !.reading = FALSE]
      [] OTHER -> c

DecRef(c) ==
    LET d == [c EXCEPT !.refCount = @ - 1, !.asserts = @ /\ c.refCount > 0]
    IN  IF d.refCount = 0 THEN Shutdown(d) ELSE d

IncRef(c) == [c EXCEPT !.refCount = @ + 1]

DeleteRemoteNode(c) == IF c.held THEN DecRef([c EXCEPT !.held = FALSE]) ELSE c

(* SendCompleted: the callbacks; a remote node that could not be sent to   *)
(* is deleted by the upper layer.                                          *)
SendCompleted(c) ==
    LET d == [c EXCEPT !.sentOK = 0, !.sentErr = 0, !.called = @ + c.sentOK + c.sentErr]
    IN  IF c.sentErr > 0 THEN DeleteRemoteNode(d) ELSE d

CancelPendingSends(c) == [c EXCEPT !.sendQueue = 0, !.sentErr = @ + c.sendQueue]

(* DoSend: of the requests in the queue libuv takes some, each of which    *)
(* owns a reference until it is written; the others have failed.           *)
DoSend(c, taken) ==
    [c EXCEPT !.sendQueue = 0, !.writes = @ + taken, !.refCount = @ + taken,
              !.sentErr = @ + (c.sendQueue - taken)]

-----------------------------------------------------------------------------

(* DPS_NetStart. *)
Init == cn = [k \in Conns |-> Nothing] /\ running = TRUE /\ listener = "open"

Become(k, c) == cn' = [cn EXCEPT ![k] = c] /\ UNCHANGED <<running, listener>>

(* DPS_NetSend without a connection: the caller owns the first reference   *)
(* and the request waits for the connect.                                  *)
NetConnect(k) ==
    /\ running /\ cn[k].stage = "none"
    /\ \/ Become(k, [Nothing EXCEPT !.stage = "connecting", !.refCount = 1, !.held = TRUE,
                                    !.wasHeld = TRUE, !.sendQueue = 1, !.accepted = 1])
       \/ Become(k, [Nothing EXCEPT !.stage = "stream"])     \* ErrExit

NetSendBug(k) ==
    /\ running /\ cn[k].held /\ cn[k].accepted < MaxSends
    /\ \E taken \in 0 .. 1 :
           LET c == [cn[k] EXCEPT !.sendQueue = @ + 1, !.accepted = @ + 1]
           IN  Become(k, IF cn[k].sendQueue > 0 THEN c ELSE DoSend(c, taken))

(* DPS_NetSend on a connection: "If there are pending sends the connection *)
(* is not up yet". A refused request is called back from the idler.        *)
NetSend(k) ==
    /\ running /\ cn[k].held /\ cn[k].accepted < MaxSends
    /\ \E taken \in 0 .. 1 :
           LET c == [cn[k] EXCEPT !.sendQueue = @ + 1, !.accepted = @ + 1]
           IN  Become(k, IF cn[k].sendQueue > 0 THEN c
                         ELSE [DoSend(c, taken) EXCEPT !.idle = TRUE])

(* A connect that is cancelled is reported before the close callback. *)
OnOutgoingConnection(k) ==
    /\ cn[k].stage = "connecting"
    /\ \/ \E taken \in 0 .. cn[k].sendQueue :
              Become(k, SendCompleted(DoSend([cn[k] EXCEPT !.stage = "open",
                                                           !.reading = TRUE], taken)))
       \/ Become(k, SendCompleted(CancelPendingSends(
              [cn[k] EXCEPT !.asserts = @ /\ cn[k].sendQueue > 0])))

(* OnIncomingConnection: nobody owns a reference yet.                      *)
OnIncomingConnection(k) ==
    /\ running /\ listener = "open" /\ cn[k].stage = "none"
    /\ Become(k, [Nothing EXCEPT !.stage = "open", !.reading = TRUE])

(* OnIncomingConnection cannot accept: it closes the listen socket.        *)
FailConnection ==
    running /\ listener = "open" /\ listener' = "closing" /\ UNCHANGED <<cn, running>>

(* A complete message: the upper layer keeps the connection (keep), and a  *)
(* message it refuses stops the reading. Not kept, it is shut down.        *)
OnMessage(k) ==
    /\ cn[k].reading /\ running
    /\ \E keep, ok \in BOOLEAN :
           LET c == IF keep /\ ~cn[k].held
                    THEN [IncRef(cn[k]) EXCEPT !.held = TRUE, !.wasHeld = TRUE] ELSE cn[k]
               d == [c EXCEPT !.reading = ok]
           IN  Become(k, IF d.refCount = 0 THEN Shutdown(d) ELSE d)

(* A length that cannot be decoded. *)
OnBadLength(k) ==
    /\ cn[k].reading /\ running
    /\ LET d == DeleteRemoteNode([cn[k] EXCEPT !.reading = FALSE])
       IN  Become(k, IF d.refCount = 0 THEN Shutdown(d) ELSE d)

(* End of the stream or a read error. *)
OnReadError(k) ==
    /\ cn[k].reading /\ running
    /\ Become(k, DeleteRemoteNode([cn[k] EXCEPT !.reading = FALSE]))

OnWriteComplete(k) ==
    /\ cn[k].writes > 0
    /\ \E ok \in BOOLEAN :
           LET w == [cn[k] EXCEPT !.writes = @ - 1]
               c == IF ok THEN [w EXCEPT !.sentOK = @ + 1] ELSE [w EXCEPT !.sentErr = @ + 1]
           IN  Become(k, DecRef(SendCompleted(c)))

SendCompletedTask(k) ==
    /\ cn[k].idle /\ cn[k].stage \notin {"idle", "freed"}
    /\ Become(k, [SendCompleted(cn[k]) EXCEPT !.idle = FALSE])

(* The upper layer is done with the peer. *)
NetConnectionDecRef(k) == cn[k].held /\ Become(k, DeleteRemoteNode(cn[k]))

OnShutdownComplete(k) ==
    cn[k].stage = "shutdown" /\ Become(k, [cn[k] EXCEPT !.stage = "stream"])

(* The idler is stopped and closed: what it would have called back waits   *)
(* for FreeConnection.                                                     *)
StreamClosed(k) ==
    cn[k].stage = "stream" /\ Become(k, [cn[k] EXCEPT !.stage = "idle", !.idle = FALSE])

(* IdleClosed: FreeConnection. *)
IdleClosed(k) ==
    /\ cn[k].stage = "idle"
    /\ Become(k, [SendCompleted(CancelPendingSends(cn[k])) EXCEPT !.stage = "freed"])

(* DPS_NetStop, and the remote nodes the node deletes after it. *)
NetStop ==
    /\ running /\ running' = FALSE
    /\ listener' = IF listener = "open" THEN "closing" ELSE "closed twice"
    /\ cn' = [k \in Conns |-> DeleteRemoteNode(cn[k])]

ListenSocketClosed ==
    listener = "closing" /\ listener' = "closed" /\ UNCHANGED <<cn, running>>

LoopWork(k) ==
    \/ OnOutgoingConnection(k) \/ OnWriteComplete(k) \/ OnShutdownComplete(k)
    \/ StreamClosed(k) \/ IdleClosed(k)

Next ==
    \/ \E k \in Conns :
           \/ NetConnect(k) \/ NetSend(k) \/ OnIncomingConnection(k) \/ OnMessage(k)
           \/ OnBadLength(k) \/ OnReadError(k) \/ NetConnectionDecRef(k)
           \/ SendCompletedTask(k) \/ LoopWork(k)
    \/ FailConnection \/ NetStop \/ ListenSocketClosed

-----------------------------------------------------------------------------

(* StreamRefs: the count is what the upper layer and the requests libuv    *)
(* has own, no assert on it fails, and nothing of a connection is closed   *)
(* while it is owned or libuv still writes.                                *)
StreamRefs ==
    \A k \in Conns :
        LET c == cn[k]
        IN  /\ c.asserts
            /\ c.refCount = c.writes + (IF c.held THEN 1 ELSE 0)
            /\ c.stage \in {"shutdown", "stream", "idle", "freed"} => c.refCount = 0

(* StreamOnce: every request taken is queued, written or called back, once *)
(* and not twice, whatever cancels it; one that nobody will call back is   *)
(* not left in a queue: a completed one waits for the idler or the close.  *)
StreamOnce ==
    \A k \in Conns :
        LET c == cn[k]
        IN  /\ c.accepted = c.called + c.sendQueue + c.writes + c.sentOK + c.sentErr
            /\ c.sentOK + c.sentErr > 0 => c.idle \/ c.stage \in {"shutdown", "stream", "idle"}
            /\ c.stage = "freed" => c.called = c.accepted

(* StreamFreed: a connection the upper layer once held and has let go is   *)
(* freed in the end.                                                       *)
StreamFreed ==
    \A k \in Conns : (cn[k].wasHeld /\ ~cn[k].held) ~> (cn[k].held \/ cn[k].stage = "freed")

(* NotLeaked: "Shutdown the connection if the upper layer didn't IncRef to *)
(* keep it alive" (OnData).                                                *)
NotLeaked ==
    \A k \in Conns : (cn[k].stage = "open" /\ ~cn[k].reading) => cn[k].refCount > 0

=============================================================================
