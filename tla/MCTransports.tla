---------------------------- MODULE MCTransports ----------------------------
(***************************************************************************)
(* One instance of each transport.  They share nothing but the promise to  *)
(* the layers above; transport says which one a behaviour is about.        *)
(***************************************************************************)
EXTENDS Integers, Sequences, FiniteSets

CONSTANTS Peers, Dialled, MaxSends, Streams, Lengths, MaxMessages, Cuts,
          Interfaces, Messages, Requests, Local

(* A node has finitely many network interfaces. *)
ASSUME InterfacesAssumption == IsFiniteSet(Interfaces)
(* A message has a CoAP header, options and a payload.                     *)
ASSUME LengthsAssumption == \A n \in Lengths : n \in Nat /\ n >= 4
ASSUME CutsAssumption == Cuts \subseteq Nat \ {0} /\ MaxMessages \in Nat

VARIABLES transport,
          dcn, dstate, drx,                            \* Dtls
          scn, srunning, slistener,                    \* Stream
          fsent, fpos, freadLen, fmsgBuf, freceived, ffailed,  \* Framing
          msender, mudpTx, mout, mstatus, mcalled, mreceiver, mversions, mbroken, mrxBuf,
          rlist, rasync, rlookup, ranswer, rnode, rlate  \* Resolver

D == INSTANCE Dtls WITH Conns <- Peers, MaxWrites <- 1, cn <- dcn, state <- dstate,
                        rxSocket <- drx
S == INSTANCE Stream WITH Conns <- Streams, MaxSends <- 3, cn <- scn, running <- srunning,
                          listener <- slistener
F == INSTANCE Framing WITH sent <- fsent, pos <- fpos, readLen <- freadLen, msgBuf <- fmsgBuf,
                           received <- freceived, failed <- ffailed
M == INSTANCE Multicast WITH Sends <- Messages, Self <- "self", sender <- msender,
                             udpTx <- mudpTx, out <- mout, status <- mstatus,
                             called <- mcalled, receiver <- mreceiver,
                             ipVersions <- mversions, broken <- mbroken, rxBuf <- mrxBuf
R == INSTANCE Resolver WITH resolverList <- rlist, async <- rasync, lookup <- rlookup,
                            answer <- ranswer, nodeState <- rnode, late <- rlate

dVars == <<dcn, dstate, drx>>
sVars == <<scn, srunning, slistener>>
fVars == <<fsent, fpos, freadLen, fmsgBuf, freceived, ffailed>>
mVars == <<msender, mudpTx, mout, mstatus, mcalled, mreceiver, mversions, mbroken, mrxBuf>>
rVars == <<rlist, rasync, rlookup, ranswer, rnode, rlate>>

vars == <<transport, dVars, sVars, fVars, mVars, rVars>>

(* The variables of the transports a behaviour is not about stay put. *)
Init ==
    /\ transport \in {"dtls", "stream", "framing", "multicast", "resolver"}
    /\ D!Init /\ S!Init /\ R!Init
    /\ IF transport = "framing" THEN F!Init ELSE fsent = <<>> /\ F!Fresh
    /\ M!Init /\ (transport # "multicast" => mudpTx = {})

Next ==
    \/ transport = "dtls" /\ D!Next /\ UNCHANGED <<transport, sVars, fVars, mVars, rVars>>
    \/ transport = "stream" /\ S!Next /\ UNCHANGED <<transport, dVars, fVars, mVars, rVars>>
    \/ transport = "framing" /\ F!Next /\ UNCHANGED <<transport, dVars, sVars, mVars, rVars>>
    \/ transport = "multicast" /\ M!Next /\ UNCHANGED <<transport, dVars, sVars, fVars, rVars>>
    \/ transport = "resolver" /\ R!Next /\ UNCHANGED <<transport, dVars, sVars, fVars, mVars>>

(* libuv serves every handle in each turn of the loop. *)
Fairness ==
    /\ WF_dVars(transport = "dtls" /\ (D!DestroyTimeout \/ D!NetClosed))
    /\ \A k \in Peers : /\ WF_dVars(transport = "dtls" /\ D!OnTimeout(k))
                        /\ WF_dVars(transport = "dtls" /\ D!OnSendComplete(k))
                        /\ WF_dVars(transport = "dtls" /\ D!OnIdleForSendCallbacks(k))
                        /\ WF_dVars(transport = "dtls" /\ D!HandleClosed(k))
    /\ \A k \in Streams : /\ WF_sVars(transport = "stream" /\ S!LoopWork(k))
                          /\ WF_sVars(transport = "stream" /\ S!SendCompletedTask(k))
    /\ WF_mVars(transport = "multicast" /\ M!LoopWork)
    /\ WF_rVars(transport = "resolver" /\ R!LoopWork)

Spec == Init /\ [][Next]_vars /\ Fairness

-----------------------------------------------------------------------------

(* SendsOnce: whatever the transport, a message it took is called back     *)
(* exactly once; none is forgotten in a queue when a handshake or connect  *)
(* fails, the peer vanishes, a socket is closed or the node stops.  Only   *)
(* an accepted DTLS connection whose peer is heard again while its handles *)
(* close may keep what it took then.                                       *)
SendsOnce == D!CompletesOnce /\ S!StreamOnce /\ M!McastOnce

(* OwnersCounted: the reference count of a connection is what its owners   *)
(* hold, so that none is closed too early or never, and the net context    *)
(* outlives the connections of its list; the same connection excepted,     *)
(* none has an owner once its handles close.                               *)
OwnersCounted == D!RefsExact /\ D!ListedUseContext /\ S!StreamRefs

(* MessagesIntact: a stream, however it is cut, becomes the messages that  *)
(* were written to it.                                                     *)
MessagesIntact == F!FramesIntact

(* ResolvedOnce: an address request is answered exactly once, unless it is *)
(* made after StopNode has closed the async that would serve it.           *)
ResolvedOnce == R!ResolvesOnce

(* AllLetGo: what nobody owns any more is freed in the end, and a request  *)
(* for an address that did not come too late is answered.                  *)
AllLetGo == D!StopsUnlessWaiting /\ S!StreamFreed /\ M!SenderFreed /\ R!EveryAnswer

(* StopsAlways: "Abort the handshake when we're stopping so that we don't  *)
(* wait around for timeouts" (TLSHandshake): the net layer stops.          *)
StopsAlways == D!StopsAlways

=============================================================================
