----------------------------- MODULE Multicast -----------------------------
(***************************************************************************)
(* Datagrams without a connection: the multicast sender and receiver       *)
(* (src/src/multicast/network.c), the UDP transport (src/src/udp) and the  *)
(* receive buffers they share with the layers above (src/src/network.c).   *)
(* A multicast message is one libuv request on each interface.             *)
(***************************************************************************)
EXTENDS Integers, FiniteSets

CONSTANTS Interfaces,   \* interfaces UseInterface accepts
          Sends,        \* messages to send
          Self          \* the sender's own address on one of the interfaces

VARIABLES sender,       \* "none", "open", "closing", "freed"
          udpTx,        \* the sockets not yet closed; numTx is how many
          out,          \* [Sends -> interfaces libuv has a request for]
          status,       \* [Sends -> what the callback will be or was told]
          called,       \* [Sends -> number of callbacks]
          receiver,     \* "open", "closing", "freed"
          ipVersions,   \* receive handles not yet closed by the receiver
          broken,       \* receive handles a read error closed
          rxBuf         \* references to the buffer of the last datagram

multicastVars == <<sender, udpTx, out, status, called, receiver, ipVersions, broken, rxBuf>>

numTx == Cardinality(udpTx)

-----------------------------------------------------------------------------

(* MulticastRxInit: a receive handle for each IP version; an interface     *)
(* whose group cannot be joined is passed over.                            *)
MulticastRxInit ==
    receiver = "open" /\ ipVersions = {"v4", "v6"} /\ broken = {} /\ rxBuf = 0

(* MulticastTxInit: a socket for each usable interface. *)
MulticastTxInit ==
    /\ sender = "open" /\ udpTx \in SUBSET Interfaces
    /\ out = [m \in Sends |-> {}]
    /\ status = [m \in Sends |-> "new"]
    /\ called = [m \in Sends |-> 0]

Init == MulticastRxInit /\ MulticastTxInit

(* DPS_MulticastSend: one request on each interface libuv takes one for;   *)
(* with none taken the caller gets an error and no callback.               *)
MulticastSend(m) ==
    /\ sender = "open" /\ status[m] = "new"
    /\ \E taken \in SUBSET udpTx :
           /\ out' = [out EXCEPT ![m] = taken]
           /\ status' = [status EXCEPT ![m] = IF taken = {} THEN "refused" ELSE "ok"]
    /\ UNCHANGED <<sender, udpTx, called, receiver, ipVersions, broken, rxBuf>>

(* One request is done, well or not. *)
Completed(m, i, ok) ==
    /\ out' = [out EXCEPT ![m] = @ \ {i}]
    /\ status' = [status EXCEPT ![m] = IF ok THEN @ ELSE "error"]

(* The callback comes with the last request. *)
MulticastSendComplete(m) ==
    /\ \E i \in out[m], ok \in BOOLEAN :
           /\ Completed(m, i, ok)
           /\ called' = [called EXCEPT ![m] = @ + (IF out[m] = {i} THEN 1 ELSE 0)]
    /\ UNCHANGED <<sender, udpTx, receiver, ipVersions, broken, rxBuf>>

(* DPS_MulticastStopSend closes every socket; with none it is done.        *)
MulticastStopSend ==
    /\ sender = "open"
    /\ sender' = IF numTx > 0 THEN "closing" ELSE "freed"
    /\ UNCHANGED <<udpTx, out, status, called, receiver, ipVersions, broken, rxBuf>>

(* TxCloseCB: libuv cancels the requests of the socket first; the sender   *)
(* is freed with its last socket.                                          *)
TxCloseCB(i) ==
    /\ sender = "closing" /\ i \in udpTx
    /\ out' = [m \in Sends |-> out[m] \ {i}]
    /\ status' = [m \in Sends |-> IF i \in out[m] THEN "error" ELSE status[m]]
    /\ called' = [m \in Sends |-> called[m] + (IF out[m] = {i} THEN 1 ELSE 0)]
    /\ udpTx' = udpTx \ {i}
    /\ sender' = IF numTx = 1 THEN "freed" ELSE sender
    /\ UNCHANGED <<receiver, ipVersions, broken, rxBuf>>

(* OnMcastRx, and OnData of the UDP transport: a buffer comes with one     *)
(* reference, which the handler drops at its end.  A message looped back   *)
(* by the sender is discarded; of the others a publication keeps the       *)
(* buffer until its handlers are done.                                     *)
OnMcastRx ==
    /\ receiver = "open" /\ ipVersions \ broken # {} /\ rxBuf = 0
    /\ \E from \in {Self, "peer"}, keep \in BOOLEAN :
           rxBuf' = IF keep /\ ~(from = Self /\ sender = "open") THEN 1 ELSE 0
    /\ UNCHANGED <<sender, udpTx, out, status, called, receiver, ipVersions, broken>>

(* The upper layer is done with the buffer. *)
NetRxBufferDecRef ==
    /\ rxBuf > 0 /\ rxBuf' = rxBuf - 1
    /\ UNCHANGED <<sender, udpTx, out, status, called, receiver, ipVersions, broken>>

(* A read error closes the handle, and nobody else learns of it.           *)
OnMcastRxError ==
    /\ receiver = "open"
    /\ \E h \in ipVersions \ broken : broken' = broken \cup {h}
    /\ UNCHANGED <<sender, udpTx, out, status, called, receiver, ipVersions, rxBuf>>

(* MulticastStopReceive closes the IPv4 handle, its callback the IPv6 one, *)
(* and the callback of that frees the receiver.                            *)
MulticastStopReceive ==
    /\ receiver \in {"open", "closing"}
    /\ CASE "v4" \in ipVersions -> ipVersions' = ipVersions \ {"v4"} /\ receiver' = "closing"
         [] "v4" \notin ipVersions /\ "v6" \in ipVersions ->
                ipVersions' = ipVersions \ {"v6"} /\ receiver' = "closing"
         [] OTHER -> receiver' = "freed" /\ UNCHANGED ipVersions
    /\ UNCHANGED <<sender, udpTx, out, status, called, broken, rxBuf>>

LoopWork ==
    \/ \E m \in Sends : MulticastSendComplete(m)
    \/ \E i \in Interfaces : TxCloseCB(i)
    \/ receiver = "closing" /\ MulticastStopReceive

Next ==
    \/ \E m \in Sends : MulticastSend(m)
    \/ MulticastStopSend \/ MulticastStopReceive
    \/ OnMcastRx \/ OnMcastRxError \/ NetRxBufferDecRef
    \/ LoopWork

-----------------------------------------------------------------------------

(* McastOnce: the callback of a message comes once, with the last of its   *)
(* requests, while the sender it names still exists, and never for a       *)
(* message that was refused.                                               *)
McastOnce ==
    \A m \in Sends :
        /\ called[m] = (IF status[m] \in {"ok", "error"} /\ out[m] = {} THEN 1 ELSE 0)
        /\ out[m] # {} => sender # "freed"

(* SenderFreed: a sender told to stop is freed in the end. *)
SenderFreed == sender = "closing" ~> sender = "freed"

=============================================================================
