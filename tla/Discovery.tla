------------------------------ MODULE Discovery ------------------------------
(***************************************************************************)
(* The discovery service of one node (src/src/discovery.c): it publishes   *)
(* what the node subscribes to, answers the discovery messages of others,  *)
(* links to the nodes it matches, and takes itself apart step by step.     *)
(*                                                                         *)
(* The application's thread calls DPS_DiscoveryPublish and                 *)
(* DPS_DestroyDiscoveryService; all else runs on the node's event loop.    *)
(* libuv serves the node's asyncs in the order DPS_StartNode made them:    *)
(* pass says how far the loop has come, and timers, close callbacks and    *)
(* the network are served between two passes.                              *)
(***************************************************************************)
EXTENDS Integers, Sequences, FiniteSets, SequencesExt

CONSTANTS Messages,     \* discovery messages other nodes send, each received once:
                        \*   kind "pub", "ack", "goodbye" or "bad"; match; self; ackReq
          NumBuffers,   \* bound: calls of DPS_DiscoveryPublish, each with a payload of its own or none
          MaxHellos,    \* bound: timeouts of the service's timer
          MaxReceived,  \* bound: messages received
          Refusable,    \* the messages, "hello" or "goodbye", whose multicast may fail at once
          NULL

Buffers == 1 .. NumBuffers
Maybe(S) == S \cup {NULL}

VARIABLES service,  \* DPS_DiscoveryService, and whether its memory is "live" or "freed"
          buffer,   \* [Buffers -> SharedBuffer: refs, and "unused", "live" or "freed"]
          sendQ,    \* requests on the queue of service->pub, not yet sent
          sends,    \* its publications and its acknowledgements that are being sent
          rx,       \* [Messages -> what became of it: its AckRequest, its HandlerData]
          requests, \* node->requestQueue
          signalled, pass, app

vars == <<service, buffer, sendQ, sends, rx, requests, signalled, pass, app>>

Asyncs == <<"pubs", "free", "request">>

(* DPS_CreateDiscoveryService; the handler is the one the application will *)
(* pass with each publish.                                                 *)
Init ==
    /\ \E handler \in BOOLEAN :
           service = [st |-> "live", wants |-> handler, handler |-> FALSE, sub |-> "created",
                      pub |-> "listed", timer |-> "none", payload |-> NULL, publishes |-> 0, hellos |-> 0,
                      destroying |-> FALSE, destroyed |-> 0,
                      refused |-> FALSE]       \* history: its goodbye was refused at once
    /\ buffer = [b \in Buffers |-> [refs |-> 0, st |-> "unused"]]
    /\ sendQ = <<>> /\ sends = {} /\ requests = <<>>
    /\ rx = [m \in Messages |-> [st |-> "none", ack |-> "none", ackSvc |-> FALSE,
                                 linking |-> FALSE, linkSvc |-> FALSE, sn |-> <<>>]]
    /\ signalled = {} /\ pass = 0 /\ app = "idle"

\* The state as a record, so that the functions that call each other can be composed.
State == [service |-> service, buffer |-> buffer, sendQ |-> sendQ, sends |-> sends, rx |-> rx,
          requests |-> requests, signalled |-> signalled]
Becomes(t) ==
    /\ service' = t.service /\ buffer' = t.buffer /\ sendQ' = t.sendQ /\ sends' = t.sends
    /\ rx' = t.rx /\ requests' = t.requests /\ signalled' = t.signalled

Signal(t, a) == [t EXCEPT !.signalled = @ \cup {a}]
Schedule(t, req) == Signal([t EXCEPT !.requests = Append(@, req)], "request")

------------------------------------------------------------------------------
(* The payload that messages share. *)

SharedBufferIncRef(t, b) == IF b = NULL THEN t ELSE [t EXCEPT !.buffer[b].refs = @ + 1]
SharedBufferDecRef(t, b) ==
    IF b = NULL THEN t
    ELSE [t EXCEPT !.buffer[b] = [refs |-> @.refs - 1, st |-> IF @.refs = 1 THEN "freed" ELSE @.st]]

\* EncodeDiscoveryPayload: the message holds what the payload is at this moment.
EncodeDiscoveryPayload(t) == SharedBufferIncRef(t, t.service.payload)

\* A new send has a number no other one has.
Tag(t) == CHOOSE n \in 1 .. Cardinality(t.sends) + Len(t.sendQ) + 1 :
              \A x \in t.sends \cup ToSet(t.sendQ) : x.n # n
Message(t, kind, b) == [kind |-> kind, buf |-> b, n |-> Tag(t)]

------------------------------------------------------------------------------
(* Taking the service apart. *)

PubRefs(t) == Cardinality({x \in t.sends : x.kind # "ack"})

\* The last step of Destroy: what is pending must not touch the service any more.
Forget(t) ==
    LET u == SharedBufferDecRef(t, t.service.payload)
    IN  [u EXCEPT !.service.st = "freed", !.service.destroyed = @ + 1, !.service.payload = NULL,
                  !.rx = [m \in Messages |-> [u.rx[m] EXCEPT !.ackSvc = FALSE, !.linkSvc = FALSE]]]

\* DPS_DestroyPublication of the service's publication: with no send that refers to it,
\* what its queue holds fails, and PublishCb gives up the payloads.
FreePub(t) ==
    LET u == [t EXCEPT !.service.pub = "destroyed"]
    IN  IF PubRefs(u) # 0 THEN u
        ELSE Signal(FoldLeft(LAMBDA v, x : SharedBufferDecRef(v, x.buf), [u EXCEPT !.sendQ = <<>>],
                             t.sendQ), "free")

\* Mutation of Destroy: the publication goes first, and its timer is left.
DestroyBug(t) ==
    IF t.service.sub = "listed" THEN Signal([t EXCEPT !.service.sub = "destroyed"], "free")
    ELSE IF t.service.pub # "gone" THEN FreePub(t)
    ELSE Forget(t)
\* Destroy: one thing at a time, and again from the callback of each.  A subscription that
\* was never subscribed is not valid, and is not destroyed.
Destroy(t) ==
    CASE t.service.timer # "none" -> [t EXCEPT !.service.timer = "closing"]
      [] t.service.timer = "none" /\ t.service.sub # "gone" ->
            IF t.service.sub = "listed" THEN Signal([t EXCEPT !.service.sub = "destroyed"], "free") ELSE t
      [] t.service.timer = "none" /\ t.service.sub = "gone" /\ t.service.pub # "gone" -> FreePub(t)
      [] OTHER -> Forget(t)

\* PublishCb and PublishDestroyCb
Published(t, x) ==
    IF x.kind = "goodbye" THEN Destroy(t) ELSE SharedBufferDecRef(t, x.buf)

------------------------------------------------------------------------------
(* The event loop. *)

AtRest == pass = 0
Between == AtRest /\ UNCHANGED <<pass, app>>

Pos(a) == CHOOSE i \in DOMAIN Asyncs : Asyncs[i] = a
\* A pass runs the tasks of the asyncs that are signalled, in order; one that is signalled
\* behind the pass waits for the next.
Visit(a) ==
    /\ a \in signalled /\ Pos(a) > pass /\ UNCHANGED app
    /\ \A b \in signalled : Pos(b) > pass => Pos(b) >= Pos(a)
    /\ pass' = IF \E b \in signalled' : Pos(b) > Pos(a) THEN Pos(a) ELSE 0

\* SendPubsTask: what is queued is multicast, or refused at once (no interface can be used),
\* which calls back from inside the task.
Refuse(t, x) == Published([t EXCEPT !.service.refused = @ \/ x.kind = "goodbye"], x)
Multicast(t, r) == IF r.refused THEN Refuse(t, r.msg) ELSE [t EXCEPT !.sends = @ \cup {r.msg}]
SendPubs ==
    /\ "pubs" \in signalled
    /\ \E refused \in SUBSET DOMAIN sendQ :
         /\ \A i \in refused : sendQ[i].kind \in Refusable
         /\ Becomes(FoldLeft(Multicast, [State EXCEPT !.sendQ = <<>>, !.signalled = @ \ {"pubs"}],
                             [i \in DOMAIN sendQ |-> [msg |-> sendQ[i], refused |-> i \in refused]]))
    /\ Visit("pubs")

\* FreeTask: OnSubDestroyed and OnPubDestroyed, in the same call when nothing is sent.
FreeSubs(t) == IF t.service.sub = "destroyed" THEN Destroy([t EXCEPT !.service.sub = "gone"]) ELSE t
FreePubs(t) == IF t.service.pub = "destroyed" /\ PubRefs(t) = 0
               THEN Destroy([t EXCEPT !.service.pub = "gone"]) ELSE t
FreeTask ==
    /\ "free" \in signalled
    /\ Becomes(FreePubs(FreeSubs([State EXCEPT !.signalled = @ \ {"free"}])))
    /\ Visit("free")

\* StartTimer: a timer that is being closed is not started.  The code does not see that the
\* service is freed: what it does with that memory is not followed, NothingDangles tells when.
StartTimer(t) == IF t.service.timer = "closing" \/ t.service.st = "freed" THEN t
                 ELSE [t EXCEPT !.service.timer = "armed"]
\* Ack: the answer waits a random time, or the service is gone.
DelayAck(t, m) == [t EXCEPT !.rx[m].ack = IF t.rx[m].ackSvc THEN "timer" ELSE "done"]
Run(t, req) == CASE req.k = "start" -> StartTimer(t)
                 [] req.k = "ack" -> DelayAck(t, req.m)
                 [] req.k = "destroy" -> Destroy(t)
\* RunRequestsTask; a request that follows the service it names is seen by NothingDangles.
RunRequests ==
    /\ "request" \in signalled
    /\ Becomes(FoldLeft(Run, [State EXCEPT !.requests = <<>>, !.signalled = @ \ {"request"}], requests))
    /\ Visit("request")

\* ServiceTimerCloseCb
TimerClosed == Between /\ service.timer = "closing"
               /\ Becomes(Destroy([State EXCEPT !.service.timer = "none"]))

\* PublishTimerOnTimeout: discovery stops when a message cannot be published.
PublishTimerOnTimeout ==
    /\ Between /\ service.timer = "armed" /\ service.hellos < MaxHellos
    /\ LET t == [State EXCEPT !.service.hellos = @ + 1]
           u == EncodeDiscoveryPayload(t)
       IN  IF service.pub = "listed"
           THEN Becomes(Signal([u EXCEPT !.sendQ = Append(@, Message(t, "hello", service.payload))], "pubs"))
           ELSE Becomes([SharedBufferDecRef(u, service.payload) EXCEPT !.service.timer = "stopped"])

\* A send ends: PublishCb, PublishDestroyCb or AckCb; the last one that refers to a
\* destroyed publication frees it.
SendComplete(x) ==
    /\ Between /\ x \in sends
    /\ LET t == [State EXCEPT !.sends = @ \ {x}]
           u == IF x.kind = "ack" THEN SharedBufferDecRef(t, x.buf) ELSE Published(t, x)
       IN  Becomes(IF x.kind # "ack" /\ u.service.pub = "destroyed" THEN FreePub(u) ELSE u)

------------------------------------------------------------------------------
(* Messages of other nodes. *)

CallHandler(t, m, sn) == IF t.service.handler THEN [t EXCEPT !.rx[m].sn = Append(@, sn)] ELSE t

\* AckPublication: there may be no way back to the publisher.
AckPublication(t, sent) ==
    IF sent THEN [EncodeDiscoveryPayload(t) EXCEPT
                    !.sends = @ \cup {Message(t, "ack", t.service.payload)}]
    ELSE t

\* CreateHandlerData and DPS_LinkRemoteAddr, which calls LinkCb in the end
Linking(t, m) == [t EXCEPT !.rx[m].linking = TRUE, !.rx[m].linkSvc = t.service.handler]

\* Mutation of OnAck: the handler is called and again by LinkCb.
OnAckBug(t, m, linked) ==
    CASE m.match /\ linked -> CallHandler(Linking(t, m), m, 1) [] OTHER -> CallHandler(t, m, 1)
OnAck(t, m, linked) ==
    CASE m.match /\ linked -> Linking(t, m)
      [] OTHER -> CallHandler(t, m, 1)

\* ScheduleAck
ScheduleAck(t, m) == Schedule([t EXCEPT !.rx[m].ack = "requested", !.rx[m].ackSvc = TRUE],
                              [k |-> "ack", m |-> m])

OnPub(t, m, linked, sent) ==
    IF m.kind = "goodbye" \/ (m.self /\ m.match) THEN CallHandler(t, m, 1)
    ELSE IF m.match
    THEN LET u == IF m.ackReq THEN AckPublication(t, sent) ELSE t
         IN  IF linked /\ u.service.handler THEN Linking(u, m) ELSE CallHandler(u, m, 1)
    ELSE CallHandler(IF m.ackReq THEN ScheduleAck(t, m) ELSE t, m, 1)

\* Whether the payload is a discovery message of the right type and version; what it says
\* (a match with this node's needs, the sender's id) is part of m.
DecodeDiscoveryPayload(m) == m.kind # "bad"

\* A message arrives: a publication for the subscription, an acknowledgement for the
\* publication, while they are listed.  linked: DPS_LinkRemoteAddr accepted the request.
Receive(m, linked, sent) ==
    /\ Between /\ rx[m].st = "none" /\ Cardinality({x \in Messages : rx[x].st # "none"}) < MaxReceived
    /\ IF m.kind = "ack" THEN service.pub = "listed" /\ service.hellos > 0 ELSE service.sub = "listed"
    /\ LET t == [State EXCEPT !.rx[m].st = "received"]
       IN  Becomes(IF ~DecodeDiscoveryPayload(m) THEN t
                   ELSE IF m.kind = "ack" THEN OnAck(t, m, linked) ELSE OnPub(t, m, linked, sent))

\* What the handler will be given: the copy has what the last acknowledgement of the
\* publication left, which for a publication that was received is nothing.
CopyPublication(m) == IF m.kind = "ack" THEN 1 ELSE 0

\* LinkCb, when the link is made, fails or exists.
LinkCb(m) ==
    /\ Between /\ rx[m].linking
    /\ LET t == [State EXCEPT !.rx[m].linking = FALSE, !.rx[m].linkSvc = FALSE]
       IN  Becomes(IF rx[m].linkSvc THEN CallHandler(t, m, CopyPublication(m)) ELSE t)

\* AckTimerOnTimeout and DestroyAckRequest
AckTimerOnTimeout(m, sent) ==
    /\ Between /\ rx[m].ack = "timer"
    /\ LET t == [State EXCEPT !.rx[m].ack = "done", !.rx[m].ackSvc = FALSE]
       IN  Becomes(IF rx[m].ackSvc THEN AckPublication(t, sent) ELSE t)

------------------------------------------------------------------------------
(* The application. *)

\* DPS_DiscoveryPublish takes the node's lock twice: it subscribes,
Subscribe ==
    /\ app = "idle" /\ ~service.destroying /\ service.publishes < NumBuffers
    /\ app' = "payload"
    /\ service' = [service EXCEPT !.handler = service.wants, !.sub = "listed", !.publishes = @ + 1]
    /\ UNCHANGED <<buffer, sendQ, sends, rx, requests, signalled, pass>>
\* replaces the payload,
ReplacePayload(b) ==
    /\ app = "payload" /\ app' = "schedule" /\ UNCHANGED pass
    /\ b \in {NULL, service.publishes}
    /\ LET t == [SharedBufferDecRef(State, service.payload) EXCEPT !.service.payload = b]
       IN  Becomes(IF b = NULL THEN t ELSE [t EXCEPT !.buffer[b] = [refs |-> 1, st |-> "live"]])
\* and has the loop start the timer.
ScheduleStart ==
    /\ app = "schedule" /\ app' = "idle" /\ UNCHANGED pass
    /\ Becomes(Schedule(State, [k |-> "start"]))

\* DPS_DestroyDiscoveryService: a goodbye message, whose callback destroys the service.
DestroyDiscoveryService(refused) ==
    /\ app = "idle" /\ ~service.destroying /\ app' = "done" /\ UNCHANGED pass
    /\ LET t == [State EXCEPT !.service.destroying = TRUE]
       IN  Becomes(IF refused THEN Schedule(t, [k |-> "destroy"])
                   ELSE Signal([t EXCEPT !.sendQ = Append(@, Message(t, "goodbye", NULL))], "pubs"))

LoopWork == \/ SendPubs \/ FreeTask \/ RunRequests \/ TimerClosed
            \/ \E x \in sends : SendComplete(x)
Replies == \/ \E m \in Messages : LinkCb(m)
           \/ \E m \in Messages, sent \in BOOLEAN : AckTimerOnTimeout(m, sent)
Application == \/ Subscribe \/ (\E b \in Maybe(Buffers) : ReplacePayload(b)) \/ ScheduleStart
               \/ \E refused \in BOOLEAN : DestroyDiscoveryService(refused)
Next == \/ LoopWork \/ Replies \/ Application \/ PublishTimerOnTimeout
        \/ \E m \in Messages, linked, sent \in BOOLEAN : Receive(m, linked, sent)

------------------------------------------------------------------------------

\* The handler is called once for each message that is not refused, whether the service
\* links to its sender, that link fails, or the handler is replaced by one of the same
\* application; never after the service is destroyed and never twice.
ReportedOnce ==
    \A m \in Messages :
        /\ Len(rx[m].sn) <= 1
        /\ rx[m].st = "received" /\ ~rx[m].linking /\ service.st = "live" =>
             Len(rx[m].sn) = IF service.wants /\ m.kind # "bad" THEN 1 ELSE 0

\* The references to a payload are those of the service and of the messages that carry
\* it, and it is freed when there are none.
PayloadCounted ==
    \A b \in Buffers : buffer[b].st # "unused" =>
        /\ buffer[b].refs = Cardinality({x \in sends \cup ToSet(sendQ) : x.buf = b})
                            + (IF service.payload = b THEN 1 ELSE 0)
        /\ (buffer[b].st = "freed") = (buffer[b].refs = 0)

\* When the service's memory is freed nothing is left that reads it: no request, timer,
\* publication callback, link or delayed acknowledgement.  The one exception is a request to
\* start the timer, when the goodbye was refused at once: the service then takes itself apart
\* in the pass that sends the goodbye, whose last task runs the request.
NothingDangles ==
    /\ service.destroyed <= 1
    /\ service.st = "freed" =>
         /\ service.timer = "none" /\ service.sub = "gone" /\ service.pub = "gone"
         /\ \A i \in DOMAIN requests :
                requests[i].k = "ack" \/ (requests[i].k = "start" /\ service.refused)
         /\ \A x \in sends \cup ToSet(sendQ) : x.kind = "ack"
         /\ \A m \in Messages : ~rx[m].ackSvc /\ ~rx[m].linkSvc

\* A service that has published is destroyed in the end, and its callback called, whatever
\* is queued, sent or timed at that moment.
DestroyCompletes == service.destroying /\ service.publishes > 0 ~> service.destroyed = 1

\* The handler is given the message that was received.
HandlerSeesMessage == \A m \in Messages : \A i \in DOMAIN rx[m].sn : rx[m].sn[i] = 1
==============================================================================
