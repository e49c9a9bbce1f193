----------------------------- MODULE Publications -----------------------------
(***************************************************************************)
(* The publications of one DPS node: src/pub.c, src/ack.c, src/queue.c and *)
(* the publication tasks of src/dps.c.  The application's thread and the   *)
(* node's event loop share publications, requests, acknowledgements and    *)
(* subscriptions; each is freed by hand when a reference count is zero.    *)
(*                                                                         *)
(*   s     what is reachable from DPS_Node, and the objects themselves     *)
(*   loop  the call stack of the event loop thread, innermost frame last   *)
(*   app   the request the application's thread serializes, or NULL        *)
(*   now   uv_now, in seconds                                              *)
(*                                                                         *)
(* The operators on s are C functions that run with the node lock held.    *)
(* A frame of the loop is a function that releases the lock or lets the    *)
(* application's code run; the action that resumes it is named for it.     *)
(* Objects are never reused, so a pointer to a freed one is visible.       *)
(***************************************************************************)
EXTENDS Integers, Sequences, FiniteSets, SequencesExt, FiniteSetsExt, Bags

CONSTANTS NumLocal,     \* publications the application may create
          NumOther,     \* publications DPS_DecodePublication and copies may allocate
          NumReqs,      \* publish requests
          NumAcks,      \* acknowledgements
          Subs,         \* subscriptions; every one matches every publication
          ExpiredSubs,  \* those with SUB_FLAG_EXPIRED (DPS_SubscribeExpired)
          Remotes,      \* addresses of other nodes
          Ids,          \* ids of publications of other nodes
          Scenarios,    \* the runs that are explored, each bounded in its own way:
                        \*   calls     what the application does
                        \*   locals    the publications it may create
                        \*   remotes   the active remotes, interested in every publication
                        \*   subs      the subscriptions it may make
                        \*   messages  the publications other nodes send
                        \*   acks      the acknowledgements they send, each once
                        \*   ttls      the times to live passed to DPS_PublishBufs
                        \*   time      seconds that pass
                        \*   sends     DPS_UpdatePubs calls and failing sends
                        \*   mcastPub  the node was started to multicast its publications
          NULL

VARIABLES s, loop, app, now
vars == <<s, loop, app, now>>

Locals == 1 .. NumLocal
Others == NumLocal + 1 .. NumLocal + NumOther
Pubs == Locals \cup Others
Reqs == 1 .. NumReqs
Acks == 1 .. NumAcks
PubIds == Locals \cup Ids               \* a local publication's id is its own
Loopback == "loopback"                  \* DPS_GetLoopbackAddress
Sources == Remotes \cup {Loopback}
Flags == {"LOCAL", "RETAINED", "EXPIRED", "WAS_FREED", "MULTICAST", "IS_COPY"}

CallNames == {"init", "multicast", "publish", "seal", "destroy", "subscribe", "unsubscribe",
              "copy", "ack", "stop"}

ASSUME PoolAssumption == {NumLocal, NumOther, NumReqs, NumAcks} \subseteq Nat
ASSUME NamesAssumption == Loopback \notin Remotes /\ Ids \cap Pubs = {} /\ ExpiredSubs \subseteq Subs
ASSUME NullAssumption == NULL \notin UNION {Pubs, Reqs, Acks, Subs}
ASSUME RemotesAssumption == IsFiniteSet(Remotes)
ASSUME ScenarioAssumption == \A c \in Scenarios :
    /\ c.calls \subseteq CallNames /\ c.ttls \subseteq Int /\ {c.time, c.sends} \subseteq Nat
    /\ c.messages \subseteq [id : Ids, seq : Nat \ {0}, ttl : Int, ackReq : BOOLEAN,
                             from : Remotes, body : {"ok", "other_key", "bad_map", "bad_filter"}]
    /\ c.acks \subseteq [id : PubIds, seq : Nat \ {0}, from : Remotes]
    /\ c.remotes \subseteq Remotes /\ c.subs \subseteq Subs /\ c.locals \subseteq Locals /\ c.mcastPub \in BOOLEAN

Larger(x, y) == IF x > y THEN x ELSE y

--------------------------------------------------------------------------------
(* The objects. *)

\* DPS_Publication.  Where it is: "held" by the application or a handler, on the
\* list "listed" or "freed" (node->freePubs), or "gone".
NewPub == [st |-> "unused", id |-> NULL, flags |-> {}, refs |-> 0, seq |-> 0, ttl |-> 0,
           ackReq |-> FALSE, from |-> NULL, sendQ |-> <<>>, retQ |-> <<>>]
\* DPS_PublishRequest; expires = 0 until it is first sent; calls counts completeCB.
NewReq == [st |-> "unused", pub |-> NULL, refs |-> 0, seq |-> 0, ttl |-> 0, expires |-> 0,
           status |-> "NO_ROUTE", cb |-> FALSE, rx |-> FALSE, body |-> "ok", calls |-> 0]
\* PublicationAck
NewAck == [st |-> "unused", pub |-> NULL, seq |-> 0, dest |-> NULL]
NewSub == [st |-> "unused", refs |-> 0]

Init == \E c \in Scenarios :
    /\ s = [scenario |-> c, publications |-> <<>>, freePubs |-> <<>>, subscriptions |-> <<>>, freeSubs |-> <<>>,
            ackQueue |-> <<>>,
            pub |-> [p \in Pubs |-> NewPub], req |-> [r \in Reqs |-> NewReq],
            ack |-> [a \in Acks |-> NewAck], sub |-> [x \in Subs |-> NewSub],
            async |-> {}, timer |-> NULL, remotes |-> c.remotes, mcast |-> c.mcastPub,
            history |-> [i \in PubIds |-> [sn |-> 0, ackReq |-> FALSE, from |-> [a \in Sources |-> 0]]],
            net |-> EmptyBag, acks |-> c.acks, rxRefs |-> 0,
            state |-> "RUNNING", owned |-> {}, budget |-> c.sends, fault |-> {}]
    /\ loop = <<>> /\ app = NULL /\ now = 1

Unused(f) == {x \in DOMAIN f : f[x].st = "unused"}
\* The object an allocation returns; none when the pool, a bound, is used up.
Fresh(S) == {x \in S : \A y \in S : x <= y}
\* Bound: besides what an operation takes, there is a request and a publication left for
\* every local request that may still be looped back.
Spare(t, n) ==
    LET reserved == Cardinality({r \in Reqs : t.req[r].st = "live" /\ t.req[r].cb /\
                        (t.req[r].expires # 0 => r \in ToSet(t.pub[t.req[r].pub].sendQ \o t.pub[t.req[r].pub].retQ))})
    IN  /\ Cardinality(Unused(t.req)) >= reserved + n
        /\ Cardinality(Unused(t.pub) \cap Others) >= reserved + 1
Async(t, a) == [t EXCEPT !.async = @ \cup {a}]
Check(t, cond, word) == IF cond THEN t ELSE [t EXCEPT !.fault = @ \cup {word}]

\* The next pointer of an element of a linked list.
After(l, x) == LET i == SelectInSeq(l, LAMBDA y : y = x)
               IN  IF i \in 1 .. Len(l) - 1 THEN l[i + 1] ELSE NULL
\* A list after the elements of S were unlinked.
Without(l, S) == FoldLeft(LAMBDA rest, x : IF x \in S THEN rest ELSE Append(rest, x), <<>>, l)
First(l) == IF l = <<>> THEN NULL ELSE Head(l)
NextPub(t, p) == IF t.pub[p].st = "freed" THEN After(t.freePubs, p) ELSE After(t.publications, p)
NextSub(t, x) == IF t.sub[x].st = "freed" THEN After(t.freeSubs, x) ELSE After(t.subscriptions, x)

--------------------------------------------------------------------------------
(* Reference counts and completion. *)

PublicationIncRef(t, p) == [t EXCEPT !.pub[p].refs = @ + 1]

\* DPS_DestroyPublishRequest; a received request's buffers are the receive buffer's.
DestroyPublishRequest(t, r) ==
    [t EXCEPT !.req[r].st = "gone", !.rxRefs = @ - (IF t.req[r].rx THEN 1 ELSE 0)]

\* Mutation of PublishCompletion: a publish that failed is destroyed without its callback.
PublishCompletionBug(t, r) ==
    IF t.req[r].refs # 0 THEN t
    ELSE DestroyPublishRequest(IF t.req[r].cb /\ t.req[r].status # "FAILED"
                               THEN [t EXCEPT !.req[r].calls = @ + 1] ELSE t, r)
\* DPS_PublishCompletion: a publish succeeds when there are no subscribers.
PublishCompletion(t, r) ==
    IF t.req[r].refs # 0 THEN t
    ELSE DestroyPublishRequest(
            IF t.req[r].cb THEN [t EXCEPT !.req[r].calls = @ + 1,
                                          !.req[r].status = IF @ = "NO_ROUTE" THEN "OK" ELSE @]
            ELSE t, r)

\* The reference a queue or a send had, and with it perhaps the last one.
ReleaseReq(t, r, status) ==
    PublishCompletion([Check(t, t.req[r].refs > 0, "request_refCount")
                        EXCEPT !.req[r].refs = @ - 1,
                               !.req[r].status = IF @ = "OK" THEN @ ELSE status], r)

\* Unlinking a publication and putting it on node->freePubs.
MoveToFree(t, p, flags) ==
    IF "WAS_FREED" \in t.pub[p].flags THEN t
    ELSE [t EXCEPT !.publications = Without(@, {p}),
                   !.freePubs = <<p>> \o @,
                   !.pub[p] = [t.pub[p] EXCEPT !.st = "freed", !.flags = flags]]

\* FreeCopy
FreeCopy(t, p) ==
    LET u == MoveToFree(t, p, t.pub[p].flags \cup {"WAS_FREED"})
    IN  IF u.pub[p].refs = 0 THEN Async(u, "free") ELSE u

\* What the queues still hold fails with DPS_ERR_WRITE.
FailQueues(t, p) ==
    FoldLeft(LAMBDA u, r : ReleaseReq([u EXCEPT !.req[r].status = "FAILED"], r, "FAILED"),
             [t EXCEPT !.pub[p].sendQ = <<>>, !.pub[p].retQ = <<>>],
             t.pub[p].sendQ \o t.pub[p].retQ)

\* FreePublication; the memory goes in FreeTask.
FreePublication(t, p) ==
    IF "IS_COPY" \in t.pub[p].flags THEN FreeCopy(t, p)
    ELSE LET u == MoveToFree(t, p, {"WAS_FREED"})
         IN  IF u.pub[p].refs = 0 THEN Async(FailQueues(u, p), "free") ELSE u

\* Mutation of PublicationDecRef: the last reference does not free the publication.
PublicationDecRefBug(t, p) == [t EXCEPT !.pub[p].refs = @ - 1]
PublicationDecRef(t, p) ==
    LET u == [Check(t, t.pub[p].refs # 0, "publication_refCount") EXCEPT !.pub[p].refs = @ - 1]
    IN  IF u.pub[p].refs = 0 /\ "WAS_FREED" \in u.pub[p].flags THEN FreePublication(u, p) ELSE u

\* FreeSubscription, without the count vectors of module RemoteNodes
FreeSubscription(t, x) ==
    LET u == IF t.sub[x].st = "freed" THEN t
             ELSE [t EXCEPT !.subscriptions = Without(@, {x}),
                            !.freeSubs = <<x>> \o @, !.sub[x].st = "freed"]
    IN  IF u.sub[x].refs = 0 THEN Async(u, "free") ELSE u
SubscriptionDecRef(t, x) ==
    LET u == [t EXCEPT !.sub[x].refs = @ - 1]
    IN  IF u.sub[x].refs = 0 /\ u.sub[x].st = "freed" THEN FreeSubscription(u, x) ELSE u

\* DPS_AckPublicationCompletion and DestroyAck
AckPublicationCompletion(t, a) ==
    PublicationDecRef([t EXCEPT !.ack[a].st = "gone"], t.ack[a].pub)

\* DPS_ExpirePub
ExpirePub(t, p) ==
    IF "LOCAL" \in t.pub[p].flags THEN [t EXCEPT !.pub[p].flags = @ \cup {"EXPIRED"}]
    ELSE FreePublication(t, p)

--------------------------------------------------------------------------------
(* The history, as module HistoryMap keeps it, without hop counts. *)

UpdatePubHistory(t, i, sn, ackReq, a) ==
    LET o == t.history[i]
    IN  [t EXCEPT !.history[i] = [sn |-> Larger(o.sn, sn), ackReq |-> ackReq,
                                  from |-> [o.from EXCEPT ![a] = Larger(@, sn)]]]
PublicationIsStale(t, i, sn) == sn <= t.history[i].sn
PublicationReceivedFrom(t, i, sn, source, dest) ==
    source = dest \/ sn <= t.history[i].from[dest]
\* The addresses DPS_LookupPublisherForAck may return.
PublishersForAck(t, i) ==
    {a \in Sources : t.history[i].ackReq /\ t.history[i].from[a] > 0}

\* LookupRetained, LookupPublication
Listed(t, i) == {p \in ToSet(t.publications) : t.pub[p].id = i}
LookupRetained(t, i) == {p \in Listed(t, i) : "RETAINED" \in t.pub[p].flags}
LookupPublication(t, i) == {p \in Listed(t, i) : "LOCAL" \notin t.pub[p].flags}
\* DPS_LookupAckHandler
LookupAckHandler(t, i, sn) ==
    {p \in Listed(t, i) : "LOCAL" \in t.pub[p].flags /\ t.pub[p].ackReq /\ sn <= t.pub[p].seq}

--------------------------------------------------------------------------------
(* Sending. *)

\* What DPS_NetSend and DPS_MulticastSend accepted, until they complete.
Post(t, m) == [t EXCEPT !.net = @ (+) SetToBag({m})]
Sending(kind, x, dest) == [kind |-> kind, of |-> x, dest |-> dest]

\* DPS_SendComplete
SendComplete(t, dest, ok) == IF ok THEN t ELSE [t EXCEPT !.remotes = @ \ {dest}]

ReqTTL(t, r) == t.req[r].expires - now
\* A retained publication that expired on the way is silently ignored.
TooLate(t, r, p) == /\ "RETAINED" \in t.pub[p].flags /\ "EXPIRED" \notin t.pub[p].flags
                    /\ ReqTTL(t, r) <= 0
\* The message the other side decodes: DPS_SerializePub's protected map, and the ttl
\* that DPS_SendPublication puts in the unprotected one.
SerializePub(t, r, p) ==
    [id |-> t.pub[p].id, seq |-> t.req[r].seq, ackReq |-> t.pub[p].ackReq, from |-> Loopback,
     body |-> t.req[r].body,
     ttl |-> IF "RETAINED" \notin t.pub[p].flags THEN 0
             ELSE IF "EXPIRED" \in t.pub[p].flags THEN -1 ELSE ReqTTL(t, r)]

\* DPS_SendPublication to a remote or to the multicast sender; a send that fails takes
\* the remote with it, and without a multicast interface there is nothing to fail.
Results == {"SENT", "NO_ROUTE", "FAILED"}
\* Mutation of SendPublication: the publication is not kept for the send.
SendPublicationBug(t, r, p, dest, result) ==
    IF TooLate(t, r, p) THEN [t EXCEPT !.req[r].status = "OK"]
    ELSE Post([t EXCEPT !.req[r].refs = @ + 1], Sending("pub", r, dest))
SendPublication(t, r, p, dest, result) ==
    IF TooLate(t, r, p) THEN [t EXCEPT !.req[r].status = "OK"]
    ELSE IF result = "SENT"
         THEN Post(PublicationIncRef([t EXCEPT !.req[r].refs = @ + 1], p), Sending("pub", r, dest))
         ELSE [SendComplete(t, dest, FALSE) EXCEPT
                 !.req[r].status = IF @ = "OK" \/ result = "NO_ROUTE" THEN "OK" ELSE "FAILED"]

\* OnNetSendComplete, OnMulticastSendComplete
PubSendComplete(t, r, dest, ok) ==
    LET p == t.req[r].pub
    IN  PublicationDecRef(ReleaseReq(SendComplete(t, dest, ok), r,
                                     IF ok THEN "OK" ELSE "FAILED"), p)

\* The remotes a request of p goes to: not those it came from.
Interested(t, r, p) ==
    {m \in t.remotes : "LOCAL" \in t.pub[p].flags
        \/ ~PublicationReceivedFrom(t, t.pub[p].id, t.req[r].seq, t.pub[p].from, m)}

--------------------------------------------------------------------------------
(* The loop's stack. *)

Top == loop[Len(loop)]
Call(frame) == loop' = Append(loop, frame)
Return == loop' = Front(loop)
Resume(frame) == loop' = Append(Front(loop), frame)
At(k, at) == loop # <<>> /\ Top.k = k /\ Top.at = at

\* Who may call: the application's code that the loop called, or its own thread while
\* the loop does not have the lock.  The lock is recursive: what DPS_LoopbackSend
\* reaches releases it once and still has it.
InCallback == loop # <<>> /\ Top.at \in {"calling", "in_ack_handler"}
Unlocked == loop # <<>> => /\ Top.at \in {"calling", "in_ack_handler", "decrypting"}
                           /\ \A i \in DOMAIN loop : loop[i].at # "looping_back"
Calls(name) == name \in s.scenario.calls /\ s.state = "RUNNING" /\ (~InCallback => Unlocked /\ app = NULL)
Called == UNCHANGED <<loop, app, now>>

HandlersFrame(t, r) == [k |-> "handlers", at |-> "walking", req |-> r, sub |-> NULL,
                        next |-> First(t.subscriptions), parsed |-> FALSE, copy |-> NULL]

\* DPS_DecodePublication up to the handlers.
\*   Drop(...)    the message is stale, only the history learns of it
\*   Accept(...)  the publication and the request that will carry it on
Stale(t, m) ==
    IF LookupRetained(t, m.id) # {}
    THEN \E p \in LookupRetained(t, m.id) : m.seq <= t.pub[p].seq
    ELSE m.ttl < 0 \/ PublicationIsStale(t, m.id, m.seq)
Drop(t, m) == UpdatePubHistory(t, m.id, m.seq, m.ackReq, m.from)
DecodesInto(t, m) ==
    IF LookupRetained(t, m.id) # {} THEN LookupRetained(t, m.id)
    ELSE IF LookupPublication(t, m.id) # {} THEN LookupPublication(t, m.id)
    ELSE Fresh(Unused(t.pub) \cap Others)
Accept(t, m, p, r) ==
    LET flags == CASE m.ttl < 0 -> t.pub[p].flags \cup {"EXPIRED"}
                   [] m.ttl = 0 -> t.pub[p].flags \ {"RETAINED"}
                   [] OTHER     -> t.pub[p].flags \cup {"RETAINED"}
    IN  [t EXCEPT !.publications = IF t.pub[p].st = "unused" THEN <<p>> \o @ ELSE @,
                  !.pub[p] = [t.pub[p] EXCEPT !.st = "listed", !.id = m.id, !.refs = @ + 1, !.seq = m.seq,
                                       !.ackReq = m.ackReq, !.from = m.from, !.flags = flags,
                                       !.ttl = m.ttl],
                  !.req[r] = [t.req[r] EXCEPT !.st = "live", !.pub = p, !.seq = m.seq, !.rx = TRUE,
                                       !.body = m.body],
                  !.rxRefs = @ + 1]
\* The ttl the request keeps: nothing that is expired is retained.
KeptTTL(t, m, p) == IF "EXPIRED" \in t.pub[p].flags \/ m.ttl < 0 THEN 0 ELSE m.ttl

DecodeFrame(m, p, r) == [k |-> "decode", at |-> "handling", m |-> m, pub |-> p, req |-> r, ret |-> "OK"]
\* The error exit: the request is destroyed and the publication freed, but the reference
\* taken above is not released.
DecodeFails(t, m, p, r) ==
    UpdatePubHistory(FreePublication(DestroyPublishRequest(t, r), p), m.id, m.seq, m.ackReq, m.from)
\* The handlers returned DPS_OK.
DecodeSucceeds(t, m, p, r) ==
    LET ttl == KeptTTL(t, m, p)
        u == [t EXCEPT !.req[r] = [t.req[r] EXCEPT !.ttl = ttl, !.expires = now + ttl, !.refs = @ + 1],
                       !.pub[p].sendQ = Append(@, r)]
    IN  PublicationDecRef(Async(UpdatePubHistory(u, m.id, m.seq, m.ackReq, m.from), "pubs"), p)

\* DecodePublication called from below the frames in `under`; t is the state so far.
DecodePublication(t, m, under) ==
    /\ ~Stale(t, m)
    /\ \E p \in DecodesInto(t, m), r \in Fresh(Unused(t.req)) :
         LET u == Accept(t, m, p, r)
         IN  IF m.body = "bad_filter"
             THEN s' = DecodeFails(u, m, p, r) /\ loop' = under
             ELSE /\ s' = u
                  /\ loop' = under \o <<DecodeFrame(m, p, r), HandlersFrame(u, r)>>

--------------------------------------------------------------------------------
(* DPS_CallPubHandlers. *)

\* Back to the caller, with the status; the copy made for local publications goes.
HandlersReturn(t, ret) ==
    /\ s' = IF Top.copy = NULL THEN t ELSE FreePublication(t, Top.copy)
    /\ loop' = Append(SubSeq(loop, 1, Len(loop) - 2), [loop[Len(loop) - 1] EXCEPT !.ret = ret])

\* DPS_CopyPublication: the queues of a copy are not initialised, which SendToCopy is about.
CopyOf(o, seq) == [NewPub EXCEPT !.st = "held", !.id = o.id, !.flags = {"IS_COPY"}, !.seq = seq, !.ttl = o.ttl,
                                 !.ackReq = o.ackReq]
\* The handler of Top.sub is called, with a copy when the publication is local.
CallHandler(t, frame) ==
    LET r == frame.req  p == t.req[r].pub
        u == UpdatePubHistory(t, t.pub[p].id, t.req[r].seq, t.pub[p].ackReq,
                              IF t.pub[p].from = NULL THEN Loopback ELSE t.pub[p].from)
    IN  IF "LOCAL" \in t.pub[p].flags /\ frame.copy = NULL
        THEN \E c \in Fresh(Unused(t.pub) \cap Others) :
             /\ s' = [u EXCEPT !.pub[c] = CopyOf(t.pub[p], t.req[r].seq)]
             /\ Resume([frame EXCEPT !.at = "calling", !.copy = c])
        ELSE s' = u /\ Resume([frame EXCEPT !.at = "calling"])

WalkHandlers ==
    /\ At("handlers", "walking") /\ UNCHANGED <<app, now>>
    /\ LET x == Top.next
           t == [s EXCEPT !.sub[x].refs = @ + 1]
           frame == [Top EXCEPT !.sub = x, !.next = NextSub(s, x)]
       IN  IF x = NULL THEN HandlersReturn(s, "OK")
           ELSE IF "EXPIRED" \in s.pub[s.req[Top.req].pub].flags /\ x \notin ExpiredSubs
           THEN s' = s /\ Resume(frame)
           ELSE IF Top.parsed THEN CallHandler(t, frame)
           ELSE s' = t /\ Resume([frame EXCEPT !.at = "decrypting"])

\* DecryptAndParsePub returns; a message for another key is no error.
Decrypted ==
    /\ At("handlers", "decrypting") /\ UNCHANGED <<app, now>>
    /\ LET body == s.req[Top.req].body
       IN  CASE body = "ok" -> CallHandler(s, [Top EXCEPT !.parsed = TRUE])
             [] body = "other_key" -> HandlersReturn(SubscriptionDecRef(s, Top.sub), "OK")
             [] OTHER -> HandlersReturn(SubscriptionDecRef(s, Top.sub), "FAILED")

HandlerReturns ==
    /\ At("handlers", "calling") /\ UNCHANGED <<app, now>>
    /\ s' = SubscriptionDecRef(s, Top.sub)
    /\ Resume([Top EXCEPT !.at = "walking", !.sub = NULL])

\* DPS_DecodePublication after the handlers, and SendComplete when it was looped back.
DecodeReturns ==
    /\ loop # <<>> /\ Top.k = "decode" /\ UNCHANGED <<app, now>>
    /\ LET t == IF Top.ret = "OK" THEN DecodeSucceeds(s, Top.m, Top.pub, Top.req)
                ELSE DecodeFails(s, Top.m, Top.pub, Top.req)
           under == Front(loop)
       IN  IF under = <<>> THEN s' = t /\ loop' = under
           ELSE LET f == Last(under)
                IN  /\ s' = [t EXCEPT !.req[f.req] = [t.req[f.req] EXCEPT
                                            !.refs = @ - 1, !.status = IF @ = "OK" THEN @ ELSE Top.ret]]
                    /\ loop' = Append(Front(under), [f EXCEPT !.at = "remotes"])

\* A publication arrives: DecodeRequest with the lock taken by DPS_DecodePublication.
ReceivePublication(m) ==
    /\ loop = <<>> /\ s.state = "RUNNING" /\ UNCHANGED <<app, now>>
    /\ \/ Stale(s, m) /\ s' = Drop(s, m) /\ UNCHANGED loop
       \/ Spare(s, 1) /\ DecodePublication(s, m, <<>>)

--------------------------------------------------------------------------------
(* SendPubs, on pubsAsync or pubsTimer. *)

SendPubs ==
    /\ loop = <<>> /\ s.state = "RUNNING" /\ UNCHANGED <<app, now>>
    /\ \/ "pubs" \in s.async /\ s' = [s EXCEPT !.async = @ \ {"pubs"}]
       \/ s.timer # NULL /\ s.timer <= now /\ s' = [s EXCEPT !.timer = NULL]
    /\ Call([k |-> "pubs", at |-> "next", pub |-> NULL, next |-> First(s.publications), req |-> NULL,
             expired |-> NULL, reschedule |-> NULL, ret |-> "OK"])

\* The next pointer is read before the lock is released, and uv_timer_start replaces
\* whatever the timer was set to.
SendNext ==
    /\ At("pubs", "next") /\ UNCHANGED <<app, now>>
    /\ IF Top.next = NULL
       THEN /\ s' = [s EXCEPT !.timer = IF Top.reschedule = NULL THEN @ ELSE Top.reschedule]
            /\ Return
       ELSE /\ s' = PublicationIncRef(s, Top.next)
            /\ Resume([Top EXCEPT !.at = "queue", !.pub = Top.next, !.next = NextPub(s, Top.next),
                                  !.req = NULL, !.expired = NULL])

\* One request of the send queue, looped back when a subscription here matches.
Dequeue(t, p, r) ==
    [t EXCEPT !.pub[p].sendQ = Tail(@),
              !.req[r] = [t.req[r] EXCEPT !.refs = @ - 1, !.expires = IF @ = 0 THEN now + t.req[r].ttl ELSE @]]
LoopBack(t, p, r, frame) ==
    LET m == SerializePub(t, r, p)
    IN  IF TooLate(t, r, p)
        THEN s' = [t EXCEPT !.req[r].status = "OK"] /\ Resume(frame)
        ELSE IF Stale(t, m)
        THEN s' = [Drop(t, m) EXCEPT !.req[r].status = "OK"] /\ Resume(frame)
        ELSE DecodePublication([t EXCEPT !.req[r].refs = @ + 1], m,
                               Append(Front(loop), [frame EXCEPT !.at = "looping_back"]))
SendRequest ==
    /\ At("pubs", "queue") /\ "IS_COPY" \notin s.pub[Top.pub].flags /\ UNCHANGED <<app, now>>
    /\ LET p == Top.pub
       IN  IF s.pub[p].sendQ = <<>>
           THEN s' = s /\ Resume([Top EXCEPT !.at = "done"])
           ELSE LET r == Head(s.pub[p].sendQ)
                    t == Dequeue(s, p, r)
                    frame == [Top EXCEPT !.at = "remotes", !.req = r]
                IN  IF "LOCAL" \in s.pub[p].flags /\ s.subscriptions # <<>>
                    THEN LoopBack(t, p, r, frame)
                    ELSE s' = t /\ Resume(frame)

\* From a publication that a handler destroyed the walk goes on along node->freePubs, where
\* copies are too.  DPS_QueueEmpty is false of a queue that was never initialised, and the
\* null pointer that is its front is where the program ends.
SendToCopy ==
    /\ At("pubs", "queue") /\ "IS_COPY" \in s.pub[Top.pub].flags /\ UNCHANGED <<app, now>>
    /\ s' = Check(s, FALSE, "null_queue") /\ Resume([Top EXCEPT !.at = "ended"])

\* The same request to the multicast sender and to the remotes, `failing` of which fail.
SendToAll(t, p, r, mcast, failing) ==
    LET u == IF {"LOCAL", "MULTICAST"} \subseteq t.pub[p].flags /\ t.mcast
             THEN SendPublication(t, r, p, "multicast", mcast) ELSE t
        sends == {[req |-> r, pub |-> p, dest |-> m, result |-> IF m \in failing THEN "FAILED" ELSE "SENT"] :
                     m \in Interested(u, r, p)}
    IN  [FoldSet(LAMBDA e, v : SendPublication(v, e.req, e.pub, e.dest, e.result), u, sends)
          EXCEPT !.budget = @ - Cardinality(failing) - (IF mcast = "FAILED" THEN 1 ELSE 0)]
CompleteExpired(t, r) ==
    IF r = NULL THEN t
    ELSE PublishCompletion([Check(t, t.req[r].refs > 0, "request_refCount") EXCEPT !.req[r].refs = @ - 1], r)
\* Mutation of Replace: what was retained stays.
ReplaceBug(t, p, r, expired) ==
    PublishCompletion(IF now < t.req[r].expires
                      THEN [t EXCEPT !.pub[p].retQ = Append(@, r), !.req[r].refs = @ + 1]
                      ELSE t, r)
\* The request replaces the one that is retained, if it has time to live.
Replace(t, p, r, expired) ==
    LET u == IF t.pub[p].retQ = <<>> THEN t
             ELSE [CompleteExpired(t, expired) EXCEPT !.pub[p].retQ = Tail(@)]
    IN  PublishCompletion(IF now < u.req[r].expires
                          THEN [u EXCEPT !.pub[p].retQ = Append(@, r), !.req[r].refs = @ + 1]
                          ELSE u, r)
Sooner(x, y) == IF x = NULL \/ y < x THEN y ELSE x
SendRemotes ==
    /\ At("pubs", "remotes") /\ UNCHANGED <<app, now>>
    /\ LET p == Top.pub  r == Top.req
       IN  /\ \E mcast \in IF s.mcast THEN Results ELSE {"SENT"}, failing \in SUBSET s.remotes :
                LET t == SendToAll(s, p, r, mcast, failing)
                IN  /\ failing \subseteq Interested(s, r, p) /\ t.budget >= 0
                    /\ s' = Replace(t, p, r, Top.expired)
           /\ Resume([Top EXCEPT !.at = "queue", !.req = NULL,
                !.expired = IF s.pub[p].retQ = <<>> THEN @ ELSE Head(s.pub[p].retQ),
                !.reschedule = IF now < s.req[r].expires THEN Sooner(@, s.req[r].expires) ELSE @])

\* The queue is empty: what was retained may be due, and then the handlers are told.
LeavePub(t, frame, expire) ==
    LET u == IF expire THEN ExpirePub(t, frame.pub) ELSE t
    IN  /\ s' = PublicationDecRef(CompleteExpired(u, frame.expired), frame.pub)
        /\ Resume([frame EXCEPT !.at = "next", !.pub = NULL, !.expired = NULL])
SendDone ==
    /\ At("pubs", "done") /\ UNCHANGED <<app, now>>
    /\ LET p == Top.pub
           due == s.pub[p].retQ # <<>> /\ s.req[Head(s.pub[p].retQ)].expires <= now
           t == IF due THEN [CompleteExpired(s, Top.expired) EXCEPT !.pub[p].retQ = Tail(@)] ELSE s
           frame == IF due THEN [Top EXCEPT !.expired = Head(s.pub[p].retQ)] ELSE Top
           u == [t EXCEPT !.pub[p].flags = @ \cup {"EXPIRED"}, !.pub[p].ttl = -1]
       IN  IF t.pub[p].retQ # <<>> THEN LeavePub(t, frame, FALSE)
           ELSE IF frame.expired = NULL \/ "EXPIRED" \in t.pub[p].flags THEN LeavePub(t, frame, TRUE)
           ELSE /\ s' = u
                /\ loop' = Front(loop) \o <<[frame EXCEPT !.at = "expiring"],
                                             HandlersFrame(u, frame.expired)>>
SendExpired ==
    /\ At("pubs", "expiring") /\ UNCHANGED <<app, now>>
    /\ LeavePub(s, Top, TRUE)

\* DPS_UpdatePubs, when a remote's subscription changed
UpdatePubs ==
    /\ loop = <<>> /\ s.state = "RUNNING" /\ s.budget > 0 /\ UNCHANGED <<loop, app, now>>
    /\ s.publications # <<>>
    /\ s' = FoldLeft(LAMBDA t, p :
                IF t.pub[p].sendQ # <<>> THEN Async(t, "pubs")
                ELSE IF t.pub[p].retQ = <<>> THEN ExpirePub(t, p)
                ELSE IF t.remotes = {} /\ ~t.mcast THEN t
                ELSE Async([t EXCEPT !.pub[p].sendQ = <<Head(t.pub[p].retQ)>>,
                                     !.pub[p].retQ = Tail(@)], "pubs"),
             [s EXCEPT !.budget = @ - 1], s.publications)

--------------------------------------------------------------------------------
(* Acknowledgements. *)

\* DPS_DecodeAcknowledgement for a publication of this node: its handler is called with
\* a reference held and the lock released.
AckFrame(p) == [k |-> "ack", at |-> "in_ack_handler", pub |-> p]
AckHandlerReturns ==
    /\ At("ack", "in_ack_handler") /\ UNCHANGED <<app, now>>
    /\ s' = PublicationDecRef(s, Top.pub)
    /\ Return

\* For another node's: forwarded as received, with a reference to the receive buffer.
ForwardAck(t, m, dest, ok) ==
    IF ok THEN Post([t EXCEPT !.rxRefs = @ + 1], Sending("fwd", m.id, dest))
    ELSE [SendComplete(t, dest, FALSE) EXCEPT !.budget = @ - 1]
ReceiveAck(m) ==
    /\ loop = <<>> /\ s.state = "RUNNING" /\ UNCHANGED <<app, now>>
    /\ \/ \E p \in LookupAckHandler(s, m.id, m.seq) :
            s' = PublicationIncRef([s EXCEPT !.acks = @ \ {m}], p) /\ Call(AckFrame(p))
       \/ /\ LookupAckHandler(s, m.id, m.seq) = {} /\ UNCHANGED loop
          /\ \E dest \in PublishersForAck(s, m.id), ok \in BOOLEAN :
                /\ m.seq <= s.history[m.id].sn /\ dest # m.from
                /\ ok \/ s.budget > 0
                /\ s' = ForwardAck([s EXCEPT !.acks = @ \ {m}], m, dest, ok)

\* SendAcksTask
SendAcks ==
    /\ loop = <<>> /\ s.state = "RUNNING" /\ "acks" \in s.async /\ UNCHANGED <<app, now>>
    /\ s' = [s EXCEPT !.async = @ \ {"acks"}]
    /\ Call([k |-> "acks", at |-> "next", ack |-> NULL])
\* DPS_SendAcknowledgement: to the publication of that id here, or to the network.
SendAcknowledgement ==
    /\ At("acks", "next") /\ s.ackQueue # <<>> /\ UNCHANGED <<app, now>>
    /\ LET a == Head(s.ackQueue)
           i == s.pub[s.ack[a].pub].id
           t == [s EXCEPT !.ackQueue = Tail(@)]
           done == AckPublicationCompletion(t, a)
       IN  IF \E p \in Listed(t, i) : "LOCAL" \in t.pub[p].flags
           THEN \/ \E p \in LookupAckHandler(t, i, t.ack[a].seq) :
                      /\ s' = PublicationIncRef(t, p)
                      /\ loop' = Front(loop) \o <<[Top EXCEPT !.at = "looping_back", !.ack = a], AckFrame(p)>>
                \/ LookupAckHandler(t, i, t.ack[a].seq) = {} /\ s' = done /\ UNCHANGED loop
           ELSE /\ UNCHANGED loop
                /\ \/ s' = Post(t, Sending("ack", a, t.ack[a].dest))
                   \/ /\ t.budget > 0
                      /\ s' = [SendComplete(done, t.ack[a].dest, FALSE) EXCEPT !.budget = @ - 1]
AckLoopedBack ==
    /\ At("acks", "looping_back") /\ UNCHANGED <<app, now>>
    /\ s' = AckPublicationCompletion(s, Top.ack)
    /\ Resume([Top EXCEPT !.at = "next", !.ack = NULL])
SendAcksDone == At("acks", "next") /\ s.ackQueue = <<>> /\ Return /\ UNCHANGED <<s, app, now>>

\* A send ends: OnNetSendComplete and OnMulticastSendComplete of a publication,
\* OnNetSendComplete of an acknowledgement, OnSendComplete of one that was forwarded,
\* which keeps the receive buffer.
NetSendComplete(m, ok) ==
    /\ loop = <<>> /\ BagIn(m, s.net) /\ UNCHANGED <<loop, app, now>>
    /\ ok \/ s.budget > 0 \/ s.state # "RUNNING"
    /\ LET t == [s EXCEPT !.net = @ (-) SetToBag({m}),
                          !.budget = IF ok \/ s.state # "RUNNING" THEN @ ELSE @ - 1]
       IN  s' = CASE m.kind = "pub" -> PubSendComplete(t, m.of, m.dest, ok)
                  [] m.kind = "ack" -> AckPublicationCompletion(SendComplete(t, m.dest, ok), m.of)
                  [] m.kind = "fwd" -> SendComplete(t, m.dest, ok)

\* FreeTask
\* Mutation of Freeable: a publication that is still referenced is freed.
FreeableBug(t) == ToSet(t.freePubs)
Freeable(t) == {p \in ToSet(t.freePubs) : t.pub[p].refs = 0}
FreeableSubs(t) == {x \in ToSet(t.freeSubs) : t.sub[x].refs = 0}
FreeTask ==
    /\ loop = <<>> /\ "free" \in s.async /\ UNCHANGED <<loop, app, now>>
    /\ s' = [s EXCEPT !.async = @ \ {"free"},
                      !.freePubs = Without(@, Freeable(s)),
                      !.freeSubs = Without(@, FreeableSubs(s)),
                      !.pub = [p \in Pubs |-> IF p \in Freeable(s) THEN [s.pub[p] EXCEPT !.st = "gone"] ELSE s.pub[p]],
                      !.sub = [x \in Subs |-> IF x \in FreeableSubs(s) THEN [s.sub[x] EXCEPT !.st = "gone"] ELSE s.sub[x]]]

Tick == now < s.scenario.time /\ loop = <<>> /\ s.state = "RUNNING" /\ now' = now + 1 /\ UNCHANGED <<s, loop, app>>

--------------------------------------------------------------------------------
(* The application's calls.  It only passes what it owns, or what its handler was given. *)

CreatePublication ==
    /\ Calls("init") /\ Called
    /\ \E p \in Fresh(Unused(s.pub) \cap Locals \cap s.scenario.locals) :
           s' = [s EXCEPT !.pub[p] = [NewPub EXCEPT !.st = "held", !.id = p,
                                        !.flags = IF s.scenario.mcastPub THEN {"MULTICAST"} ELSE {}],
                          !.owned = @ \cup {p}]
InitPublication(p, ackReq) ==
    /\ Calls("init") /\ Called
    /\ p \in s.owned /\ s.pub[p].st = "held" /\ s.pub[p].flags \cap {"IS_COPY", "LOCAL"} = {}
    /\ s' = [s EXCEPT !.publications = <<p>> \o @,
                      !.pub[p] = [s.pub[p] EXCEPT !.st = "listed", !.flags = @ \cup {"LOCAL"}, !.ackReq = ackReq]]
SetMulticast(p, on) ==
    /\ Calls("multicast") /\ Called
    /\ p \in s.owned /\ s.pub[p].st = "listed"
    /\ s' = [s EXCEPT !.mcast = TRUE,
                      !.pub[p].flags = IF on THEN @ \cup {"MULTICAST"} ELSE @ \ {"MULTICAST"}]

\* DPS_PublishBufs up to DPS_SerializePub; a negative ttl cancels what is retained.
Publishable(p, ttl) ==
    /\ p \in s.owned /\ s.pub[p].st = "listed" /\ "LOCAL" \in s.pub[p].flags
    /\ ttl < 0 => "RETAINED" \in s.pub[p].flags
    /\ app # NULL => s.req[app].pub # p       \* one thread publishes it at a time
    /\ Spare(s, 2)
PublishBegins(t, p, ttl, r) ==
    [t EXCEPT !.pub[p] = [t.pub[p] EXCEPT !.refs = @ + 1, !.seq = @ + 1, !.ttl = Larger(ttl, 0), !.flags =
                            CASE ttl < 0 -> @ \cup {"EXPIRED"}
                              [] ttl = 0 -> @ \ {"RETAINED", "EXPIRED"}
                              [] ttl > 0 -> (@ \ {"EXPIRED"}) \cup {"RETAINED"}],
              !.req[r] = [t.req[r] EXCEPT !.st = "live", !.pub = p, !.seq = t.pub[p].seq + 1,
                                   !.ttl = Larger(ttl, 0), !.cb = TRUE]]
\* Mutation of PublishEnds: nothing wakes the loop.
PublishEndsBug(t, r) ==
    PublicationDecRef([t EXCEPT !.pub[t.req[r].pub].sendQ = Append(@, r), !.req[r].refs = @ + 1],
                      t.req[r].pub)
PublishEnds(t, r) ==
    PublicationDecRef(Async([t EXCEPT !.pub[t.req[r].pub].sendQ = Append(@, r), !.req[r].refs = @ + 1],
                            "pubs"), t.req[r].pub)
\* A plain publication keeps the lock,
PublishBufs(p, ttl) ==
    /\ Calls("publish") /\ Called /\ Publishable(p, ttl)
    /\ \E r \in Fresh(Unused(s.req)) : s' = PublishEnds(PublishBegins(s, p, ttl, r), r)
\* one that is signed or encrypted gives it up for the application's key callbacks,
PublishSealed(p, ttl) ==
    /\ Calls("seal") /\ Unlocked /\ app = NULL /\ Publishable(p, ttl) /\ UNCHANGED <<loop, now>>
    /\ \E r \in Fresh(Unused(s.req)) : s' = PublishBegins(s, p, ttl, r) /\ app' = r
\* which may fail.
Sealed ==
    /\ app # NULL /\ Unlocked /\ app' = NULL /\ UNCHANGED <<loop, now>>
    /\ \/ s' = PublishEnds(s, app)
       \/ s' = PublicationDecRef([s EXCEPT !.req[app].st = "rejected"], s.req[app].pub)

DestroyPublication(p) ==
    /\ Calls("destroy") /\ Called /\ p \in s.owned
    /\ s' = [FreePublication(s, p) EXCEPT !.owned = @ \ {p}]

Subscribe(x) ==
    /\ Calls("subscribe") /\ Called /\ s.sub[x].st = "unused"
    /\ s' = [s EXCEPT !.subscriptions = <<x>> \o @, !.sub[x].st = "listed"]
DestroySubscription(x) ==
    /\ Calls("unsubscribe") /\ Called /\ s.sub[x].st = "listed"
    /\ s' = FreeSubscription(s, x)

\* What a handler was given: the publication, or the copy of a local one.
Given == IF ~InCallback \/ Top.k # "handlers" THEN {}
         ELSE {IF Top.copy # NULL THEN Top.copy ELSE s.req[Top.req].pub}
CopyPublication(p) ==
    /\ Calls("copy") /\ Called /\ p \in Given /\ Spare(s, 0)
    /\ \E c \in Fresh(Unused(s.pub) \cap Others) :
          s' = [s EXCEPT !.pub[c] = CopyOf(s.pub[p], s.pub[p].seq), !.owned = @ \cup {c}]
\* DPS_AckPublicationBufs, CreateAck and DPS_QueuePublicationAck
AckPublication(p) ==
    /\ Calls("ack") /\ Called /\ p \in Given \cup s.owned /\ s.pub[p].seq > 0
    /\ "LOCAL" \notin s.pub[p].flags
    /\ \E dest \in PublishersForAck(s, s.pub[p].id), a \in Fresh(Unused(s.ack)) :
             s' = Async([PublicationIncRef(s, p) EXCEPT
                           !.ack[a] = [st |-> "live", pub |-> p, seq |-> s.pub[p].seq, dest |-> dest],
                           !.ackQueue = Append(@, a)], "acks")

\* StopNode: everything that is queued is completed, and the loop runs until what the
\* sends still hold is released.
StopNode ==
    /\ "stop" \in s.scenario.calls /\ loop = <<>> /\ app = NULL /\ s.state = "RUNNING" /\ UNCHANGED <<loop, app, now>>
    /\ LET t == [s EXCEPT !.state = "STOPPING", !.async = @ \cap {"free"}, !.timer = NULL,
                          !.mcast = FALSE, !.remotes = {}, !.ackQueue = <<>>]
           u == FoldLeft(AckPublicationCompletion, t, s.ackQueue)
       IN  s' = FoldLeft(FreePublication, FoldLeft(FreeSubscription, u, u.subscriptions), u.publications)
Stopped ==
    /\ s.state = "STOPPING" /\ loop = <<>> /\ UNCHANGED <<loop, app, now>>
    /\ s.publications \o s.freePubs \o s.subscriptions \o s.freeSubs = <<>>
    /\ s' = [s EXCEPT !.state = "STOPPED"]
\* uv_run in StopNode may wait for an event that never comes, which StopsInTheEnd is about;
\* and a program that ended does nothing more.
Waits == (s.state \in {"STOPPING", "STOPPED"} \/ At("pubs", "ended")) /\ UNCHANGED vars

--------------------------------------------------------------------------------
(* The specification. *)

Running == \/ WalkHandlers \/ Decrypted \/ HandlerReturns \/ DecodeReturns
           \/ SendNext \/ SendRequest \/ SendToCopy \/ SendRemotes \/ SendDone \/ SendExpired
           \/ AckHandlerReturns \/ SendAcknowledgement \/ AckLoopedBack \/ SendAcksDone
NetSends == \E m \in BagToSet(s.net), ok \in BOOLEAN : NetSendComplete(m, ok)
Receives == \/ \E m \in s.scenario.messages : ReceivePublication(m)
            \/ \E m \in s.acks : ReceiveAck(m)
            \/ UpdatePubs
Application ==
    \/ CreatePublication
    \/ \E p \in Locals, ackReq \in BOOLEAN : InitPublication(p, ackReq)
    \/ \E p \in Locals, on \in BOOLEAN : SetMulticast(p, on)
    \/ \E p \in Locals, ttl \in s.scenario.ttls : PublishBufs(p, ttl) \/ PublishSealed(p, ttl)
    \/ \E p \in Pubs : DestroyPublication(p) \/ CopyPublication(p) \/ AckPublication(p)
    \/ \E x \in s.scenario.subs : Subscribe(x) \/ DestroySubscription(x)
    \/ StopNode

LoopWork == Running \/ SendPubs \/ SendAcks \/ FreeTask \/ NetSends \/ Stopped
Next == LoopWork \/ Receives \/ Tick \/ Sealed \/ Application \/ Waits

\* The event loop's thread does not stop while it has something to do besides receiving,
\* and the application's key callback returns.
Fairness == WF_vars(LoopWork) /\ WF_vars(Sealed)

Spec == Init /\ [][Next]_vars /\ Fairness

--------------------------------------------------------------------------------
(* Properties. *)

Occurs(x, q) == Cardinality({i \in DOMAIN q : q[i] = x})
Frames(Test(_)) == Cardinality({i \in DOMAIN loop : Test(loop[i])})
Posted(Test(_)) == Cardinality({c \in UNION {{m} \X (1 .. s.net[m]) : m \in BagToSet(s.net)} : Test(c[1])})

\* Every reference count is the number of holders, in every interleaving: of a request,
\* its queue, its sends, and the two places SendPubs keeps one in; of a publication, its
\* sends and acknowledgements, the tasks on the loop's stack and the application's
\* DPS_PublishBufs.
RequestRefs ==
    \A r \in Reqs : s.req[r].st = "live" => s.req[r].refs =
        LET p == s.req[r].pub
        IN  Occurs(r, s.pub[p].sendQ \o s.pub[p].retQ) + Posted(LAMBDA m : m.kind = "pub" /\ m.of = r)
            + Frames(LAMBDA f : f.k = "pubs" /\ f.expired = r)
            + Frames(LAMBDA f : f.k = "pubs" /\ f.at = "looping_back" /\ f.req = r)
PublicationRefs ==
    \A p \in Pubs : s.pub[p].st # "unused" => s.pub[p].refs =
        Posted(LAMBDA m : m.kind = "pub" /\ s.req[m.of].pub = p)
        + Cardinality({a \in Acks : s.ack[a].st = "live" /\ s.ack[a].pub = p})
        + Frames(LAMBDA f : f.k \in {"decode", "pubs", "ack"} /\ f.pub = p)
        + (IF app # NULL /\ s.req[app].pub = p THEN 1 ELSE 0)
RefExact == RequestRefs /\ PublicationRefs

Valid(f, x) == x # NULL => f[x].st \notin {"unused", "gone"}
\* What a queue, a send or an unfinished DPS_PublishBufs points to is a request that was
\* not freed, and no assertion that a request has a reference left fails.
RequestsLive ==
    /\ "request_refCount" \notin s.fault
    /\ \A p \in Pubs : \A r \in ToSet(s.pub[p].sendQ \o s.pub[p].retQ) : s.req[r].st = "live" /\ s.req[r].pub = p
    /\ \A m \in BagToSet(s.net) : m.kind = "pub" => s.req[m.of].st = "live"
    /\ app # NULL => s.req[app].st = "live"
\* A publication is on the one list its state and PUB_FLAG_WAS_FREED say; no task, queue,
\* send, acknowledgement or application keeps a pointer to memory that was freed, next
\* pointers read before a window included, though the handler that runs in it destroys what
\* they point to; and no assertion on a reference count fails.
MemorySafe ==
    /\ s.fault \subseteq {"null_queue"} /\ RequestsLive
    /\ \A p \in Pubs : LET o == s.pub[p] IN
         /\ (o.st = "listed") = (p \in ToSet(s.publications)) /\ (o.st = "freed") = (p \in ToSet(s.freePubs))
         /\ (o.st \in {"freed", "gone"}) = ("WAS_FREED" \in o.flags)
         /\ o.st = "gone" => o.sendQ \o o.retQ = <<>>
    /\ \A m \in BagToSet(s.net) :
         /\ m.kind = "pub" => Valid(s.pub, s.req[m.of].pub)
         /\ m.kind = "ack" => s.ack[m.of].st = "live" /\ Valid(s.pub, s.ack[m.of].pub)
    /\ \A a \in Acks : s.ack[a].st = "live" => Valid(s.pub, s.ack[a].pub)
    /\ s.state = "RUNNING" => \A p \in s.owned : Valid(s.pub, p)
    /\ app # NULL => Valid(s.pub, s.req[app].pub)
    /\ \A i \in DOMAIN loop : LET f == loop[i] IN
         CASE f.k = "handlers" -> Valid(s.sub, f.sub) /\ Valid(s.sub, f.next) /\ Valid(s.pub, f.copy)
                                  /\ Valid(s.req, f.req) /\ Valid(s.pub, s.req[f.req].pub)
           [] f.k = "decode" -> Valid(s.pub, f.pub) /\ Valid(s.req, f.req)
           [] f.k = "pubs" -> Valid(s.pub, f.pub) /\ Valid(s.pub, f.next) /\ Valid(s.req, f.req)
                              /\ Valid(s.req, f.expired)
           [] f.k = "ack" -> Valid(s.pub, f.pub)
           [] f.k = "acks" -> Valid(s.ack, f.ack)

\* What SendPubs visits has queues.  It may be a copy: a handler that destroyed its copy, and
\* then the publication after the one being sent, leaves the walk on node->freePubs.
QueuesInitialised == "null_queue" \notin s.fault

\* DPS_PublishBufsComplete is called once for every request that DPS_PublishBufs
\* accepted, before its buffers are given up, and never for one that it refused.
PublishOnce ==
    \A r \in Reqs : s.req[r].calls = IF s.req[r].cb /\ s.req[r].st = "gone" THEN 1 ELSE 0

\* A publication retains one request, which is older than those waiting to be sent.
RetainsOne ==
    \A p \in Pubs : LET q == s.pub[p].retQ \o s.pub[p].sendQ
                    IN  /\ Len(s.pub[p].retQ) <= 1
                        /\ \A i \in 1 .. Len(q) - 1 : s.req[q[i]].seq < s.req[q[i + 1]].seq

\* A publication with time to live is not marked expired before its time, unless it is
\* cancelled: DPS_UpdatePubs finds its queues empty while DPS_SerializePub has the lock
\* released, and from then on every subscriber is sent its expiration.
NotExpiredEarly ==
    \A p \in Locals, r \in Reqs :
        /\ s.pub[p].st = "listed" /\ s.req[r].st = "live" /\ r # app
        /\ s.req[r].pub = p /\ s.req[r].seq = s.pub[p].seq /\ s.req[r].ttl > 0
        /\ s.req[r].expires = 0 \/ s.req[r].expires > now
        => "EXPIRED" \notin s.pub[p].flags

\* Whatever is retained has a timer set for it: SendPubs sets the timer for what it has
\* just sent, and replaces the time set for another publication.
TimerCovers ==
    loop = <<>> /\ "pubs" \notin s.async /\ s.state = "RUNNING" =>
        \A p \in ToSet(s.publications) : \A r \in ToSet(s.pub[p].retQ) :
            s.timer # NULL /\ s.timer <= s.req[r].expires

\* A request with no time to live completes, whatever is destroyed, fails or is
\* published meanwhile, and every request does once the node stops.
Pending(r) == s.req[r].st = "live" /\ s.req[r].cb /\ (s.req[r].ttl = 0 \/ s.state = "STOPPING")
PublishCompletes == []<>(\A r \in Reqs : ~Pending(r))

\* StopNode's loop ends: nothing it waits for is kept by something that waits for it.
StopsInTheEnd == s.state = "STOPPING" ~> s.state = "STOPPED"

================================================================================
