-------------------------- MODULE PublicationsProofs ---------------------------
(***************************************************************************)
(* Theorems about Publications, for any publications, requests, remotes    *)
(* and scenarios: every step of the loop, of the net and of the            *)
(* application keeps Inv, hence a request is completed once, whatever the  *)
(* order of its sends, its expiry, the end of its publication and the      *)
(* shutdown of the node.                                                   *)
(***************************************************************************)
EXTENDS PublicationLemmas


--------------------------------------------------------------------------------
(* One request of a send queue. *)

\* A frame for the frames there were, in another state.
LEMMA InvAround ==
    ASSUME NEW t, NEW l, NEW a, Inv(t, l, a), NEW u, NEW S, S \subseteq Reqs, a \notin S, Around(t, u, S),
           NEW h, NEW n, Good(u, h, n), NEW g, Single(g), FrameOK(u, g),
           \A r \in Reqs : h[r] = Holds(g, r) /\ n[r] = Uses(g, r) + Mine(a, r)
    PROVE  Inv(u, <<g>>, a)
<1>1. AppOK(u, a)
  BY AroundApp DEF Inv
<1>2. ReqsTied(u)
  BY AroundTied DEF Inv
<1>3. AcksTied(u)
  BY DEF Inv, Around
<1> QED BY <1>1, <1>2, <1>3, InvSingle
LEMMA InvGone ==
    ASSUME NEW t, NEW l, NEW a, Inv(t, l, a), NEW u, NEW S, S \subseteq Reqs, a \notin S, Around(t, u, S),
           NEW h, NEW n, Good(u, h, n), \A r \in Reqs : h[r] = 0 /\ n[r] = Mine(a, r)
    PROVE  Inv(u, <<>>, a)
<1>1. AppOK(u, a)
  BY AroundApp DEF Inv
<1>2. ReqsTied(u)
  BY AroundTied DEF Inv
<1>3. AcksTied(u)
  BY DEF Inv, Around
<1> QED BY <1>1, <1>2, <1>3, InvNone

\* What a frame of SendPubs counts.
LEMMA PubsCount ==
    ASSUME NEW f, IsPubs(f), NEW r \in Reqs
    PROVE  /\ Holds(f, r) = (IF f.expired = r THEN 1 ELSE 0) + (IF f.at = "looping_back" /\ f.req = r THEN 1 ELSE 0)
           /\ Uses(f, r) = IF f.at = "remotes" /\ f.req = r THEN 1 ELSE 0
BY DEF IsPubs, Holds, Uses

\* A frame of SendPubs goes on to another place, to a request, with another status.
LEMMA PubsAt ==
    ASSUME NEW f, IsPubs(f), f.at \notin {"next", "expiring"}, NEW at \in {"queue", "remotes", "done", "looping_back"},
           NEW r, r \in Reqs \/ (r = f.req /\ (at \in {"queue", "done"} \/ f.at \in {"remotes", "looping_back"}))
    PROVE  LET g == [f EXCEPT !.at = at, !.req = r]
           IN  IsPubs(g) /\ g.at = at /\ g.req = r /\ g.expired = f.expired /\ g.pub = f.pub /\ g.k = "pubs"
BY DEF IsPubs
LEMMA PubsHere ==
    ASSUME NEW f, IsPubs(f), f.at \notin {"next", "expiring"}, NEW at \in {"queue", "remotes", "done", "looping_back"},
           at \in {"queue", "done"} \/ f.at \in {"remotes", "looping_back"}
    PROVE  LET g == [f EXCEPT !.at = at]
           IN  IsPubs(g) /\ g.at = at /\ g.req = f.req /\ g.expired = f.expired /\ g.pub = f.pub /\ g.k = "pubs"
BY DEF IsPubs

\* The status of a request that belongs to no frame but this one.
LEMMA InvMarked ==
    ASSUME NEW t, NEW f, NEW a, IsPubs(f), Inv(t, <<f>>, a), NEW r \in Reqs, t.req[r].st # "unused", a # r,
           NEW status \in {"NO_ROUTE", "OK", "FAILED"}
    PROVE  Inv(Marked(t, r, status), <<f>>, a)
<1> DEFINE u == Marked(t, r, status)
<1>1. /\ t \in StateType /\ Good(t, HeldBy(<<f>>), UsedBy(<<f>>, a)) /\ FrameOK(t, f)
      /\ \A x \in Reqs : HeldBy(<<f>>)[x] = Holds(f, x) /\ UsedBy(<<f>>, a)[x] = Uses(f, x) + Mine(a, x)
  BY HeldOne, UsedOne, FramedTuples DEF Inv, Good
<1>2. /\ Good(u, HeldBy(<<f>>), UsedBy(<<f>>, a)) /\ u.pub = t.pub /\ u.req[r].st = t.req[r].st /\ Apart(t, u)
      /\ OnlyReq(t, u, r)
  BY <1>1, MarkedIs
<1>3. u.req[r].pub = t.req[r].pub
  <2>1. t.req \in [Reqs -> ReqType]
    BY <1>1, Parts
  <2> DEFINE g == [t.req EXCEPT ![r] = [t.req[r] EXCEPT !.status = status]]
  <2>2. g[r].pub = t.req[r].pub
    BY <2>1 DEF ReqType
  <2> HIDE DEF g
  <2>3. u.req = g
    <3>1. u = [t EXCEPT !.req = g]
      BY DEF Marked, g
    <3> QED BY <1>1, <3>1 DEF StateType
  <2> QED BY <2>2, <2>3
<1>4. \A x \in Reqs \ {r} : u.req[x] = t.req[x]
  <2>1. t.req \in [Reqs -> ReqType]
    BY <1>1, Parts
  <2> QED BY <1>2, <2>1 DEF OnlyReq
<1> HIDE DEF u
<1>5. Around(t, u, {r})
  <2>1. u.ack = t.ack /\ u.ackQueue = t.ackQueue /\ u.net = t.net
    BY <1>2 DEF Apart
  <2>2. PubsStay(t, u) /\ SamePlace(t.req[r], u.req[r])
    BY <1>2, <1>3 DEF PubsStay, SamePlace
  <2> QED BY <1>4, <2>1, <2>2, OnlyAround
<1>6. FrameOK(u, f)
  <2>1. IsFrame(f) /\ f.k # "decode"
    BY DEF IsFrame, IsPubs
  <2> QED BY <1>1, <1>5, <2>1, AroundFrame
<1>7. Inv(u, <<f>>, a)
  BY <1>1, <1>2, <1>5, <1>6, InvAround DEF Single
<1> QED BY <1>7 DEF u

\* The message that is looped back.
LEMMA SerializeIs ==
    ASSUME NEW t \in StateType, NEW r \in Reqs, NEW p \in Pubs, now \in Nat PROVE SerializePub(t, r, p) \in PubMsg
<1>1. t.req[r] \in ReqType /\ t.pub[p] \in PubType
  BY Parts
<1>2. /\ t.pub[p].id \in PubIds \cup {NULL} /\ t.req[r].seq \in Int /\ t.pub[p].ackReq \in BOOLEAN /\ t.req[r].body \in Bodies
      /\ t.req[r].expires \in Int
  BY <1>1, PubParts, ReqParts
<1>3. ReqTTL(t, r) \in Int
  BY <1>2 DEF ReqTTL
<1> DEFINE x == IF "RETAINED" \notin t.pub[p].flags THEN 0 ELSE IF "EXPIRED" \in t.pub[p].flags THEN -1 ELSE ReqTTL(t, r)
<1>4. x \in Int
  BY <1>3
<1>5. SerializePub(t, r, p) = [id |-> t.pub[p].id, seq |-> t.req[r].seq, ackReq |-> t.pub[p].ackReq, from |-> Loopback,
                               body |-> t.req[r].body, ttl |-> x]
  BY DEF SerializePub
<1> HIDE DEF x
<1> QED BY <1>2, <1>4, <1>5 DEF PubMsg, Sources

\* The reference that DPS_LoopbackSend takes.
LEMMA LoopHold ==
    ASSUME NEW t, NEW f, NEW a, IsPubs(f), f.at = "remotes", Inv(t, <<f>>, a), NEW r \in Reqs, r = f.req, a # r
    PROVE  Inv(SetReq(t, r, [t.req[r] EXCEPT !.refs = t.req[r].refs + 1]), <<[f EXCEPT !.at = "looping_back"]>>, a)
<1> DEFINE w == [t.req[r] EXCEPT !.refs = t.req[r].refs + 1]
           u == SetReq(t, r, w)
           g == [f EXCEPT !.at = "looping_back"]
           h == HeldBy(<<f>>)
           n == UsedBy(<<f>>, a)
<1>1. /\ t \in StateType /\ Good(t, h, n) /\ FrameOK(t, f)
      /\ \A x \in Reqs : h[x] = Holds(f, x) /\ n[x] = Uses(f, x) + Mine(a, x)
  BY HeldOne, UsedOne, FramedTuples DEF Inv, Good
<1>2. Counts(h) /\ Counts(n) /\ h[r] \in Nat /\ n[r] \in Nat
  BY CountsAre DEF Inv, Good
<1>3. n[r] = 1
  BY <1>1, PubsCount DEF Mine
<1>4. w \in ReqType /\ SameUse(t.req[r], w) /\ w.refs = t.req[r].refs + 1
  <2>1. t.req[r] \in ReqType
    BY <1>1, Parts
  <2> QED BY <2>1 DEF ReqType, SameUse
<1> HIDE DEF w
<1>5. Good(u, Plus(h, r), Minus(n, r))
  BY <1>1, <1>3, <1>4, Hold
<1>6. IsPubs(g) /\ g.at = "looping_back" /\ g.req = r /\ g.expired = f.expired /\ g.pub = f.pub /\ g.k = "pubs"
  BY PubsHere
<1> HIDE DEF g
<1>7. u \in StateType /\ Apart(t, u) /\ u.pub = t.pub /\ u.req[r] = w /\ \A x \in Reqs \ {r} : u.req[x] = t.req[x]
  BY <1>1, <1>4, SetReqIs
<1> HIDE DEF u
<1>8. Around(t, u, {r})
  <2>1. u.ack = t.ack /\ u.ackQueue = t.ackQueue /\ u.net = t.net
    BY <1>7 DEF Apart
  <2>2. PubsStay(t, u) /\ SamePlace(t.req[r], u.req[r])
    BY <1>4, <1>7 DEF PubsStay, SamePlace, SameUse
  <2> QED BY <1>7, <2>1, <2>2, OnlyAround
<1>9. FrameOK(u, g)
  <2>1. t.req[r].pub = f.pub
    BY <1>1 DEF FrameOK, IsPubs
  <2> QED BY <1>4, <1>6, <1>7, <2>1 DEF FrameOK, SameUse
<1>10. Plus(h, r)[r] = h[r] + 1 /\ (\A x \in Reqs \ {r} : Plus(h, r)[x] = h[x]) /\ Minus(n, r)[r] = n[r] - 1
       /\ \A x \in Reqs \ {r} : Minus(n, r)[x] = n[x]
  BY <1>2, <1>3, PlusIs, MinusIs
<1>11. ASSUME NEW x \in Reqs PROVE Plus(h, r)[x] = Holds(g, x) /\ Minus(n, r)[x] = Uses(g, x) + Mine(a, x)
  <2>1. Holds(f, x) = (IF f.expired = x THEN 1 ELSE 0) + 0 /\ Uses(f, x) = IF f.req = x THEN 1 ELSE 0
    BY PubsCount
  <2>2. Holds(g, x) = (IF f.expired = x THEN 1 ELSE 0) + (IF r = x THEN 1 ELSE 0) /\ Uses(g, x) = 0
    BY <1>6, PubsCount
  <2>3. Mine(a, x) \in Nat /\ (x = r => Mine(a, x) = 0)
    BY UsesType DEF Mine
  <2>4. h[x] = Holds(f, x) /\ n[x] = Uses(f, x) + Mine(a, x)
    BY <1>1
  <2> HIDE DEF h, n
  <2>5. CASE x = r
    BY <1>10, <2>1, <2>2, <2>3, <2>4, <2>5
  <2>6. CASE x # r
    BY <1>10, <2>1, <2>2, <2>3, <2>4, <2>6
  <2> QED BY <2>5, <2>6
<1>12. Inv(u, <<g>>, a)
  BY <1>5, <1>6, <1>8, <1>9, <1>11, InvAround DEF Single
<1> QED BY <1>12 DEF u, w, g

\* A frame of SendPubs goes to another place, with another request.
Goes(f, g, at, r) == IsPubs(g) /\ g.at = at /\ g.req = r /\ g.expired = f.expired /\ g.pub = f.pub /\ g.k = "pubs"
LEMMA GoesAt ==
    ASSUME NEW f, IsPubs(f), f.at \notin {"next", "expiring"}, NEW at \in {"queue", "remotes", "done", "looping_back"},
           NEW r \in Reqs
    PROVE  Goes(f, [f EXCEPT !.at = at, !.req = r], at, r)
BY DEF IsPubs, Goes

\* A request that was in the frame's queue is now the frame's.
LEMMA TakenStep ==
    ASSUME NEW t, NEW f, NEW a, Inv(t, <<f>>, a), IsPubs(f), f.at = "queue", NEW p \in Pubs, p = f.pub, NEW r \in Reqs,
           UsedBy(<<f>>, a)[r] = 0, t.req[r].pub = p, NEW w \in ReqType, w.st = "live", w.pub = p, t.req[r].st = "live",
           NEW o \in PubType, o.st = t.pub[p].st, Good(SetBoth(t, r, w, p, o), HeldBy(<<f>>), Plus(UsedBy(<<f>>, a), r)),
           NEW g, Goes(f, g, "remotes", r)
    PROVE  Inv(SetBoth(t, r, w, p, o), <<g>>, a) /\ a # r
<1> DEFINE h == HeldBy(<<f>>)
           n == UsedBy(<<f>>, a)
           u == SetBoth(t, r, w, p, o)
<1>1. /\ t \in StateType /\ Good(t, h, n) /\ Counts(h) /\ Counts(n) /\ Good(u, h, Plus(n, r)) /\ n[r] = 0
      /\ \A x \in Reqs : h[x] = Holds(f, x) /\ n[x] = Uses(f, x) + Mine(a, x)
  BY HeldOne, UsedOne DEF Inv, Good
<1>9. /\ u \in StateType /\ Apart(t, u) /\ u.req[r] = w /\ (\A x \in Reqs \ {r} : u.req[x] = t.req[x])
      /\ u.pub[p] = o /\ \A x \in Pubs \ {p} : u.pub[x] = t.pub[x]
  BY <1>1, SetBothIs
<1> HIDE DEF u
<1>10. Around(t, u, {r})
  <2>1. u.ack = t.ack /\ u.ackQueue = t.ackQueue /\ u.net = t.net
    BY <1>9 DEF Apart
  <2>2. PubsStay(t, u) /\ SamePlace(t.req[r], u.req[r])
    BY <1>9 DEF PubsStay, SamePlace
  <2> QED BY <1>9, <2>1, <2>2, OnlyAround
<1>11. a # r
  BY NotApp
<1>12. IsPubs(g) /\ g.at = "remotes" /\ g.req = r /\ g.expired = f.expired /\ g.pub = f.pub /\ g.k = "pubs"
  BY DEF Goes
<1>13. FrameOK(u, g)
  BY <1>9, <1>12 DEF FrameOK
<1>14. ASSUME NEW x \in Reqs PROVE h[x] = Holds(g, x) /\ Plus(n, r)[x] = Uses(g, x) + Mine(a, x)
  <2>1. Holds(f, x) = (IF f.expired = x THEN 1 ELSE 0) + 0 /\ Uses(f, x) = 0
    BY PubsCount
  <2>2. Holds(g, x) = (IF f.expired = x THEN 1 ELSE 0) + 0 /\ Uses(g, x) = IF r = x THEN 1 ELSE 0
    BY <1>12, PubsCount
  <2>3. Mine(a, x) \in Nat
    BY UsesType
  <2>4. h[x] = Holds(f, x) /\ n[x] = Uses(f, x) + Mine(a, x)
    BY <1>1
  <2>5. Plus(n, r)[r] = n[r] + 1 /\ \A y \in Reqs \ {r} : Plus(n, r)[y] = n[y]
    BY <1>1, PlusIs
  <2> HIDE DEF h, n
  <2>6. CASE x = r
    BY <2>1, <2>2, <2>3, <2>4, <2>5, <2>6
  <2>7. CASE x # r
    BY <2>1, <2>2, <2>3, <2>4, <2>5, <2>7
  <2> QED BY <2>6, <2>7
<1>15. Inv(u, <<g>>, a)
  <2>1. a \notin {r} /\ {r} \subseteq Reqs /\ Single(g)
    BY <1>11, <1>12 DEF Single
  <2> HIDE DEF h, n
  <2>2. Good(u, h, Plus(n, r))
    BY <1>1
  <2> QED BY <1>10, <1>13, <1>14, <2>1, <2>2, InvAround
<1> QED BY <1>11, <1>15 DEF u

\* Of the request that is taken from a queue, the frame is what uses it.
Taken(q) == [q EXCEPT !.refs = q.refs - 1, !.expires = IF q.expires = 0 THEN now + q.ttl ELSE q.expires]
LEMMA TakenIs ==
    ASSUME NEW q \in ReqType, now \in Nat
    PROVE  Taken(q) \in ReqType /\ Taken(q).st = q.st /\ Taken(q).pub = q.pub /\ Taken(q).calls = q.calls /\ Taken(q).cb = q.cb
           /\ Taken(q).refs = q.refs - 1
<1> DEFINE e == IF q.expires = 0 THEN now + q.ttl ELSE q.expires
           k == q.refs - 1
<1>1. q.expires \in Int /\ q.ttl \in Int /\ q.refs \in Int
  BY ReqParts
<1>2. e \in Int /\ k \in Int
  BY <1>1
<1> HIDE DEF e, k
<1>3. LET x == [q EXCEPT !.refs = k, !.expires = e]
      IN  x \in ReqType /\ x.st = q.st /\ x.pub = q.pub /\ x.calls = q.calls /\ x.cb = q.cb /\ x.refs = k
  BY <1>2 DEF ReqType
<1> QED BY <1>3 DEF e, k, Taken
LEMMA DequeueIs ==
    ASSUME NEW t \in StateType, NEW p \in Pubs, NEW r \in Reqs
    PROVE  Dequeue(t, p, r) = SetBoth(t, r, Taken(t.req[r]), p, [t.pub[p] EXCEPT !.sendQ = Tail(t.pub[p].sendQ)])
<1> DEFINE o == [t.pub[p] EXCEPT !.sendQ = Tail(t.pub[p].sendQ)]
           w == Taken(t.req[r])
           P == [t.pub EXCEPT ![p] = o]
           R == [t.req EXCEPT ![r] = w]
<1>1. t.pub \in [Pubs -> PubType] /\ t.req \in [Reqs -> ReqType] /\ t.pub[p] \in PubType /\ t.req[r] \in ReqType
  BY Parts
<1>2. w = [t.req[r] EXCEPT !.refs = @ - 1, !.expires = IF @ = 0 THEN now + t.req[r].ttl ELSE @]
  BY <1>1 DEF Taken, ReqType
<1>3. Dequeue(t, p, r) = [t EXCEPT !.pub = [t.pub EXCEPT ![p] = [t.pub[p] EXCEPT !.sendQ = Tail(t.pub[p].sendQ)]],
          !.req = [t.req EXCEPT ![r] = [t.req[r] EXCEPT !.refs = @ - 1, !.expires = IF @ = 0 THEN now + t.req[r].ttl ELSE @]]]
  BY <1>1 DEF Dequeue, StateType, PubType
<1> HIDE DEF w
<1>4. Dequeue(t, p, r) = [t EXCEPT !.pub = P, !.req = R]
  BY <1>2, <1>3
<1>5. SetBoth(t, r, w, p, o) = [t EXCEPT !.req = R, !.pub = P]
  BY DEF SetBoth
<1> HIDE DEF o, P, R
<1>6. [t EXCEPT !.pub = P, !.req = R] = [t EXCEPT !.req = R, !.pub = P]
  BY DEF StateType
<1> QED BY <1>4, <1>5, <1>6 DEF o, w

LEMMA DequeueStep ==
    ASSUME NEW t, NEW f, NEW a, Inv(t, <<f>>, a), IsPubs(f), f.at = "queue", now \in Nat, t.pub[f.pub].sendQ # <<>>
    PROVE  LET p == f.pub
               r == Head(t.pub[p].sendQ)
               g == [f EXCEPT !.at = "remotes", !.req = r]
               u == Dequeue(t, p, r)
           IN  Inv(u, <<g>>, a) /\ Goes(f, g, "remotes", r) /\ r \in Reqs /\ a # r /\ u.req[r].st # "unused" /\ p \in Pubs
<1> DEFINE p == f.pub
           r == Head(t.pub[p].sendQ)
           g == [f EXCEPT !.at = "remotes", !.req = r]
           h == HeldBy(<<f>>)
           n == UsedBy(<<f>>, a)
           w == Taken(t.req[r])
           o == [t.pub[p] EXCEPT !.sendQ = Tail(t.pub[p].sendQ)]
<1>1. t \in StateType /\ Good(t, h, n)
  BY DEF Inv, Good
<1>2. p \in Pubs
  BY DEF IsPubs
<1>3. /\ r \in Reqs /\ t.req[r].st = "live" /\ t.req[r].pub = p /\ h[r] = 0 /\ n[r] = 0
      /\ \A x \in ReqType : x.st = "live" /\ x.pub = p /\ x.calls = t.req[r].calls /\ x.cb = t.req[r].cb
                            /\ x.refs = t.req[r].refs - 1
             => Good(SetBoth(t, r, x, p, o), h, Plus(n, r))
  <2>0. t.pub[p].sendQ # <<>>
    OBVIOUS
  <2> HIDE DEF h, n, p
  <2>1. LET e == Head(t.pub[p].sendQ)
        IN  /\ e \in Reqs /\ t.req[e].st = "live" /\ t.req[e].pub = p /\ h[e] = 0 /\ n[e] = 0
            /\ t.req[e].refs > 0
            /\ \A x \in ReqType : x.st = "live" /\ x.pub = p /\ x.calls = t.req[e].calls /\ x.cb = t.req[e].cb
                                  /\ x.refs = t.req[e].refs - 1
                   => Good(SetBoth(t, e, x, p, [t.pub[p] EXCEPT !.sendQ = Tail(t.pub[p].sendQ)]), h, Plus(n, e))
    BY ZenonT(40), <1>1, <1>2, <2>0, TakeSend
  <2> QED BY <2>1
<1>4. t.req[r] \in ReqType /\ t.pub[p] \in PubType
  BY <1>1, <1>2, <1>3, Parts
<1>5. w \in ReqType /\ w.st = "live" /\ w.pub = p /\ w.calls = t.req[r].calls /\ w.cb = t.req[r].cb /\ w.refs = t.req[r].refs - 1
  BY <1>3, <1>4, TakenIs
<1>6. Dequeue(t, p, r) = SetBoth(t, r, w, p, o)
  BY <1>1, <1>2, <1>3, DequeueIs
<1>7. o \in PubType /\ o.st = t.pub[p].st
  <2>1. Tail(t.pub[p].sendQ) \in Seq(Reqs)
    BY <1>4, PubParts
  <2> QED BY <1>4, <2>1 DEF PubType
<1>8. Goes(f, g, "remotes", r)
  BY <1>3, GoesAt
<1> HIDE DEF r, w, o, g, h, n
<1>9. Good(SetBoth(t, r, w, p, o), h, Plus(n, r))
  BY <1>3, <1>5
<1>10. Inv(SetBoth(t, r, w, p, o), <<g>>, a) /\ a # r
  BY <1>2, <1>3, <1>5, <1>7, <1>8, <1>9, TakenStep DEF h, n
<1>11. SetBoth(t, r, w, p, o).req[r].st # "unused"
  BY <1>1, <1>2, <1>3, <1>5, <1>7, SetBothIs
<1> QED BY <1>2, <1>3, <1>6, <1>8, <1>10, <1>11 DEF r, g

LEMMA MarkedDef ==
    ASSUME NEW t \in StateType, NEW r \in Reqs, NEW status
    PROVE  [t EXCEPT !.req[r].status = status] = Marked(t, r, status)
<1>1. t.req \in [Reqs -> ReqType] /\ t.req[r] \in ReqType
  BY Parts
<1> QED BY <1>1 DEF Marked, StateType, ReqType
LEMMA HeldDef ==
    ASSUME NEW t \in StateType, NEW r \in Reqs
    PROVE  [t EXCEPT !.req[r].refs = @ + 1] = SetReq(t, r, [t.req[r] EXCEPT !.refs = t.req[r].refs + 1])
<1>1. t.req \in [Reqs -> ReqType] /\ t.req[r] \in ReqType
  BY Parts
<1> QED BY <1>1 DEF SetReq, StateType, ReqType

LEMMA LoopBackStep ==
    ASSUME NEW t, NEW f, Inv(t, <<f>>, app), IsPubs(f), f.at = "remotes", NEW r \in Reqs, r = f.req, app # r, now \in Nat,
           NEW p \in Pubs, t.req[r].st # "unused", Front(loop) = <<>>, LoopBack(t, p, r, f), app' = app
    PROVE  Inv(s', loop', app')
<1> DEFINE m == SerializePub(t, r, p)
<1>1. t \in StateType /\ Good(t, HeldBy(<<f>>), UsedBy(<<f>>, app))
  BY DEF Inv, Good
<1>2. m \in PubMsg
  BY <1>1, SerializeIs
<1> HIDE DEF m
<1>3. CASE TooLate(t, r, p)
  <2>1. s' = [t EXCEPT !.req[r].status = "OK"] /\ loop' = Append(Front(loop), f)
    BY <1>3 DEF LoopBack, Resume
  <2>2. s' = Marked(t, r, "OK")
    BY <1>1, <2>1, MarkedDef
  <2>3. loop' = <<f>>
    BY <2>1, Appends
  <2>4. Inv(Marked(t, r, "OK"), <<f>>, app)
    BY InvMarked
  <2> QED BY <2>2, <2>3, <2>4
<1>4. CASE ~TooLate(t, r, p) /\ Stale(t, m)
  <2> DEFINE u == Drop(t, m)
  <2>1. s' = [u EXCEPT !.req[r].status = "OK"] /\ loop' = Append(Front(loop), f)
    BY <1>4 DEF LoopBack, Resume, m
  <2>2. Fine(t, u, HeldBy(<<f>>), UsedBy(<<f>>, app))
    BY <1>1, <1>2, DropFine
  <2>3. Inv(u, <<f>>, app)
    BY <2>2, InvFine
  <2>4. u.req[r].st # "unused" /\ u \in StateType
    BY <2>2 DEF Fine, Calm, SameReq, Good
  <2> HIDE DEF u
  <2>5. s' = Marked(u, r, "OK")
    BY <2>1, <2>4, MarkedDef
  <2>6. loop' = <<f>>
    BY <2>1, Appends
  <2>7. Inv(Marked(u, r, "OK"), <<f>>, app)
    BY <2>3, <2>4, InvMarked
  <2> QED BY <2>5, <2>6, <2>7
<1>5. CASE ~TooLate(t, r, p) /\ ~Stale(t, m)
  <2> DEFINE u == SetReq(t, r, [t.req[r] EXCEPT !.refs = t.req[r].refs + 1])
             g == [f EXCEPT !.at = "looping_back"]
             e == [t EXCEPT !.req[r].refs = @ + 1]
  <2>1. DecodePublication(e, m, Append(Front(loop), g))
    BY <1>5 DEF LoopBack, m
  <2>2. e = u
    BY <1>1, HeldDef
  <2>3. Inv(u, <<g>>, app)
    BY LoopHold
  <2>4. IsPubs(g) /\ g.at = "looping_back"
    BY PubsHere
  <2> HIDE DEF u, g, e
  <2>5. Append(Front(loop), g) = <<g>>
    BY Appends
  <2>6. DecodePublication(u, m, <<g>>)
    BY <2>1, <2>2, <2>5
  <2>7. Caller(<<g>>)
    BY <2>4 DEF Caller
  <2> QED BY <1>2, <2>3, <2>6, <2>7, DecodeStep
<1> QED BY <1>3, <1>4, <1>5

LEMMA SendRequestStep == ASSUME Inv(s, loop, app), now \in Nat, SendRequest PROVE Inv(s', loop', app')
<1> DEFINE f == Top
           p == f.pub
<1>1. loop # <<>> /\ f.k = "pubs" /\ f.at = "queue" /\ app' = app
  BY DEF SendRequest, At
<1>2. loop = <<f>> /\ IsPubs(f)
  BY <1>1, TopPubs DEF Inv
<1>3. s \in StateType /\ Inv(s, <<f>>, app)
  BY <1>2 DEF Inv, Good
<1>4. Front(loop) = <<>>
  BY <1>2, Fronts
<1>5. CASE s.pub[p].sendQ = <<>>
  <2> DEFINE g == [f EXCEPT !.at = "done"]
  <2>1. s' = s /\ loop' = Append(Front(loop), g)
    BY <1>5 DEF SendRequest, Resume
  <2> HIDE DEF f
  <2>2. IsPubs(g) /\ g.at = "done" /\ g.req = f.req /\ g.expired = f.expired /\ g.pub = f.pub /\ g.k = "pubs"
    BY <1>1, <1>2, PubsHere
  <2> HIDE DEF g
  <2>3. FrameOK(s, g)
    BY <2>2 DEF FrameOK
  <2>4. \A r \in Reqs : Holds(g, r) = Holds(f, r) /\ Uses(g, r) = Uses(f, r)
    BY <1>1, <1>2, <2>2 DEF Holds, Uses, IsPubs
  <2>5. Inv(s, <<g>>, app)
    BY <1>3, <2>2, <2>3, <2>4, Swap DEF Single
  <2>6. loop' = <<g>>
    BY <1>4, <2>1, Appends
  <2> QED BY <1>1, <2>1, <2>5, <2>6
<1>6. CASE s.pub[p].sendQ # <<>>
  <2> DEFINE r == Head(s.pub[p].sendQ)
             t == Dequeue(s, p, r)
             g == [f EXCEPT !.at = "remotes", !.req = r]
  <2>1. \/ LoopBack(t, p, r, g)
        \/ s' = t /\ loop' = Append(Front(loop), g)
    BY <1>6 DEF SendRequest, Resume
  <2> HIDE DEF f
  <2>2. Inv(t, <<g>>, app) /\ Goes(f, g, "remotes", r) /\ r \in Reqs /\ app # r /\ t.req[r].st # "unused" /\ p \in Pubs
    BY <1>1, <1>2, <1>3, <1>6, DequeueStep
  <2> HIDE DEF r, t, g, p
  <2>3. IsPubs(g) /\ g.at = "remotes" /\ g.req = r
    BY <2>2 DEF Goes
  <2>4. CASE LoopBack(t, p, r, g)
    BY <1>1, <1>4, <2>2, <2>3, <2>4, LoopBackStep
  <2>5. CASE s' = t /\ loop' = Append(Front(loop), g)
    <3>1. loop' = <<g>>
      BY <1>4, <2>5, Appends
    <3> QED BY <1>1, <2>2, <2>5, <3>1
  <2> QED BY <2>1, <2>4, <2>5
<1> QED BY <1>5, <1>6

\* The walk that met a copy ends where it is.
LEMMA NullQueueDoes == ASSUME NEW t \in StateType PROVE Does(t, Check(t, FALSE, "null_queue"))
<1> DEFINE S == t.fault \cup {"null_queue"}
           u == [t EXCEPT !.fault = S]
<1>1. S \in SUBSET Faults
  BY Parts DEF Faults
<1>2. "request_refCount" \in S => "request_refCount" \in t.fault
  OBVIOUS
<1>3. Check(t, FALSE, "null_queue") = u
  BY DEF Check
<1> HIDE DEF S
<1>4. u \in StateType /\ Apart(t, u) /\ u.pub = t.pub /\ u.req = t.req /\ u.fault = S
  BY <1>1, PutFault
<1> HIDE DEF u
<1>5. Neutral(t, u) /\ Kept(t, u)
  BY <1>2, <1>4 DEF Neutral, Kept, Apart, SameQueues, SameReq, SamePub
<1> QED BY <1>3, <1>4, <1>5 DEF Does
LEMMA SendToCopyStep == ASSUME Inv(s, loop, app), SendToCopy PROVE Inv(s', loop', app')
<1> DEFINE f == Top
           u == Check(s, FALSE, "null_queue")
           g == [f EXCEPT !.at = "ended"]
<1>1. loop # <<>> /\ f.k = "pubs" /\ f.at = "queue" /\ app' = app /\ s' = u /\ loop' = Append(Front(loop), g)
  BY DEF SendToCopy, At, Resume
<1>2. loop = <<f>> /\ IsPubs(f)
  BY <1>1, TopPubs DEF Inv
<1>3. s \in StateType /\ Inv(s, <<f>>, app) /\ Good(s, HeldBy(<<f>>), UsedBy(<<f>>, app))
  BY <1>2 DEF Inv, Good
<1>4. loop' = <<g>>
  BY <1>1, <1>2, Fronts, Appends
<1>5. Does(s, u)
  BY <1>3, NullQueueDoes
<1> HIDE DEF f, u
<1>6. Inv(u, <<f>>, app)
  BY <1>3, <1>5, FineDoes, InvFine
<1>7. IsPubs(g) /\ g.at = "ended" /\ g.expired = f.expired /\ g.k = "pubs"
  BY <1>1, <1>2 DEF IsPubs
<1> HIDE DEF g
<1>8. FrameOK(u, g)
  BY <1>7 DEF FrameOK
<1>9. \A r \in Reqs : Holds(g, r) = Holds(f, r) /\ Uses(g, r) = Uses(f, r)
  BY <1>1, <1>7 DEF Holds, Uses
<1>10. Inv(u, <<g>>, app)
  BY <1>6, <1>7, <1>8, <1>9, Swap DEF Single
<1> QED BY <1>1, <1>4, <1>10

--------------------------------------------------------------------------------
(* DPS_DecodePublication returns. *)

\* The request that came joins the queue of its publication.
Queueing(q, ttl) == [q EXCEPT !.ttl = ttl, !.expires = now + ttl, !.refs = q.refs + 1]
LEMMA QueueingIs ==
    ASSUME NEW q \in ReqType, now \in Nat, NEW ttl \in Int
    PROVE  /\ Queueing(q, ttl) \in ReqType /\ SameUse(q, Queueing(q, ttl)) /\ Queueing(q, ttl).refs = q.refs + 1
           /\ Queueing(q, ttl) = [q EXCEPT !.ttl = ttl, !.expires = now + ttl, !.refs = @ + 1]
<1> DEFINE e == now + ttl
           k == q.refs + 1
<1>1. q.refs \in Int
  BY ReqParts
<1>2. e \in Int /\ k \in Int
  BY <1>1
<1>3. Queueing(q, ttl) = [q EXCEPT !.ttl = ttl, !.expires = now + ttl, !.refs = @ + 1]
  BY DEF Queueing, ReqType
<1> HIDE DEF e, k
<1>4. LET x == [q EXCEPT !.ttl = ttl, !.expires = e, !.refs = k]
      IN  x \in ReqType /\ SameUse(q, x) /\ x.refs = k
  BY <1>2 DEF ReqType, SameUse
<1> QED BY <1>3, <1>4 DEF e, k, Queueing
LEMMA DecodeSucceedsGood ==
    ASSUME NEW t, NEW h, NEW n, Good(t, h, n), NEW r \in Reqs, n[r] > 0, NEW p \in Pubs, t.req[r].pub = p, NEW m \in PubMsg,
           now \in Nat
    PROVE  LET u == DecodeSucceeds(t, m, p, r)
           IN  Good(u, h, Minus(n, r)) /\ Around(t, u, {r})
<1> DEFINE ttl == KeptTTL(t, m, p)
           w == Queueing(t.req[r], ttl)
           o == [t.pub[p] EXCEPT !.sendQ = Append(t.pub[p].sendQ, r)]
           u == SetBoth(t, r, w, p, o)
           v == UpdatePubHistory(u, m.id, m.seq, m.ackReq, m.from)
           x == Async(v, "pubs")
<1>1. t \in StateType /\ t.req[r] \in ReqType /\ t.pub[p] \in PubType
  BY Parts DEF Good
<1>2. ttl \in Int /\ m.seq \in Int /\ m.ackReq \in BOOLEAN /\ m.from \in Sources
  BY DEF KeptTTL, PubMsg
<1>3. w \in ReqType /\ SameUse(t.req[r], w) /\ w.refs = t.req[r].refs + 1
      /\ w = [t.req[r] EXCEPT !.ttl = ttl, !.expires = now + ttl, !.refs = @ + 1]
  <2> HIDE DEF ttl
  <2> QED BY <1>1, <1>2, QueueingIs
<1>4. Joined(t.pub[p], o, r) /\ o \in PubType
  BY <1>1, JoinedIs DEF Joined
<1>5. DecodeSucceeds(t, m, p, r) = PublicationDecRef(x, p)
  <2>1. DecodeSucceeds(t, m, p, r)
        = LET y == [t EXCEPT !.req[r] = [t.req[r] EXCEPT !.ttl = ttl, !.expires = now + ttl, !.refs = @ + 1],
                             !.pub[p].sendQ = Append(@, r)]
          IN  PublicationDecRef(Async(UpdatePubHistory(y, m.id, m.seq, m.ackReq, m.from), "pubs"), p)
    BY Zenon DEF DecodeSucceeds
  <2> HIDE DEF ttl, w
  <2>2. [t EXCEPT !.req[r] = w, !.pub[p].sendQ = Append(@, r)] = u
    <3>1. t.pub \in [Pubs -> PubType] /\ t.req \in [Reqs -> ReqType]
      BY <1>1, Parts
    <3> QED BY <1>1, <3>1 DEF SetBoth, StateType, PubType
  <2> DEFINE y == [t EXCEPT !.req[r] = [t.req[r] EXCEPT !.ttl = ttl, !.expires = now + ttl, !.refs = @ + 1],
                             !.pub[p].sendQ = Append(@, r)]
  <2>3. y = u
    BY <1>3, <2>2, Zenon
  <2>4. DecodeSucceeds(t, m, p, r) = PublicationDecRef(Async(UpdatePubHistory(y, m.id, m.seq, m.ackReq, m.from), "pubs"), p)
    BY <2>1, Zenon
  <2> HIDE DEF y, u
  <2> QED BY <2>3, <2>4, Zenon
<1> HIDE DEF w, ttl
<1>6. Good(u, h, Minus(n, r))
  BY <1>3, <1>4, Enqueue
<1>8. o.st = t.pub[p].st
  BY <1>1 DEF PubType
<1> HIDE DEF o
<1>7. /\ u \in StateType /\ Apart(t, u) /\ u.req[r] = w /\ (\A y \in Reqs \ {r} : u.req[y] = t.req[y])
      /\ u.pub[p] = o /\ \A y \in Pubs \ {p} : u.pub[y] = t.pub[y]
  BY <1>1, <1>3, <1>4, SetBothIs
<1> HIDE DEF u
<1>9. Around(t, u, {r})
  <2>1. u.ack = t.ack /\ u.ackQueue = t.ackQueue /\ u.net = t.net
    BY <1>7 DEF Apart
  <2>2. PubsStay(t, u) /\ SamePlace(t.req[r], u.req[r])
    BY <1>3, <1>7, <1>8 DEF PubsStay, SamePlace, SameUse
  <2> QED BY <1>7, <2>1, <2>2, OnlyAround
<1>10. Fine(u, v, h, Minus(n, r))
  BY <1>2, <1>6, HistoryFine
<1> HIDE DEF v
<1>11. Fine(v, x, h, Minus(n, r))
  <2>1. v \in StateType /\ Good(v, h, Minus(n, r)) /\ "pubs" \in Tasks
    BY <1>10 DEF Fine, Good, Tasks
  <2> QED BY <2>1, AsyncPlain, FinePlain
<1> HIDE DEF x
<1>12. Fine(x, PublicationDecRef(x, p), h, Minus(n, r))
  BY <1>11, DecRefGood DEF Fine
<1>13. Fine(u, PublicationDecRef(x, p), h, Minus(n, r))
  BY <1>10, <1>11, <1>12, FineTrans
<1>14. Good(PublicationDecRef(x, p), h, Minus(n, r)) /\ Around(t, PublicationDecRef(x, p), {r})
  BY <1>9, <1>13, AroundCalm DEF Fine
<1> QED BY <1>5, <1>14

LEMMA TopDecode ==
    ASSUME Shape(loop), loop # <<>>, Top.k = "decode"
    PROVE  /\ IsDecode(Top)
           /\ \/ loop = <<Top>>
              \/ \E f : IsPubs(f) /\ f.at = "looping_back" /\ loop = <<f, Top>>
<1> DEFINE Goal == /\ IsDecode(Top)
                   /\ \/ loop = <<Top>>
                      \/ \E f : IsPubs(f) /\ f.at = "looping_back" /\ loop = <<f, Top>>
<1>1. ASSUME NEW f, Single(f), loop = <<f>> PROVE Goal
  <2>1. Top = f
    BY <1>1, Stacks DEF Top
  <2>2. IsDecode(f)
    BY <1>1, <2>1 DEF Single, IsPubs, IsAck, IsAcks
  <2> QED BY <1>1, <2>1, <2>2
<1>2. ASSUME NEW f, NEW g, Double(f, g), loop = <<f, g>> PROVE Goal
  <2>1. Top = g
    BY <1>2, Stacks DEF Top
  <2>2. IsDecode(g) /\ IsPubs(f) /\ f.at = "looping_back"
    BY <1>2, <2>1 DEF Double, IsHandlers, IsAck
  <2> QED BY <1>2, <2>1, <2>2
<1>3. ASSUME NEW f, NEW g, NEW e, Triple(f, g, e), loop = <<f, g, e>> PROVE Goal
  <2>1. Top = e
    BY <1>3, Stacks DEF Top
  <2> QED BY <1>3, <2>1 DEF Triple, IsHandlers
<1> HIDE DEF Goal
<1>4. Goal
  BY <1>1, <1>2, <1>3 DEF Shape
<1> QED BY <1>4 DEF Goal

\* What becomes of the request that was decoded.
Decoded(t, g) == IF g.ret = "OK" THEN DecodeSucceeds(t, g.m, g.pub, g.req) ELSE DecodeFails(t, g.m, g.pub, g.req)
LEMMA DecodedGood ==
    ASSUME NEW t, NEW h, NEW n, Good(t, h, n), NEW g, IsDecode(g), FrameOK(t, g), n[g.req] > 0, now \in Nat
    PROVE  Good(Decoded(t, g), h, Minus(n, g.req)) /\ Around(t, Decoded(t, g), {g.req})
<1> DEFINE r == g.req
           p == g.pub
           m == g.m
<1>1. r \in Reqs /\ p \in Pubs /\ m \in PubMsg /\ t.req[r].pub = p /\ t.req[r].refs = 0 /\ ~t.req[r].cb
  BY DEF IsDecode, FrameOK
<1>2. n[r] > 0
  OBVIOUS
<1>3. Decoded(t, g) = IF g.ret = "OK" THEN DecodeSucceeds(t, m, p, r) ELSE DecodeFails(t, m, p, r)
  BY DEF Decoded
<1> HIDE DEF r, p, m
<1>4. CASE g.ret = "OK"
  <2>1. Good(DecodeSucceeds(t, m, p, r), h, Minus(n, r)) /\ Around(t, DecodeSucceeds(t, m, p, r), {r})
    BY <1>1, <1>2, DecodeSucceedsGood
  <2> QED BY <1>3, <1>4, <2>1 DEF r
<1>5. CASE g.ret # "OK"
  <2>1. Good(DecodeFails(t, m, p, r), h, Minus(n, r)) /\ Around(t, DecodeFails(t, m, p, r), {r})
    BY <1>1, <1>2, DecodeFailsGood
  <2> QED BY <1>3, <1>5, <2>1 DEF r
<1> QED BY <1>4, <1>5

\* The reference taken by DPS_LoopbackSend is given up.
Released(q, ret) == [q EXCEPT !.refs = q.refs - 1, !.status = IF q.status = "OK" THEN "OK" ELSE ret]
LEMMA ReleasedIs ==
    ASSUME NEW q \in ReqType, NEW ret \in {"OK", "FAILED"}
    PROVE  /\ Released(q, ret) \in ReqType /\ SameUse(q, Released(q, ret)) /\ Released(q, ret).refs = q.refs - 1
           /\ Released(q, ret) = [q EXCEPT !.refs = @ - 1, !.status = IF @ = "OK" THEN @ ELSE ret]
<1> DEFINE e == IF q.status = "OK" THEN "OK" ELSE ret
           k == q.refs - 1
<1>1. q.refs \in Int /\ q.status \in {"NO_ROUTE", "OK", "FAILED"}
  BY ReqParts
<1>2. e \in {"NO_ROUTE", "OK", "FAILED"} /\ k \in Int
  BY <1>1
<1>3. Released(q, ret) = [q EXCEPT !.refs = @ - 1, !.status = IF @ = "OK" THEN @ ELSE ret]
  BY DEF Released, ReqType
<1> HIDE DEF e, k
<1>4. LET x == [q EXCEPT !.refs = k, !.status = e]
      IN  x \in ReqType /\ SameUse(q, x) /\ x.refs = k
  BY <1>2 DEF ReqType, SameUse
<1> QED BY <1>3, <1>4 DEF e, k, Released

LEMMA SetReqAround ==
    ASSUME NEW t \in StateType, NEW r \in Reqs, NEW w \in ReqType, SamePlace(t.req[r], w)
    PROVE  SetReq(t, r, w).req[r] = w /\ Around(t, SetReq(t, r, w), {r})
<1> DEFINE u == SetReq(t, r, w)
<1>1. u \in StateType /\ Apart(t, u) /\ u.pub = t.pub /\ u.req[r] = w /\ \A x \in Reqs \ {r} : u.req[x] = t.req[x]
  BY SetReqIs
<1> HIDE DEF u
<1>2. u.ack = t.ack /\ u.ackQueue = t.ackQueue /\ u.net = t.net
  BY <1>1 DEF Apart
<1>3. PubsStay(t, u)
  BY <1>1 DEF PubsStay
<1>4. Around(t, u, {r})
  BY <1>1, <1>2, <1>3, OnlyAround
<1> QED BY <1>1, <1>4 DEF u

\* The frame of SendPubs goes on with the request that was looped back.
LEMMA LoopReleased ==
    ASSUME NEW t, NEW l, NEW a, Inv(t, l, a), NEW f, IsPubs(f), f.at = "looping_back", FrameOK(t, f), NEW r \in Reqs, NEW u,
           Around(t, u, {r}), a # r, NEW h, NEW n, Good(u, h, n), r # f.req,
           \A x \in Reqs : h[x] = Holds(f, x) /\ n[x] = Mine(a, x), NEW k \in Reqs, k = f.req, NEW ret \in {"OK", "FAILED"}
    PROVE  Inv(SetReq(u, k, Released(u.req[k], ret)), <<[f EXCEPT !.at = "remotes"]>>, a)
<1> DEFINE g == [f EXCEPT !.at = "remotes"]
           w == Released(u.req[k], ret)
           v == SetReq(u, k, w)
<1>1. u \in StateType /\ u.req[k] \in ReqType /\ Counts(h) /\ Counts(n) /\ t \in StateType
  BY Parts DEF Good, Inv
<1>2. w \in ReqType /\ SameUse(u.req[k], w) /\ w.refs = u.req[k].refs - 1
  BY <1>1, ReleasedIs
<1> HIDE DEF w
<1>3. Holds(f, k) > 0 /\ h[k] > 0
  <2>1. Holds(f, k) = (IF f.expired = k THEN 1 ELSE 0) + 1
    BY PubsCount
  <2> QED BY <2>1
<1>4. Good(v, Minus(h, k), Plus(n, k))
  BY <1>2, <1>3, LetGo
<1>6. v.req[k] = w /\ Around(u, v, {k})
  <2>1. SamePlace(u.req[k], w)
    BY <1>2 DEF SamePlace, SameUse
  <2> QED BY <1>1, <1>2, <2>1, SetReqAround
<1> HIDE DEF v
<1>7. Around(t, v, {r, k})
  <2>1. {r} \cup {k} = {r, k}
    OBVIOUS
  <2>2. Around(t, v, {r} \cup {k})
    BY <1>6, AroundTrans
  <2> QED BY <2>1, <2>2
<1>8. n[k] = 0 /\ a # k /\ h[k] = 1
  <2>1. h[k] = 1 /\ n[k] = 0
    BY <1>3, Placed
  <2>2. a = k => n[k] = 1
    BY DEF Mine
  <2> QED BY <2>1, <2>2
<1>9. IsPubs(g) /\ g.at = "remotes" /\ g.req = k /\ g.expired = f.expired /\ g.pub = f.pub /\ g.k = "pubs"
  BY PubsHere
<1> HIDE DEF g
<1>10. FrameOK(v, g)
  <2>1. t.req[k].pub = f.pub
    BY DEF FrameOK, IsPubs
  <2>2. v.req[k].pub = t.req[k].pub
    BY <1>7 DEF Around, SamePlace
  <2> QED BY <1>9, <2>1, <2>2 DEF FrameOK
<1>11. Plus(n, k)[k] = n[k] + 1 /\ (\A x \in Reqs \ {k} : Plus(n, k)[x] = n[x]) /\ Minus(h, k)[k] = h[k] - 1
       /\ \A x \in Reqs \ {k} : Minus(h, k)[x] = h[x]
  BY <1>1, <1>3, PlusIs, MinusIs
<1>12. ASSUME NEW x \in Reqs PROVE Minus(h, k)[x] = Holds(g, x) /\ Plus(n, k)[x] = Uses(g, x) + Mine(a, x)
  <2>1. Holds(f, x) = (IF f.expired = x THEN 1 ELSE 0) + (IF k = x THEN 1 ELSE 0)
    BY PubsCount
  <2>2. Holds(g, x) = (IF f.expired = x THEN 1 ELSE 0) + 0 /\ Uses(g, x) = IF k = x THEN 1 ELSE 0
    BY <1>9, PubsCount
  <2>3. Mine(a, x) \in Nat /\ h[x] = Holds(f, x) /\ n[x] = Mine(a, x)
    BY UsesType
  <2>4. CASE x = k
    BY <1>8, <1>11, <2>1, <2>2, <2>3, <2>4
  <2>5. CASE x # k
    BY <1>11, <2>1, <2>2, <2>3, <2>5
  <2> QED BY <2>4, <2>5
<1>13. Inv(v, <<g>>, a)
  <2>1. a \notin {r, k} /\ {r, k} \subseteq Reqs /\ Single(g)
    BY <1>8, <1>9 DEF Single
  <2> QED BY <1>4, <1>7, <1>10, <1>12, <2>1, InvAround
<1> QED BY <1>13 DEF v, w, g

LEMMA LastIs == \A f : Last(<<f>>) = f
BY DEF Last
LEMMA DecodeReturnsStep == ASSUME Inv(s, loop, app), now \in Nat, DecodeReturns PROVE Inv(s', loop', app')
<1> DEFINE g == Top
           r == g.req
           t == Decoded(s, g)
           h == HeldBy(loop)
           n == UsedBy(loop, app)
<1>1. loop # <<>> /\ g.k = "decode" /\ app' = app /\ Shape(loop)
  BY DEF DecodeReturns, Inv
<1>2. /\ IsDecode(g)
      /\ \/ loop = <<g>>
         \/ \E f : IsPubs(f) /\ f.at = "looping_back" /\ loop = <<f, g>>
  BY <1>1, TopDecode
<1>3. LET under == Front(loop)
      IN  IF under = <<>> THEN s' = t /\ loop' = under
          ELSE LET f == Last(under)
               IN  /\ s' = [t EXCEPT !.req[f.req] = [t.req[f.req] EXCEPT
                                            !.refs = @ - 1, !.status = IF @ = "OK" THEN @ ELSE g.ret]]
                   /\ loop' = Append(Front(under), [f EXCEPT !.at = "remotes"])
  BY Zenon DEF DecodeReturns, Decoded
<1>4. r \in Reqs /\ g.ret \in {"OK", "FAILED"}
  BY <1>2 DEF IsDecode
<1>5. s \in StateType /\ Good(s, h, n) /\ Counts(h) /\ Counts(n)
  BY DEF Inv, Good
<1>6. \A x \in Reqs : Holds(g, x) = 0 /\ Uses(g, x) = IF r = x THEN 1 ELSE 0
  BY <1>1 DEF Holds, Uses
<1> HIDE DEF g
<1>7. CASE loop = <<g>>
  <2>1. FrameOK(s, g)
    BY <1>7, FramedTuples DEF Inv
  <2>2. ASSUME NEW x \in Reqs PROVE h[x] = 0 /\ n[x] = (IF r = x THEN 1 ELSE 0) + Mine(app, x)
    BY <1>6, <1>7, HeldOne, UsedOne
  <2> HIDE DEF h, n
  <2>3. n[r] = 1 + Mine(app, r) /\ Mine(app, r) \in Nat
    BY <1>4, <2>2, UsesType
  <2>4. n[r] = 1 /\ Mine(app, r) = 0
    BY <1>4, <1>5, <2>3, Placed
  <2>5. app # r
    BY <2>4 DEF Mine
  <2>6. Good(t, h, Minus(n, r)) /\ Around(s, t, {r})
    BY <1>2, <1>5, <2>1, <2>4, DecodedGood
  <2> HIDE DEF t, r
  <2>7. Minus(n, r)[r] = n[r] - 1 /\ \A x \in Reqs \ {r} : Minus(n, r)[x] = n[x]
    BY <1>4, <1>5, <2>4, MinusIs
  <2>8. ASSUME NEW x \in Reqs PROVE Minus(n, r)[x] = Mine(app, x)
    <3>1. Mine(app, x) \in Nat
      BY UsesType
    <3>2. CASE x = r
      BY <2>4, <2>7, <3>2
    <3>3. CASE x # r
      BY <2>2, <2>7, <3>1, <3>3
    <3> QED BY <3>2, <3>3
  <2>9. s' = t /\ loop' = <<>>
    <3>1. Front(loop) = <<>>
      BY <1>7, Fronts
    <3> QED BY <1>3, <3>1
  <2>10. Inv(t, <<>>, app)
    <3>1. app \notin {r} /\ {r} \subseteq Reqs
      BY <1>4, <2>5
    <3>2. \A x \in Reqs : h[x] = 0 /\ Minus(n, r)[x] = Mine(app, x)
      BY <2>2, <2>8
    <3> QED BY <2>6, <3>1, <3>2, InvGone
  <2> QED BY <1>1, <2>9, <2>10
<1>8. ASSUME NEW f, IsPubs(f), f.at = "looping_back", loop = <<f, g>> PROVE Inv(s', loop', app')
  <2>1. FrameOK(s, g) /\ FrameOK(s, f)
    BY <1>8, FramedTuples DEF Inv
  <2>2. ASSUME NEW x \in Reqs PROVE h[x] = Holds(f, x) /\ n[x] = (IF r = x THEN 1 ELSE 0) + Mine(app, x)
    <3>1. h[x] = Holds(f, x) /\ n[x] = Uses(f, x) + Uses(g, x) + Mine(app, x)
      BY <1>8, HeldTwo, UsedTwo
    <3>2. Uses(f, x) = 0 /\ Mine(app, x) \in Nat
      BY <1>8, PubsCount, UsesType
    <3> QED BY <1>6, <3>1, <3>2
  <2> HIDE DEF h, n
  <2>3. n[r] = 1 + Mine(app, r) /\ Mine(app, r) \in Nat
    BY <1>4, <2>2, UsesType
  <2>4. n[r] = 1 /\ Mine(app, r) = 0 /\ h[r] = 0
    BY <1>4, <1>5, <2>3, Placed
  <2>5. app # r
    BY <2>4 DEF Mine
  <2>6. Good(t, h, Minus(n, r)) /\ Around(s, t, {r})
    BY <1>2, <1>5, <2>1, <2>4, DecodedGood
  <2> HIDE DEF t, r
  <2>7. Minus(n, r)[r] = n[r] - 1 /\ \A x \in Reqs \ {r} : Minus(n, r)[x] = n[x]
    BY <1>4, <1>5, <2>4, MinusIs
  <2>8. ASSUME NEW x \in Reqs PROVE Minus(n, r)[x] = Mine(app, x)
    <3>1. Mine(app, x) \in Nat
      BY UsesType
    <3>2. CASE x = r
      BY <2>4, <2>7, <3>2
    <3>3. CASE x # r
      BY <2>2, <2>7, <3>1, <3>3
    <3> QED BY <3>2, <3>3
  <2> DEFINE k == f.req
  <2>9. k \in Reqs
    BY <1>8 DEF IsPubs
  <2>10. r # k
    <3>1. Holds(f, k) = (IF f.expired = k THEN 1 ELSE 0) + 1
      BY <1>8, <2>9, PubsCount
    <3>2. Holds(f, k) # 0
      BY <3>1
    <3> QED BY <2>2, <2>4, <2>9, <3>2
  <2>11. s' = SetReq(t, k, Released(t.req[k], g.ret)) /\ loop' = <<[f EXCEPT !.at = "remotes"]>>
    <3>1. Front(loop) = <<f>> /\ Front(<<f>>) = <<>> /\ Last(<<f>>) = f /\ <<f>> # <<>>
      BY <1>8, Fronts, LastIs
    <3>2. /\ s' = [t EXCEPT !.req[k] = [t.req[k] EXCEPT !.refs = @ - 1, !.status = IF @ = "OK" THEN @ ELSE g.ret]]
          /\ loop' = Append(<<>>, [f EXCEPT !.at = "remotes"])
      BY <1>3, <3>1
    <3>3. t \in StateType /\ t.req[k] \in ReqType
      BY <2>6, <2>9, Parts DEF Good
    <3>4. Released(t.req[k], g.ret) = [t.req[k] EXCEPT !.refs = @ - 1, !.status = IF @ = "OK" THEN @ ELSE g.ret]
      BY <1>4, <3>3, ReleasedIs
    <3>5. s' = SetReq(t, k, Released(t.req[k], g.ret))
      <4> DEFINE w == Released(t.req[k], g.ret)
      <4>1. w = [t.req[k] EXCEPT !.refs = @ - 1, !.status = IF @ = "OK" THEN @ ELSE g.ret]
        BY <3>4
      <4> HIDE DEF w
      <4>2. s' = [t EXCEPT !.req[k] = w]
        BY <3>2, <4>1
      <4>3. s' = SetReq(t, k, w)
        BY <3>3, <4>2 DEF SetReq, StateType
      <4> QED BY <4>3 DEF w
    <3>6. loop' = <<[f EXCEPT !.at = "remotes"]>>
      BY <3>2, Appends
    <3> QED BY <3>5, <3>6
  <2>12. Inv(SetReq(t, k, Released(t.req[k], g.ret)), <<[f EXCEPT !.at = "remotes"]>>, app)
    <3>1. \A x \in Reqs : h[x] = Holds(f, x) /\ Minus(n, r)[x] = Mine(app, x)
      BY <2>2, <2>8
    <3>2. r # f.req
      BY <2>10
    <3> QED BY <1>4, <1>8, <2>1, <2>5, <2>6, <2>9, <3>1, <3>2, LoopReleased
  <2> QED BY <1>1, <2>11, <2>12
<1> QED BY <1>2, <1>7, <1>8

LEMMA ReceivePublicationStep ==
    ASSUME Inv(s, loop, app), NEW m \in s.scenario.messages, ReceivePublication(m) PROVE Inv(s', loop', app')
<1>1. loop = <<>> /\ app' = app /\ s \in StateType /\ Good(s, HeldBy(loop), UsedBy(loop, app))
  BY DEF ReceivePublication, Inv, Good
<1>2. m \in PubMsg
  <2>1. s.scenario \in Scenarios
    BY <1>1, Parts
  <2>2. m \in [id : Ids, seq : Nat \ {0}, ttl : Int, ackReq : BOOLEAN,
                             from : Remotes, body : {"ok", "other_key", "bad_map", "bad_filter"}]
    BY <2>1, ScenarioAssumption
  <2> QED BY <2>2 DEF PubMsg, PubIds, Sources, Bodies
<1>3. CASE s' = Drop(s, m) /\ loop' = loop
  BY <1>1, <1>2, <1>3, DropFine, InvFine
<1>4. CASE DecodePublication(s, m, <<>>)
  <2>1. Caller(<<>>)
    BY DEF Caller
  <2> QED BY <1>1, <1>2, <1>4, <2>1, DecodeStep
<1> QED BY <1>3, <1>4 DEF ReceivePublication

--------------------------------------------------------------------------------
(* DPS_SendPublication. *)

\* What sends of r leave as it was.
Sent(t, u, r, h, n) ==
    /\ Good(u, h, n) /\ u.req[r].st = "live" /\ Around(t, u, {r})
    /\ \A x \in Pubs : SameQueues(t.pub[x], u.pub[x])
LEMMA SentTrans ==
    ASSUME NEW t, NEW u, NEW v, NEW r \in Reqs, NEW h, NEW n, Sent(t, u, r, h, n), Sent(u, v, r, h, n) PROVE Sent(t, v, r, h, n)
<1>1. Around(t, v, {r} \cup {r})
  BY AroundTrans DEF Sent
<1>2. {r} \cup {r} = {r}
  OBVIOUS
<1>3. Around(t, v, {r})
  BY <1>1, <1>2
<1> QED BY <1>3 DEF Sent, SameQueues

LEMMA MarkedSent ==
    ASSUME NEW t, NEW h, NEW n, Good(t, h, n), NEW r \in Reqs, t.req[r].st = "live", NEW status \in {"NO_ROUTE", "OK", "FAILED"}
    PROVE  Sent(t, Marked(t, r, status), r, h, n)
<1> DEFINE u == Marked(t, r, status)
           w == [t.req[r] EXCEPT !.status = status]
<1>1. t \in StateType /\ t.req[r] \in ReqType
  BY Parts DEF Good
<1>2. Good(u, h, n) /\ u.pub = t.pub /\ u.req[r].st = "live"
  BY MarkedIs
<1>3. w \in ReqType /\ SamePlace(t.req[r], w)
  BY <1>1 DEF ReqType, SamePlace
<1>4. u = SetReq(t, r, w)
  BY DEF Marked, SetReq
<1>5. Around(t, u, {r})
  <2> HIDE DEF w
  <2> QED BY <1>1, <1>3, <1>4, SetReqAround
<1> QED BY <1>2, <1>5 DEF Sent, SameQueues

LEMMA AlikeSent ==
    ASSUME NEW t, NEW h, NEW n, Good(t, h, n), NEW r \in Reqs, t.req[r].st = "live", NEW u \in StateType, Alike(t, u)
    PROVE  Sent(t, u, r, h, n)
<1>1. Good(u, h, n)
  BY GoodAlike
<1>2. u.req = t.req /\ u.pub = t.pub /\ u.ack = t.ack /\ u.ackQueue = t.ackQueue /\ u.net = t.net
  BY DEF Alike, Apart
<1>3. Around(t, u, {r})
  <2>1. PubsStay(t, u) /\ SamePlace(t.req[r], u.req[r])
    BY <1>2 DEF PubsStay, SamePlace
  <2> QED BY <1>2, <2>1, OnlyAround
<1> QED BY <1>1, <1>2, <1>3 DEF Sent, SameQueues

LEMMA PostAcks ==
    ASSUME NEW t \in StateType, NEW u, u.ack = t.ack, u.ackQueue = t.ackQueue, NEW r \in Reqs,
           NEW dest \in Remotes \cup {"multicast"}, u.net = t.net (+) SetToBag({PubMessage(r, dest)})
    PROVE  AcksTied(t) => AcksTied(u)
<1>1. IsNet(t.net)
  BY Parts
<1>2. PubMessage(r, dest) \in Message /\ PubMessage(r, dest).kind = "pub"
  BY DEF Message, PubMessage
<1> DEFINE m == PubMessage(r, dest)
<1> HIDE DEF m
<1>3. DOMAIN (t.net (+) SetToBag({m})) = DOMAIN t.net \cup {m}
  BY <1>1, <1>2, NetAdd DEF m
<1>4. DOMAIN u.net = DOMAIN t.net \cup {m} /\ m.kind = "pub"
  BY <1>2, <1>3 DEF m
<1> QED BY <1>4 DEF AcksTied

LEMMA PostSent ==
    ASSUME NEW t, NEW h, NEW n, Good(t, h, n), NEW r \in Reqs, t.req[r].st = "live", NEW p \in Pubs,
           NEW dest \in Remotes \cup {"multicast"}
    PROVE  Sent(t, Post(PublicationIncRef([t EXCEPT !.req[r].refs = @ + 1], p), Sending("pub", r, dest)), r, h, n)
<1> DEFINE w == [t.req[r] EXCEPT !.refs = t.req[r].refs + 1]
           u == SetReq(t, r, w)
           v == PublicationIncRef(u, p)
           m == PubMessage(r, dest)
           b == v.net (+) SetToBag({m})
           x == [v EXCEPT !.net = b]
<1>1. t \in StateType /\ t.req[r] \in ReqType /\ IsNet(t.net)
  BY Parts DEF Good
<1>2. w \in ReqType /\ SameUse(t.req[r], w) /\ w.refs = t.req[r].refs + 1 /\ SamePlace(t.req[r], w) /\ w.st = "live"
  BY <1>1 DEF ReqType, SameUse, SamePlace
<1>3. Post(PublicationIncRef([t EXCEPT !.req[r].refs = @ + 1], p), Sending("pub", r, dest)) = x
  <2>1. [t EXCEPT !.req[r].refs = @ + 1] = u
    BY <1>1, HeldDef
  <2> HIDE DEF u
  <2>2. Post(v, Sending("pub", r, dest)) = x
    BY DEF Post, Sending, PubMessage
  <2> HIDE DEF x
  <2> QED BY <2>1, <2>2
<1> HIDE DEF w
<1>4. u \in StateType /\ Apart(t, u) /\ u.fault = t.fault /\ OnlyReq(t, u, r) /\ u.pub = t.pub /\ u.req[r] = w
      /\ \A y \in Reqs \ {r} : u.req[y] = t.req[y]
  BY <1>1, <1>2, SetReqIs
<1> HIDE DEF u
<1>5. v \in StateType /\ v.req = u.req /\ v.net = u.net /\ v.ack = u.ack /\ v.ackQueue = u.ackQueue
      /\ (\A y \in Pubs : SameQueues(u.pub[y], v.pub[y])) /\ v.fault = u.fault /\ PubsStay(u, v)
  <2>1. Does(u, v)
    BY <1>4, IncRefIs
  <2>2. v.fault = u.fault
    BY <1>4, SetPubIs, IncRefIs, PubRefs DEF PublicationIncRef, StateType
  <2> QED BY <2>1, <2>2 DEF Does, Neutral, Kept, Apart, SamePub, PubsStay
<1> HIDE DEF v
<1>6. IsNet(b)
  <2>1. m \in Message /\ IsNet(v.net)
    BY <1>5, Parts DEF Message, PubMessage
  <2> QED BY <2>1, NetAdd
<1>7. b = t.net (+) SetToBag({PubMessage(r, dest)})
  BY <1>4, <1>5 DEF Apart
<1> HIDE DEF b
<1>8. x \in StateType /\ x.net = b /\ x.req = v.req /\ x.pub = v.pub /\ x.fault = v.fault /\ x.ack = v.ack
      /\ x.ackQueue = v.ackQueue
  BY <1>5, <1>6, PutNet
<1> HIDE DEF x
<1>9. \A y \in Pubs : SameQueues(t.pub[y], x.pub[y])
  BY <1>4, <1>5, <1>8
<1>10. Good(x, h, n)
  <2>1. OnlyReq(t, x, r) /\ x.req[r] = w /\ x.fault = t.fault
    BY <1>4, <1>5, <1>8 DEF OnlyReq
  <2>2. x.net = t.net (+) SetToBag({PubMessage(r, dest)})
    BY <1>7, <1>8
  <2> QED BY <1>2, <1>8, <1>9, <2>1, <2>2, PostGood
<1>11. Around(t, x, {r})
  <2>1. x.ack = t.ack /\ x.ackQueue = t.ackQueue
    BY <1>4, <1>5, <1>8 DEF Apart
  <2>2. AcksTied(t) => AcksTied(x)
    BY <1>1, <1>7, <1>8, <2>1, PostAcks
  <2>3. PubsStay(t, x)
    BY <1>4, <1>5, <1>8 DEF PubsStay
  <2>4. \A y \in Reqs \ {r} : SameReq(t.req[y], x.req[y])
    BY <1>4, <1>5, <1>8 DEF SameReq
  <2>5. SamePlace(t.req[r], x.req[r])
    BY <1>2, <1>4, <1>5, <1>8
  <2> QED BY <2>1, <2>2, <2>3, <2>4, <2>5 DEF Around
<1>12. x.req[r].st = "live"
  BY <1>2, <1>4, <1>5, <1>8
<1>13. Sent(t, x, r, h, n)
  BY <1>9, <1>10, <1>11, <1>12 DEF Sent
<1> QED BY <1>3, <1>13

LEMMA SendPublicationSent ==
    ASSUME NEW t, NEW h, NEW n, Good(t, h, n), NEW r \in Reqs, t.req[r].st = "live", NEW p \in Pubs,
           NEW dest \in Remotes \cup {"multicast"}, NEW result
    PROVE  Sent(t, SendPublication(t, r, p, dest, result), r, h, n)
<1>1. t \in StateType
  BY DEF Good
<1>2. CASE TooLate(t, r, p)
  <2>1. SendPublication(t, r, p, dest, result) = [t EXCEPT !.req[r].status = "OK"]
    BY <1>2 DEF SendPublication
  <2>2. SendPublication(t, r, p, dest, result) = Marked(t, r, "OK")
    BY <1>1, <2>1, MarkedDef
  <2>3. Sent(t, Marked(t, r, "OK"), r, h, n)
    BY MarkedSent
  <2> QED BY <2>2, <2>3
<1>3. CASE ~TooLate(t, r, p) /\ result = "SENT"
  <2>1. SendPublication(t, r, p, dest, result)
        = Post(PublicationIncRef([t EXCEPT !.req[r].refs = @ + 1], p), Sending("pub", r, dest))
    BY <1>3 DEF SendPublication
  <2>2. Sent(t, Post(PublicationIncRef([t EXCEPT !.req[r].refs = @ + 1], p), Sending("pub", r, dest)), r, h, n)
    BY PostSent
  <2> QED BY <2>1, <2>2
<1>4. CASE ~TooLate(t, r, p) /\ result # "SENT"
  <2> DEFINE v == SendComplete(t, dest, FALSE)
             status == IF v.req[r].status = "OK" \/ result = "NO_ROUTE" THEN "OK" ELSE "FAILED"
  <2>1. v \in StateType /\ Alike(t, v)
    BY <1>1, SendCompleteIs
  <2>2. Sent(t, v, r, h, n)
    BY <2>1, AlikeSent
  <2>3. SendPublication(t, r, p, dest, result)
        = [v EXCEPT !.req[r].status = IF @ = "OK" \/ result = "NO_ROUTE" THEN "OK" ELSE "FAILED"]
    BY <1>4 DEF SendPublication
  <2> HIDE DEF v
  <2>4. SendPublication(t, r, p, dest, result) = [v EXCEPT !.req[r].status = status]
    <3>1. v.req \in [Reqs -> ReqType]
      BY <2>1, Parts
    <3> QED BY <2>1, <2>3, <3>1 DEF StateType, ReqType
  <2>5. status \in {"NO_ROUTE", "OK", "FAILED"}
    OBVIOUS
  <2> HIDE DEF status
  <2>6. SendPublication(t, r, p, dest, result) = Marked(v, r, status)
    BY <2>1, <2>4, MarkedDef
  <2>7. Sent(v, Marked(v, r, status), r, h, n)
    BY <2>2, <2>5, MarkedSent DEF Sent
  <2>8. Sent(t, Marked(v, r, status), r, h, n)
    BY <2>2, <2>7, SentTrans
  <2> QED BY <2>6, <2>8
<1> QED BY <1>2, <1>3, <1>4

SendTo(v, e) == SendPublication(v, e.req, e.pub, e.dest, e.result)
N == INSTANCE FoldTheorems WITH Op <- SendTo

LEMMA SendsStay ==
    ASSUME NEW D, IsFiniteSet(D), NEW S, NEW base \in S, \A v \in S, e \in D : SendTo(v, e) \in S
    PROVE  N!SetFold(base, D) \in S
<1>1. N!IsFiniteSet(D)
  BY Zenon DEF N!IsFiniteSet, IsFiniteSet
<1> QED BY <1>1, N!SetFoldStays

LEMMA AllSent ==
    ASSUME NEW t, NEW h, NEW n, Good(t, h, n), NEW r \in Reqs, t.req[r].st = "live", NEW p \in Pubs, NEW mcast,
           NEW failing \in SUBSET Remotes
    PROVE  Sent(t, SendToAll(t, p, r, mcast, failing), r, h, n)
<1> DEFINE u == IF {"LOCAL", "MULTICAST"} \subseteq t.pub[p].flags /\ t.mcast
                THEN SendPublication(t, r, p, "multicast", mcast) ELSE t
           sends == {[req |-> r, pub |-> p, dest |-> m, result |-> IF m \in failing THEN "FAILED" ELSE "SENT"] :
                        m \in Interested(u, r, p)}
           v == FoldSet(LAMBDA e, x : SendPublication(x, e.req, e.pub, e.dest, e.result), u, sends)
           k == v.budget - Cardinality(failing) - (IF mcast = "FAILED" THEN 1 ELSE 0)
<1>1. SendToAll(t, p, r, mcast, failing)
      = [v EXCEPT !.budget = @ - Cardinality(failing) - (IF mcast = "FAILED" THEN 1 ELSE 0)]
  BY Zenon DEF SendToAll
<1>2. t \in StateType
  BY DEF Good
<1>3. Sent(t, u, r, h, n)
  <2>1. Sent(t, t, r, h, n)
    BY <1>2, AlikeSent DEF Alike, Apart
  <2>2. Sent(t, SendPublication(t, r, p, "multicast", mcast), r, h, n)
    BY SendPublicationSent
  <2> QED BY <2>1, <2>2
<1> HIDE DEF u
<1>4. IsFiniteSet(sends) /\ \A e \in sends : e.req = r /\ e.pub = p /\ e.dest \in Remotes
  <2>1. Interested(u, r, p) \subseteq u.remotes /\ u.remotes \subseteq Remotes
    BY <1>3, Parts DEF Interested, Sent, Good
  <2>2. IsFiniteSet(Interested(u, r, p))
    <3>1. Interested(u, r, p) \in SUBSET Remotes
      BY <2>1
    <3> QED BY <3>1, RemotesAssumption, FS_Subset
  <2> DEFINE I == Interested(u, r, p)
  <2> HIDE DEF I
  <2>3. IsFiniteSet({[req |-> r, pub |-> p, dest |-> m, result |-> IF m \in failing THEN "FAILED" ELSE "SENT"] : m \in I})
    <3> DEFINE f == [m \in I |-> [req |-> r, pub |-> p, dest |-> m, result |-> IF m \in failing THEN "FAILED" ELSE "SENT"]]
               J == {[req |-> r, pub |-> p, dest |-> m, result |-> IF m \in failing THEN "FAILED" ELSE "SENT"] : m \in I}
    <3>1. f \in Surjection(I, J)
      BY DEF Surjection
    <3> HIDE DEF f, J
    <3>2. IsFiniteSet(J)
      BY <2>2, <3>1, FS_Surjection DEF I
    <3> QED BY <3>2 DEF J
  <2>4. IsFiniteSet(sends)
    BY <2>3 DEF I
  <2>5. \A e \in sends : e.req = r /\ e.pub = p /\ e.dest \in Remotes
    BY <2>1
  <2> QED BY <2>4, <2>5
<1>5. v = N!SetFold(u, sends)
  BY Zenon DEF SendTo, FoldSet, MapThenFoldSet, N!SetFold, N!SetStepped, N!SetSteps, N!Some
<1> HIDE DEF sends
<1>6. Sent(t, N!SetFold(u, sends), r, h, n)
  <2> DEFINE S == {x \in StateType : Sent(t, x, r, h, n)}
  <2>1. u \in S
    BY <1>3 DEF Sent, Good
  <2>2. ASSUME NEW x \in S, NEW e \in sends PROVE SendTo(x, e) \in S
    <3>1. SendTo(x, e) = SendPublication(x, r, p, e.dest, e.result) /\ e.dest \in Remotes \cup {"multicast"}
      BY <1>4 DEF SendTo
    <3>2. Good(x, h, n) /\ x.req[r].st = "live" /\ Sent(t, x, r, h, n)
      BY DEF Sent
    <3>3. Sent(x, SendTo(x, e), r, h, n)
      <4> DEFINE a == e.dest
                 b == e.result
      <4>1. a \in Remotes \cup {"multicast"}
        BY <3>1
      <4> HIDE DEF a, b
      <4>2. Sent(x, SendPublication(x, r, p, a, b), r, h, n)
        BY <3>2, <4>1, SendPublicationSent
      <4> QED BY <3>1, <4>2 DEF a, b
    <3>4. Sent(t, SendTo(x, e), r, h, n)
      BY <3>2, <3>3, SentTrans
    <3> QED BY <3>4 DEF Sent, Good
  <2> HIDE DEF S
  <2>3. IsFiniteSet(sends) /\ u \in S /\ \A x \in S, e \in sends : SendTo(x, e) \in S
    BY <1>4, <2>1, <2>2
  <2>4. N!SetFold(u, sends) \in S
    BY <2>3, SendsStay
  <2> QED BY <2>4 DEF S
<1> HIDE DEF v
<1>7. Sent(t, v, r, h, n) /\ v \in StateType
  BY <1>5, <1>6 DEF Sent, Good
<1>8. v.budget \in Int
  BY <1>7, Parts
<1> DEFINE x == SendToAll(t, p, r, mcast, failing)
<1>9. x \in StateType /\ Alike(v, x)
  <2>1. k \in Int
    <3>1. IsFiniteSet(failing)
      BY RemotesAssumption, FS_Subset
    <3>2. Cardinality(failing) \in Nat
      BY <3>1, FS_CardinalityType
    <3> QED BY <1>8, <3>2
  <2>2. x = [v EXCEPT !.budget = k]
    BY <1>1
  <2> HIDE DEF k, x
  <2> QED BY <1>7, <2>1, <2>2, PutBudget
<1>10. Sent(v, x, r, h, n)
  <2> HIDE DEF x
  <2>1. Good(v, h, n) /\ v.req[r].st = "live"
    BY <1>7 DEF Sent
  <2> QED BY <1>9, <2>1, AlikeSent
<1> QED BY <1>7, <1>10, SentTrans

--------------------------------------------------------------------------------
(* What was retained gives way. *)

\* The request that was retained is taken from its queue, and the one that was taken before it is given up.
Retire(t, p, e) == [CompleteExpired(t, e) EXCEPT !.pub[p].retQ = Tail(@)]
Turned(h, e, d) == [x \in Reqs |-> h[x] - Mine(e, x) + Mine(d, x)]
LEMMA CompleteAny ==
    ASSUME NEW t, NEW h, NEW n, Good(t, h, n), NEW e \in Reqs \cup {NULL}, e # NULL => h[e] > 0
    PROVE  LET i == [x \in Reqs |-> h[x] - Mine(e, x)]
               c == CompleteExpired(t, e)
           IN  Good(c, i, n) /\ Calm(t, c) /\ c.pub = t.pub
<1> DEFINE i == [x \in Reqs |-> h[x] - Mine(e, x)]
           c == CompleteExpired(t, e)
<1>1. Counts(h) /\ Counts(n)
  BY DEF Good
<1>2. CASE e = NULL
  <2>1. c = t
    BY <1>2 DEF CompleteExpired
  <2>2. \A x \in Reqs : h[x] = i[x]
    BY <1>1, <1>2, NotReq DEF Mine, Counts
  <2>3. i \in [Reqs -> Nat]
    BY <1>1, <2>2 DEF Counts
  <2> HIDE DEF i, c
  <2>4. Good(c, i, n)
    BY <1>1, <2>1, <2>2, <2>3, GoodPoint DEF Counts
  <2> QED BY <2>1, <2>4, CalmSelf DEF i, c
<1>3. CASE e # NULL
  <2>1. e \in Reqs /\ h[e] > 0
    BY <1>3
  <2>2. n[e] = 0
    BY <2>1, Placed
  <2>3. Good(c, Minus(h, e), n) /\ Calm(t, c) /\ c.pub = t.pub
    BY <1>3, <2>1, <2>2, CompleteExpiredIs
  <2>4. Counts(Minus(h, e)) /\ Minus(h, e)[e] = h[e] - 1 /\ \A x \in Reqs \ {e} : Minus(h, e)[x] = h[x]
    BY <1>1, <2>1, MinusIs
  <2>5. \A x \in Reqs : i[x] = Minus(h, e)[x]
    BY <1>1, <2>1, <2>4 DEF Mine, Counts
  <2>6. Counts(i)
    BY <2>4, <2>5 DEF Counts
  <2> HIDE DEF i, c
  <2>7. Good(c, i, n)
    BY <1>1, <2>3, <2>4, <2>5, <2>6, GoodPoint
  <2> QED BY <2>3, <2>7 DEF i, c
<1> QED BY <1>2, <1>3

LEMMA RetireGood ==
    ASSUME NEW t, NEW h, NEW n, Good(t, h, n), NEW e \in Reqs \cup {NULL}, e # NULL => h[e] > 0, NEW p \in Pubs,
           t.pub[p].retQ # <<>>
    PROVE  LET d == Head(t.pub[p].retQ)
               u == Retire(t, p, e)
           IN  /\ Good(u, Turned(h, e, d), n) /\ Around(t, u, {}) /\ d \in Reqs /\ n[d] = 0
               /\ u.pub[p].retQ = Tail(t.pub[p].retQ) /\ t.req[d].pub = p
<1> DEFINE c == CompleteExpired(t, e)
           i == [x \in Reqs |-> h[x] - Mine(e, x)]
           o == [c.pub[p] EXCEPT !.retQ = Tail(c.pub[p].retQ)]
           d == Head(t.pub[p].retQ)
           u == Retire(t, p, e)
<1>1. Good(c, i, n) /\ Calm(t, c) /\ c.pub = t.pub
  BY CompleteAny
<1>2. c \in StateType /\ c.pub \in [Pubs -> PubType] /\ c.pub[p] \in PubType
  BY <1>1, Parts DEF Good
<1>3. \A x \in Reqs : i[x] = h[x] - Mine(e, x)
  OBVIOUS
<1> HIDE DEF c, i
<1>4. u = SetPub(c, p, o)
  BY <1>2 DEF Retire, SetPub, StateType, c
<1>5. d \in Reqs /\ Joined(o, c.pub[p], d) /\ o \in PubType
  <2> DEFINE q == c.pub[p]
             a == Head(q.retQ)
             b == [q EXCEPT !.retQ = Tail(q.retQ)]
  <2>1. q.retQ # <<>> /\ q \in PubType /\ d = a /\ o = b
    BY <1>1, <1>2
  <2> HIDE DEF q, d, o
  <2>2. a \in Reqs /\ Joined(b, q, a) /\ b \in PubType
    <3>1. a \in Reqs
      BY <2>1 DEF PubType
    <3> QED BY <2>1, <3>1, JoinedIs
  <2> QED BY <2>1, <2>2 DEF q
<1>6. o.st = c.pub[p].st /\ o.retQ = Tail(t.pub[p].retQ)
  BY <1>1, <1>2 DEF PubType
<1> HIDE DEF d, o, u
<1>7. Good(SetPub(c, p, o), Plus(i, d), n) /\ c.req[d].pub = p /\ i[d] = 0 /\ n[d] = 0
  BY <1>1, <1>5, TakeRet
<1>8. SetPub(c, p, o).pub[p] = o /\ Apart(c, SetPub(c, p, o)) /\ SetPub(c, p, o).req = c.req
      /\ \A x \in Pubs \ {p} : SetPub(c, p, o).pub[x] = c.pub[x]
  BY <1>2, <1>5, SetPubIs
<1>9. Around(t, u, {})
  <2>1. PubsStay(c, u)
    BY <1>4, <1>6, <1>8 DEF PubsStay
  <2>2. Around(c, u, {})
    BY <1>4, <1>8, <2>1 DEF Around, Apart, SameReq, AcksTied
  <2>3. Around(t, c, {})
    BY <1>1, CalmAround
  <2>4. Around(t, u, {} \cup {})
    BY <2>2, <2>3, AroundTrans
  <2> QED BY <2>4
<1>10. Good(u, Turned(h, e, d), n)
  <2>1. Counts(i) /\ Counts(h)
    BY <1>1 DEF Good
  <2>2. Counts(Plus(i, d)) /\ Plus(i, d)[d] = i[d] + 1 /\ \A x \in Reqs \ {d} : Plus(i, d)[x] = i[x]
    BY <1>5, <2>1, PlusIs
  <2>3. \A x \in Reqs : Turned(h, e, d)[x] = i[x] + Mine(d, x)
    BY <1>3 DEF Turned
  <2>4. \A x \in Reqs : Turned(h, e, d)[x] = Plus(i, d)[x]
    BY <2>1, <2>2, <2>3 DEF Mine, Counts
  <2>5. Counts(Turned(h, e, d))
    BY <2>2, <2>4 DEF Counts, Turned
  <2>6. Counts(n)
    BY <1>1 DEF Good
  <2> QED BY <1>4, <1>7, <2>2, <2>4, <2>5, <2>6, GoodPoint
<1>11. t.req[d].pub = p
  BY <1>1, <1>5, <1>7 DEF Calm, SameReq
<1> QED BY <1>4, <1>5, <1>6, <1>7, <1>8, <1>9, <1>10, <1>11 DEF d, u

LEMMA CompletionAround ==
    ASSUME NEW t \in StateType, NEW r \in Reqs, t.req[r].st = "live" PROVE Around(t, PublishCompletion(t, r), {r})
<1> DEFINE u == PublishCompletion(t, r)
<1>1. /\ Apart(t, u) /\ u.pub = t.pub /\ t.req \in [Reqs -> ReqType]
      /\ u.req = [t.req EXCEPT ![r] = IF t.req[r].refs # 0 THEN t.req[r] ELSE Completed(t.req[r])]
  BY CompletionIs, Parts
<1> HIDE DEF u
<1>2. \A x \in Reqs \ {r} : u.req[x] = t.req[x]
  BY <1>1
<1>3. SamePlace(t.req[r], u.req[r])
  <2>1. SamePlace(t.req[r], Completed(t.req[r])) /\ SamePlace(t.req[r], t.req[r])
    BY <1>1 DEF Completed, SamePlace, ReqType
  <2> QED BY <1>1, <2>1
<1>4. PubsStay(t, u)
  BY <1>1 DEF PubsStay
<1> QED BY <1>1, <1>2, <1>3, <1>4, OnlyAround DEF Apart, u

\* A request is retained: it is put in the queue, with a reference.
Retain(t, p, r) == [t EXCEPT !.pub[p].retQ = Append(@, r), !.req[r].refs = @ + 1]
LEMMA RetainGood ==
    ASSUME NEW t, NEW h, NEW n, Good(t, h, n), NEW r \in Reqs, n[r] > 0, NEW p \in Pubs, t.req[r].pub = p
    PROVE  LET u == Retain(t, p, r)
           IN  Good(u, h, Minus(n, r)) /\ Around(t, u, {r}) /\ u.req[r].st = "live"
<1> DEFINE q == t.req[r]
           b == t.pub[p]
           w == [q EXCEPT !.refs = q.refs + 1]
           o == [b EXCEPT !.retQ = Append(b.retQ, r)]
           u == Retain(t, p, r)
<1>1. t \in StateType /\ q \in ReqType /\ b \in PubType /\ t.pub \in [Pubs -> PubType] /\ t.req \in [Reqs -> ReqType]
  BY Parts DEF Good
<1>2. u = SetBoth(t, r, w, p, o)
  BY <1>1 DEF Retain, SetBoth, StateType
<1>3. q.st = "live" /\ q.pub = p
  BY Placed
<1> HIDE DEF u, q, b
<1>4. w \in ReqType /\ SameUse(q, w) /\ w.refs = q.refs + 1 /\ w.st = "live" /\ SamePlace(q, w)
  BY <1>1, <1>3 DEF ReqType, SameUse, SamePlace
<1>5. Joined(b, o, r) /\ o \in PubType
  <2>1. Joined(b, o, r)
    BY <1>1, JoinedIs
  <2> HIDE DEF o
  <2> QED BY <2>1 DEF Joined
<1>6. o.st = b.st
  BY <1>1 DEF PubType
<1> HIDE DEF w, o
<1>7. Good(SetBoth(t, r, w, p, o), h, Minus(n, r))
  BY <1>3, <1>4, <1>5, Enqueue DEF q, b
<1>8. /\ Apart(t, SetBoth(t, r, w, p, o)) /\ SetBoth(t, r, w, p, o).req[r] = w
      /\ \A x \in Reqs \ {r} : SetBoth(t, r, w, p, o).req[x] = t.req[x]
      /\ SetBoth(t, r, w, p, o).pub[p] = o /\ \A x \in Pubs \ {p} : SetBoth(t, r, w, p, o).pub[x] = t.pub[x]
  BY <1>1, <1>4, <1>5, SetBothIs
<1>9. Around(t, u, {r})
  <2>1. PubsStay(t, u)
    BY <1>2, <1>6, <1>8 DEF PubsStay, b
  <2>2. SamePlace(t.req[r], u.req[r])
    BY <1>2, <1>4, <1>8 DEF q
  <2>3. \A x \in Reqs \ {r} : u.req[x] = t.req[x]
    BY <1>2, <1>8
  <2>4. u.ack = t.ack /\ u.ackQueue = t.ackQueue /\ u.net = t.net
    BY <1>2, <1>8 DEF Apart
  <2> QED BY <2>1, <2>2, <2>3, <2>4, OnlyAround
<1> QED BY <1>2, <1>4, <1>7, <1>8, <1>9 DEF u

LEMMA ReplaceGood ==
    ASSUME NEW t, NEW h, NEW n, Good(t, h, n), NEW e \in Reqs \cup {NULL}, e # NULL => h[e] > 0, NEW p \in Pubs,
           NEW r \in Reqs, n[r] = 1, t.req[r].pub = p
    PROVE  LET u == Replace(t, p, r, e)
               i == IF t.pub[p].retQ = <<>> THEN h ELSE Turned(h, e, Head(t.pub[p].retQ))
           IN  Good(u, i, Minus(n, r)) /\ Around(t, u, {r})
<1> DEFINE i == IF t.pub[p].retQ = <<>> THEN h ELSE Turned(h, e, Head(t.pub[p].retQ))
           v == IF t.pub[p].retQ = <<>> THEN t ELSE Retire(t, p, e)
           w == Retain(v, p, r)
           x == IF now < v.req[r].expires THEN w ELSE v
           u == Replace(t, p, r, e)
<1>1. u = PublishCompletion(x, r)
  BY Zenon DEF Replace, Retire, Retain
<1>2. Good(v, i, n) /\ Around(t, v, {})
  <2>1. CASE t.pub[p].retQ = <<>>
    <3>1. Around(t, t, {})
      BY CalmSelf, CalmAround
    <3> QED BY <2>1, <3>1
  <2>2. CASE t.pub[p].retQ # <<>>
    <3>1. Good(Retire(t, p, e), Turned(h, e, Head(t.pub[p].retQ)), n) /\ Around(t, Retire(t, p, e), {})
      BY <2>2, RetireGood
    <3> QED BY <2>2, <3>1
  <2> QED BY <2>1, <2>2
<1> HIDE DEF v, i, u
<1>3. v.req[r].pub = p /\ v.req[r].st = "live" /\ v \in StateType
  <2>1. SameReq(t.req[r], v.req[r])
    BY <1>2 DEF Around
  <2>2. v.req[r].st = "live"
    BY <1>2, Placed
  <2> QED BY <1>2, <2>1, <2>2 DEF SameReq, Good
<1>4. Counts(n) /\ Counts(Minus(n, r)) /\ Minus(n, r)[r] = 0 /\ \A y \in Reqs \ {r} : Minus(n, r)[y] = n[y]
  <2>1. Counts(n)
    BY DEF Good
  <2> QED BY <2>1, MinusIs
<1>5. Good(x, i, Minus(n, r)) /\ Around(v, x, {r}) /\ x.req[r].st = "live"
  <2>1. Good(w, i, Minus(n, r)) /\ Around(v, w, {r}) /\ w.req[r].st = "live"
    BY <1>2, <1>3, RetainGood
  <2>2. Good(v, i, Minus(n, r))
    <3>1. \A y \in Reqs : Minus(n, r)[y] <= n[y]
      BY <1>4 DEF Counts
    <3> QED BY <1>2, <1>4, <3>1, GoodLess
  <2>3. Around(v, v, {r})
    <3>1. PubsStay(v, v) /\ SamePlace(v.req[r], v.req[r])
      BY DEF PubsStay, SamePlace
    <3> QED BY <3>1, OnlyAround
  <2> HIDE DEF w
  <2> QED BY <1>3, <2>1, <2>2, <2>3
<1> HIDE DEF x
<1>6. Good(u, i, Minus(n, r)) /\ Around(x, u, {r})
  <2>1. x \in StateType
    BY <1>5 DEF Good
  <2> QED BY <1>1, <1>4, <1>5, <2>1, CompletionGood, CompletionAround
<1>7. Around(t, u, {r})
  <2>1. Around(v, u, {r} \cup {r})
    BY <1>5, <1>6, AroundTrans
  <2>2. {r} \cup {r} = {r} /\ {} \cup {r} = {r}
    OBVIOUS
  <2>3. Around(v, u, {r})
    BY <2>1, <2>2
  <2>4. Around(t, u, {} \cup {r})
    BY <1>2, <2>3, AroundTrans
  <2> QED BY <2>2, <2>4
<1> QED BY <1>6, <1>7 DEF u, i

Turns(f, e, z) == [f EXCEPT !.at = "queue", !.req = NULL, !.expired = e, !.reschedule = z]
LEMMA PubsTurn ==
    ASSUME NEW f, IsPubs(f), f.at # "next", NEW e \in Reqs \cup {NULL}, NEW z \in Int \cup {NULL}
    PROVE  LET g == Turns(f, e, z) IN IsPubs(g) /\ g.at = "queue" /\ g.expired = e /\ g.k = "pubs"
BY DEF IsPubs, Turns
LEMMA SendRemotesStep == ASSUME Inv(s, loop, app), now \in Nat, SendRemotes PROVE Inv(s', loop', app')
<1> DEFINE f == Top
           p == f.pub
           r == f.req
           d == IF s.pub[p].retQ = <<>> THEN f.expired ELSE Head(s.pub[p].retQ)
           z == IF now < s.req[r].expires THEN Sooner(f.reschedule, s.req[r].expires) ELSE f.reschedule
           g == Turns(f, d, z)
           h == HeldBy(loop)
           n == UsedBy(loop, app)
<1>1. loop # <<>> /\ f.k = "pubs" /\ f.at = "remotes" /\ app' = app
  BY DEF SendRemotes, At
<1>2. loop = <<f>> /\ IsPubs(f)
  BY <1>1, TopPubs DEF Inv
<1>3. PICK mcast \in IF s.mcast THEN Results ELSE {"SENT"}, failing \in SUBSET s.remotes :
         s' = Replace(SendToAll(s, p, r, mcast, failing), p, r, f.expired)
  <2>1. \E mcast \in IF s.mcast THEN Results ELSE {"SENT"}, failing \in SUBSET s.remotes :
                LET t == SendToAll(s, Top.pub, Top.req, mcast, failing)
                IN  /\ failing \subseteq Interested(s, Top.req, Top.pub) /\ t.budget >= 0
                    /\ s' = Replace(t, Top.pub, Top.req, Top.expired)
    BY Zenon DEF SendRemotes
  <2> QED BY <2>1
<1>4. loop' = Append(Front(loop), g)
  BY DEF SendRemotes, Resume, Turns
<1>5. Front(loop) = <<>>
  BY <1>2, Fronts
<1>6. s \in StateType /\ Good(s, h, n) /\ FrameOK(s, f) /\ failing \subseteq Remotes
  BY <1>2, FramedTuples, Parts DEF Inv, Good
<1> HIDE DEF f
<1>7. p \in Pubs /\ r \in Reqs /\ f.expired \in Reqs \cup {NULL} /\ f.reschedule \in Int \cup {NULL}
  BY <1>1, <1>2 DEF IsPubs
<1>8. ASSUME NEW x \in Reqs PROVE h[x] = Mine(f.expired, x) /\ n[x] = Mine(r, x) + Mine(app, x)
  BY <1>1, <1>2, HeldOne, UsedOne, PubsCount DEF Mine
<1>9. s.req[r].pub = p
  BY <1>1, <1>6 DEF FrameOK
<1> HIDE DEF h, n
<1>10. n[r] = 1 /\ app # r /\ s.req[r].st = "live"
  <2>1. n[r] = 1 + Mine(app, r) /\ Mine(app, r) \in Nat
    BY <1>7, <1>8, UsesType DEF Mine
  <2>2. n[r] = 1 /\ s.req[r].st = "live"
    BY <1>6, <1>7, <2>1, Placed
  <2> QED BY <2>1, <2>2 DEF Mine
<1> DEFINE t == SendToAll(s, p, r, mcast, failing)
<1>11. Sent(s, t, r, h, n)
  BY <1>6, <1>7, <1>10, AllSent
<1> HIDE DEF t
<1>12. Good(t, h, n) /\ t.req[r].pub = p /\ t.pub[p].retQ = s.pub[p].retQ /\ Around(s, t, {r})
  BY <1>7, <1>9, <1>11 DEF Sent, Around, SamePlace, SameQueues
<1> DEFINE e == f.expired
           i == IF t.pub[p].retQ = <<>> THEN h ELSE Turned(h, e, Head(t.pub[p].retQ))
           u == Replace(t, p, r, e)
<1>13. e \in Reqs \cup {NULL} /\ (e # NULL => h[e] > 0)
  BY <1>7, <1>8 DEF Mine
<1>14. Good(u, i, Minus(n, r)) /\ Around(t, u, {r})
  <2> HIDE DEF e
  <2> QED BY <1>7, <1>10, <1>12, <1>13, ReplaceGood
<1>15. s' = u
  BY <1>3 DEF t
<1>16. d \in Reqs \cup {NULL}
  <2>1. s.pub[p] \in PubType
    BY <1>6, <1>7, Parts
  <2>2. s.pub[p].retQ \in Seq(Reqs)
    BY <2>1 DEF PubType
  <2> QED BY <1>7, <2>2
<1>17. z \in Int \cup {NULL}
  <2>1. s.req[r] \in ReqType
    BY <1>6, <1>7, Parts
  <2>2. s.req[r].expires \in Int
    BY <2>1 DEF ReqType
  <2> QED BY <1>7, <2>2 DEF Sooner
<1>18. \A x \in Reqs : i[x] = Mine(d, x)
  <2>1. CASE s.pub[p].retQ = <<>>
    BY <1>8, <1>12, <2>1
  <2>2. CASE s.pub[p].retQ # <<>>
    <3>1. d = Head(t.pub[p].retQ) /\ i = Turned(h, e, d)
      BY <1>12, <2>2
    <3> HIDE DEF d, i
    <3>2. ASSUME NEW x \in Reqs PROVE i[x] = Mine(d, x)
      <4>1. i[x] = h[x] - Mine(e, x) + Mine(d, x)
        BY <3>1 DEF Turned
      <4>2. h[x] = Mine(e, x) /\ Mine(e, x) \in Nat /\ Mine(d, x) \in Nat
        BY <1>8, UsesType
      <4> QED BY <4>1, <4>2
    <3> QED BY <3>2
  <2> QED BY <2>1, <2>2
<1>19. \A x \in Reqs : Minus(n, r)[x] = Mine(app, x)
  <2>1. Counts(n)
    BY <1>6 DEF Good
  <2>2. Minus(n, r)[r] = 0 /\ \A x \in Reqs \ {r} : Minus(n, r)[x] = n[x]
    BY <1>7, <1>10, <2>1, MinusIs
  <2>3. ASSUME NEW x \in Reqs, x # r PROVE n[x] = Mine(app, x)
    <3>1. n[x] = Mine(r, x) + Mine(app, x) /\ Mine(app, x) \in Nat /\ Mine(r, x) = 0
      BY <1>8, <2>3, UsesType DEF Mine
    <3> QED BY <3>1
  <2> QED BY <1>10, <2>2, <2>3 DEF Mine
<1> HIDE DEF i, u, z, d
<1>20. IsPubs(g) /\ g.at = "queue" /\ g.expired = d /\ g.k = "pubs"
  BY <1>1, <1>2, <1>16, <1>17, PubsTurn
<1> HIDE DEF g
<1>21. FrameOK(u, g) /\ Single(g)
  BY <1>20 DEF FrameOK, Single
<1>22. \A x \in Reqs : i[x] = Holds(g, x) /\ Minus(n, r)[x] = Uses(g, x) + Mine(app, x)
  <2>1. ASSUME NEW x \in Reqs PROVE Holds(g, x) = Mine(d, x) /\ Uses(g, x) + Mine(app, x) = Mine(app, x)
    BY <1>20, UsesType, PubsCount DEF Mine
  <2> QED BY <1>18, <1>19, <2>1
<1>23. Around(s, u, {r})
  <2>1. Around(s, u, {r} \cup {r})
    BY <1>7, <1>12, <1>14, AroundTrans
  <2>2. {r} \cup {r} = {r}
    OBVIOUS
  <2> QED BY <2>1, <2>2
<1>24. Inv(u, <<g>>, app)
  <2>1. {r} \subseteq Reqs /\ app \notin {r}
    BY <1>7, <1>10
  <2> QED BY <1>14, <1>21, <1>22, <1>23, <2>1, InvAround
<1>25. loop' = <<g>>
  BY <1>4, <1>5, Appends DEF g, d, z
<1> QED BY <1>1, <1>15, <1>24, <1>25

--------------------------------------------------------------------------------
(* A publication whose queue is empty is left. *)

Leaves(f) == [f EXCEPT !.at = "next", !.pub = NULL, !.expired = NULL]
LEMMA LeavesIs == ASSUME NEW f, IsPubs(f) PROVE LET g == Leaves(f) IN IsPubs(g) /\ Free(g) /\ g.k = "pubs" /\ g.at = "next"
<1> DEFINE g == Leaves(f)
<1>1. IsPubs(g) /\ g.k = "pubs" /\ g.at = "next" /\ g.expired = NULL
  BY DEF IsPubs, Leaves
<1> HIDE DEF g
<1>2. ASSUME NEW r \in Reqs PROVE Holds(g, r) = 0 /\ Uses(g, r) = 0
  BY <1>1, PubsCount, NotReq
<1> QED BY <1>1, <1>2 DEF Free, g
LEMMA LeaveStep ==
    ASSUME NEW t, NEW f, IsPubs(f), f.at \in {"done", "expiring"}, Inv(t, <<f>>, app), Front(loop) = <<>>, NEW expire,
           LeavePub(t, f, expire), app' = app
    PROVE  Inv(s', loop', app')
<1> DEFINE h == HeldBy(<<f>>)
           n == UsedBy(<<f>>, app)
           e == f.expired
           p == f.pub
           u == IF expire THEN ExpirePub(t, p) ELSE t
           v == CompleteExpired(u, e)
           w == PublicationDecRef(v, p)
           g == Leaves(f)
           i == [x \in Reqs |-> h[x] - Mine(e, x)]
<1>1. s' = w /\ loop' = Append(Front(loop), g)
  BY Zenon DEF LeavePub, Resume, Leaves
<1>2. loop' = <<g>>
  BY <1>1, Appends
<1>3. e \in Reqs \cup {NULL} /\ p \in Pubs
  BY DEF IsPubs
<1>4. Good(t, h, n) /\ AppOK(t, app) /\ AcksTied(t) /\ ReqsTied(t)
  BY DEF Inv
<1>5. ASSUME NEW x \in Reqs PROVE h[x] = Mine(e, x) /\ n[x] = Mine(app, x)
  <2>1. h[x] = Holds(f, x) /\ n[x] = Uses(f, x) + Mine(app, x) /\ Mine(app, x) \in Nat
    BY HeldOne, UsedOne, UsesType
  <2> QED BY <2>1, PubsCount DEF Mine
<1> HIDE DEF h, n
<1>6. Fine(t, u, h, n)
  <2>1. Fine(t, t, h, n)
    BY <1>4, FineSelf
  <2>2. Fine(t, ExpirePub(t, p), h, n)
    BY <1>3, <1>4, ExpirePubGood
  <2> QED BY <2>1, <2>2
<1> HIDE DEF u
<1>7. Good(v, i, n) /\ Calm(u, v)
  <2>1. e # NULL => h[e] > 0
    BY <1>3, <1>5 DEF Mine
  <2>2. Good(u, h, n)
    BY <1>6 DEF Fine
  <2> HIDE DEF e
  <2> QED BY <1>3, <2>1, <2>2, CompleteAny
<1>8. \A x \in Reqs : i[x] = 0
  BY <1>5, UsesType
<1> HIDE DEF i, v
<1>9. Fine(v, w, i, n)
  <2> HIDE DEF p
  <2> QED BY <1>3, <1>7, DecRefGood
<1>10. Calm(t, w) /\ Good(w, i, n)
  BY <1>6, <1>7, <1>9, CalmTrans DEF Fine
<1> HIDE DEF w
<1>11. Around(t, w, {})
  BY <1>10, CalmAround
<1>12. IsPubs(g) /\ Free(g) /\ g.k = "pubs" /\ g.at = "next"
  BY LeavesIs
<1> HIDE DEF g
<1>13. FrameOK(w, g) /\ Single(g)
  BY <1>12 DEF FrameOK, Single
<1>14. \A x \in Reqs : i[x] = Holds(g, x) /\ n[x] = Uses(g, x) + Mine(app, x)
  BY <1>5, <1>8, <1>12, UsesType DEF Free
<1>15. Inv(w, <<g>>, app)
  <2>1. {} \subseteq Reqs /\ app \notin {}
    OBVIOUS
  <2> QED BY <1>10, <1>11, <1>13, <1>14, <2>1, InvAround
<1> QED BY <1>1, <1>2, <1>15

Expires(f, d) == [f EXCEPT !.expired = d]
LEMMA ExpiresIs ==
    ASSUME NEW f, IsPubs(f), f.at # "next", NEW d \in Reqs
    PROVE  LET g == Expires(f, d) IN IsPubs(g) /\ g.k = "pubs" /\ g.at = f.at /\ g.expired = d /\ g.pub = f.pub
BY DEF IsPubs, Expires
LEMMA RetireStep ==
    ASSUME NEW t, NEW f, NEW a, IsPubs(f), f.at = "done", Inv(t, <<f>>, a), t.pub[f.pub].retQ # <<>>
    PROVE  LET d == Head(t.pub[f.pub].retQ)
               g == Expires(f, d)
           IN  Inv(Retire(t, f.pub, f.expired), <<g>>, a) /\ IsPubs(g) /\ g.at = "done" /\ g.pub = f.pub /\ g.expired = d
               /\ d \in Reqs
<1> DEFINE h == HeldBy(<<f>>)
           n == UsedBy(<<f>>, a)
           e == f.expired
           p == f.pub
           d == Head(t.pub[p].retQ)
           u == Retire(t, p, e)
           g == Expires(f, d)
<1>1. e \in Reqs \cup {NULL} /\ p \in Pubs
  BY DEF IsPubs
<1>2. Good(t, h, n)
  BY DEF Inv
<1>3. ASSUME NEW x \in Reqs PROVE h[x] = Mine(e, x) /\ n[x] = Mine(a, x)
  <2>1. h[x] = Holds(f, x) /\ n[x] = Uses(f, x) + Mine(a, x) /\ Mine(a, x) \in Nat
    BY HeldOne, UsedOne, UsesType
  <2> QED BY <2>1, PubsCount DEF Mine
<1> HIDE DEF h, n
<1>4. Good(u, Turned(h, e, d), n) /\ Around(t, u, {}) /\ d \in Reqs
  <2>1. e # NULL => h[e] > 0
    BY <1>1, <1>3 DEF Mine
  <2>2. t.pub[p].retQ # <<>>
    OBVIOUS
  <2> HIDE DEF e, p
  <2> QED BY <1>1, <1>2, <2>1, <2>2, RetireGood
<1> DEFINE i == Turned(h, e, d)
<1> HIDE DEF d, u
<1>5. \A x \in Reqs : i[x] = Mine(d, x)
  <2>1. \A x \in Reqs : i[x] = h[x] - Mine(e, x) + Mine(d, x)
    BY DEF Turned
  <2>2. ASSUME NEW x \in Reqs PROVE i[x] = Mine(d, x)
    <3>1. h[x] = Mine(e, x) /\ Mine(e, x) \in Nat /\ Mine(d, x) \in Nat
      BY <1>3, UsesType
    <3> QED BY <2>1, <3>1
  <2> QED BY <2>2
<1>6. IsPubs(g) /\ g.k = "pubs" /\ g.at = "done" /\ g.expired = d /\ g.pub = p
  BY <1>4, ExpiresIs
<1> HIDE DEF g, i
<1>7. FrameOK(u, g) /\ Single(g)
  BY <1>6 DEF FrameOK, Single
<1>8. ASSUME NEW x \in Reqs PROVE i[x] = Holds(g, x) /\ n[x] = Uses(g, x) + Mine(a, x)
  <2>1. Holds(g, x) = Mine(d, x) /\ Uses(g, x) = 0 /\ Mine(a, x) \in Nat
    BY <1>6, PubsCount, UsesType DEF Mine
  <2> QED BY <1>3, <1>5, <2>1
<1>9. Inv(u, <<g>>, a)
  <2>1. {} \subseteq Reqs /\ a \notin {}
    OBVIOUS
  <2> QED BY <1>4, <1>7, <1>8, <2>1, InvAround DEF i
<1> QED BY <1>4, <1>6, <1>9 DEF u, g, d

\* What was retained is due: the handlers are told.
LEMMA ExpiringIs ==
    ASSUME NEW f, IsPubs(f), f.at # "next", f.expired \in Reqs
    PROVE  LET g == [f EXCEPT !.at = "expiring"]
           IN  IsPubs(g) /\ g.k = "pubs" /\ g.at = "expiring" /\ g.expired = f.expired
BY DEF IsPubs
LEMMA HandlersFrameIs ==
    ASSUME NEW t \in StateType, NEW r \in Reqs
    PROVE  LET e == HandlersFrame(t, r) IN IsHandlers(e) /\ e.req = r /\ e.k = "handlers"
<1> DEFINE e == HandlersFrame(t, r)
           x == First(t.subscriptions)
<1>1. t.subscriptions \in Seq(Subs)
  BY Parts
<1>2. x \in Subs \cup {NULL}
  BY <1>1, FirstIs
<1>3. e = [k |-> "handlers", at |-> "walking", req |-> r, sub |-> NULL, next |-> x, parsed |-> FALSE, copy |-> NULL]
  BY DEF HandlersFrame
<1> HIDE DEF x, e
<1>4. IsHandlers(e) /\ e.req = r /\ e.k = "handlers"
  BY <1>2, <1>3 DEF IsHandlers
<1> QED BY <1>4 DEF e
LEMMA ExpiredPub ==
    ASSUME NEW t \in StateType, NEW p \in Pubs
    PROVE  Does(t, [t EXCEPT !.pub[p].flags = @ \cup {"EXPIRED"}, !.pub[p].ttl = -1])
<1> DEFINE u == [t EXCEPT !.pub[p].flags = @ \cup {"EXPIRED"}, !.pub[p].ttl = -1]
           q == t.pub[p]
           flags == q.flags \cup {"EXPIRED"}
           w == [q EXCEPT !.flags = flags]
           o == [w EXCEPT !.ttl = -1]
<1>1. t.pub \in [Pubs -> PubType] /\ q \in PubType
  BY Parts
<1>2. u = SetPub(t, p, o)
  BY <1>1 DEF SetPub, StateType, PubType
<1>3. flags \in SUBSET Flags
  BY <1>1 DEF PubType, Flags
<1> HIDE DEF flags, q
<1>4. w \in PubType /\ SameQueues(q, w) /\ SamePub(q, w)
  BY <1>1, <1>3, PubFlags
<1> HIDE DEF w
<1>5. o \in PubType /\ SameQueues(w, o) /\ SamePub(w, o)
  BY <1>4, PubTtl
<1> HIDE DEF o
<1>6. SameQueues(q, o) /\ SamePub(q, o)
  BY <1>4, <1>5 DEF SameQueues, SamePub
<1> HIDE DEF u
<1>7. Does(t, u)
  BY <1>2, <1>5, <1>6, SetPubDoes DEF q
<1> QED BY <1>7 DEF u
LEMMA ExpiringStep ==
    ASSUME NEW t, NEW f, NEW a, IsPubs(f), f.at = "done", Inv(t, <<f>>, a), f.expired # NULL, NEW u, Does(t, u)
    PROVE  Inv(u, <<[f EXCEPT !.at = "expiring"], HandlersFrame(u, f.expired)>>, a)
<1> DEFINE h == HeldBy(<<f>>)
           n == UsedBy(<<f>>, a)
           g == [f EXCEPT !.at = "expiring"]
           d == f.expired
           e == HandlersFrame(u, d)
           m == <<g, e>>
<1>1. d \in Reqs
  BY DEF IsPubs
<1>2. Good(t, h, n)
  BY DEF Inv
<1>3. Fine(t, u, h, n) /\ u \in StateType
  BY <1>2, FineDoes DEF Does
<1>4. Inv(u, <<f>>, a)
  BY <1>3, InvFine
<1>5. u.req[d].st = "live"
  <2>1. h[d] = Holds(f, d)
    BY <1>1, HeldOne
  <2>2. h[d] > 0
    BY <1>1, <2>1, PubsCount
  <2>3. Good(u, h, n)
    BY <1>3 DEF Fine
  <2> HIDE DEF h, n, d
  <2> QED BY <1>1, <2>2, <2>3, Placed
<1> HIDE DEF h, n
<1>6. IsPubs(g) /\ g.k = "pubs" /\ g.at = "expiring" /\ g.expired = d
  BY <1>1, ExpiringIs
<1>7. IsHandlers(e) /\ e.req = d /\ e.k = "handlers"
  BY <1>1, <1>3, HandlersFrameIs
<1> HIDE DEF g, d, e
<1>8. Shape(m)
  BY <1>6, <1>7 DEF Shape, Double
<1>9. Framed(u, m)
  <2>1. FrameOK(u, g) /\ FrameOK(u, e)
    BY <1>5, <1>6, <1>7 DEF FrameOK
  <2> QED BY <2>1, FramedTuples
<1>10. ASSUME NEW x \in Reqs PROVE HeldBy(m)[x] = HeldBy(<<f>>)[x] /\ UsedBy(m, a)[x] = UsedBy(<<f>>, a)[x]
  <2>1. HeldBy(m)[x] = Holds(g, x) /\ UsedBy(m, a)[x] = Uses(g, x) + Uses(e, x) + Mine(a, x)
    BY HeldTwo, UsedTwo
  <2>2. HeldBy(<<f>>)[x] = Holds(f, x) /\ UsedBy(<<f>>, a)[x] = Uses(f, x) + Mine(a, x)
    BY HeldOne, UsedOne
  <2>3. Holds(g, x) = Holds(f, x)
    BY <1>6, PubsCount DEF d
  <2>4. Uses(g, x) = 0 /\ Uses(f, x) = 0 /\ Uses(e, x) = 0 /\ Mine(a, x) \in Nat
    BY <1>6, <1>7, PubsCount, HandlersCount, UsesType
  <2> QED BY <2>1, <2>2, <2>3, <2>4
<1> HIDE DEF m
<1>11. Inv(u, m, a)
  BY <1>4, <1>8, <1>9, <1>10, InvStack DEF SameStack
<1> QED BY <1>11 DEF m, g, e, d

LEMMA SendExpiredStep == ASSUME Inv(s, loop, app), SendExpired PROVE Inv(s', loop', app')
<1>1. loop # <<>> /\ Top.k = "pubs" /\ Top.at = "expiring" /\ app' = app /\ LeavePub(s, Top, TRUE)
  BY DEF SendExpired, At
<1>2. loop = <<Top>> /\ IsPubs(Top)
  BY <1>1, TopPubs DEF Inv
<1>3. Front(loop) = <<>>
  BY <1>2, Fronts
<1>4. Inv(s, <<Top>>, app)
  BY <1>2
<1> QED BY <1>1, <1>2, <1>3, <1>4, LeaveStep

LEMMA SendDoneStep == ASSUME Inv(s, loop, app), SendDone PROVE Inv(s', loop', app')
<1> DEFINE f == Top
           p == f.pub
           due == s.pub[p].retQ # <<>> /\ s.req[Head(s.pub[p].retQ)].expires <= now
           t == IF due THEN Retire(s, p, f.expired) ELSE s
           g == IF due THEN Expires(f, Head(s.pub[p].retQ)) ELSE f
           u == [t EXCEPT !.pub[p].flags = @ \cup {"EXPIRED"}, !.pub[p].ttl = -1]
           e == HandlersFrame(u, g.expired)
           w == [g EXCEPT !.at = "expiring"]
<1>1. loop # <<>> /\ f.k = "pubs" /\ f.at = "done" /\ app' = app
  BY DEF SendDone, At
<1>2. loop = <<f>> /\ IsPubs(f)
  BY <1>1, TopPubs DEF Inv
<1>3. Front(loop) = <<>>
  BY <1>2, Fronts
<1>4. \/ LeavePub(t, g, FALSE)
      \/ LeavePub(t, g, TRUE)
      \/ g.expired # NULL /\ s' = u /\ loop' = Front(loop) \o <<w, e>>
  BY Zenon DEF SendDone, Retire, Expires
<1>5. Inv(s, <<f>>, app)
  BY <1>2
<1> HIDE DEF f, due
<1>6. Inv(t, <<g>>, app) /\ IsPubs(g) /\ g.at = "done" /\ g.pub = p
  <2>1. CASE due
    <3>1. s.pub[p].retQ # <<>>
      BY <2>1 DEF due
    <3>2. /\ Inv(Retire(s, p, f.expired), <<Expires(f, Head(s.pub[p].retQ))>>, app) /\ IsPubs(Expires(f, Head(s.pub[p].retQ)))
          /\ Expires(f, Head(s.pub[p].retQ)).at = "done" /\ Expires(f, Head(s.pub[p].retQ)).pub = p
      BY <1>1, <1>2, <1>5, <3>1, RetireStep
    <3> QED BY <2>1, <3>2
  <2>2. CASE ~due
    BY <1>1, <1>2, <1>5, <2>2
  <2> QED BY <2>1, <2>2
<1> HIDE DEF t, g
<1>7. ASSUME NEW x, LeavePub(t, g, x) PROVE Inv(s', loop', app')
  BY <1>1, <1>3, <1>6, <1>7, LeaveStep
<1>8. CASE g.expired # NULL /\ s' = u /\ loop' = Front(loop) \o <<w, e>>
  <2>1. t \in StateType /\ p \in Pubs
    BY <1>6 DEF Inv, Good, IsPubs
  <2>2. Does(t, u)
    BY <2>1, ExpiredPub
  <2> HIDE DEF u
  <2>3. Inv(u, <<w, e>>, app)
    BY <1>6, <1>8, <2>2, ExpiringStep
  <2> HIDE DEF w, e
  <2>4. loop' = <<w, e>>
    BY <1>3, <1>8, Appends
  <2> QED BY <1>1, <1>8, <2>3, <2>4
<1> QED BY <1>4, <1>7, <1>8

--------------------------------------------------------------------------------
(* Acknowledgements. *)

LEMMA AckFrameIs ==
    ASSUME NEW p \in Pubs PROVE LET g == AckFrame(p) IN IsAck(g) /\ g.k = "ack" /\ g.pub = p
BY DEF AckFrame, IsAck
\* A frame of another kind counts nothing.
LEMMA OtherFree == ASSUME NEW g, g.k \in {"ack", "acks", "handlers"} PROVE Free(g) /\ (g.k = "ack" => \A t : FrameOK(t, g))
BY DEF Free, Holds, Uses, FrameOK
LEMMA TopAck ==
    ASSUME Shape(loop), loop # <<>>, Top.k = "ack"
    PROVE  /\ IsAck(Top)
           /\ \/ loop = <<Top>>
              \/ \E f : IsAcks(f) /\ f.at = "looping_back" /\ loop = <<f, Top>>
<1>1. ASSUME NEW f, NEW g, NEW e, IsHandlers(e) PROVE loop # <<f, g, e>>
  <2>1. SUFFICES ASSUME loop = <<f, g, e>> PROVE FALSE
    OBVIOUS
  <2>2. Top = e
    BY <2>1, Stacks DEF Top
  <2> QED BY <1>1, <2>2 DEF IsHandlers
<1>2. ~(\E f, g, e : Triple(f, g, e) /\ loop = <<f, g, e>>)
  BY <1>1 DEF Triple
<1>3. CASE \E f : Single(f) /\ loop = <<f>>
  <2>1. PICK f : Single(f) /\ loop = <<f>>
    BY <1>3
  <2>2. Top = f
    BY <2>1, Stacks DEF Top
  <2> QED BY <2>1, <2>2 DEF Single, IsPubs, IsDecode, IsAcks
<1>4. CASE \E f, g : Double(f, g) /\ loop = <<f, g>>
  <2>1. PICK f, g : Double(f, g) /\ loop = <<f, g>>
    BY <1>4
  <2>2. Top = g
    BY <2>1, Stacks DEF Top
  <2>3. IsAcks(f) /\ f.at = "looping_back" /\ IsAck(g)
    BY <2>1, <2>2 DEF Double, IsDecode, IsHandlers
  <2> QED BY <2>1, <2>2, <2>3
<1> QED BY <1>2, <1>3, <1>4 DEF Shape
LEMMA AckHandlerReturnsStep == ASSUME Inv(s, loop, app), AckHandlerReturns PROVE Inv(s', loop', app')
<1> DEFINE g == Top
           u == PublicationDecRef(s, g.pub)
<1>1. loop # <<>> /\ g.k = "ack" /\ app' = app /\ s' = u /\ loop' = Front(loop)
  BY DEF AckHandlerReturns, At, Return
<1>2. Shape(loop) /\ Good(s, HeldBy(loop), UsedBy(loop, app))
  BY DEF Inv
<1>3. IsAck(g) /\ (loop = <<g>> \/ \E f : IsAcks(f) /\ f.at = "looping_back" /\ loop = <<f, g>>)
  BY <1>1, <1>2, TopAck
<1> HIDE DEF g
<1>4. g.pub \in Pubs
  BY <1>3 DEF IsAck
<1>5. Inv(u, loop, app)
  <2>1. Fine(s, u, HeldBy(loop), UsedBy(loop, app))
    BY <1>2, <1>4, DecRefGood
  <2> HIDE DEF u
  <2> QED BY <2>1, InvFine
<1> HIDE DEF u
<1>6. Inv(u, Front(loop), app)
  <2>1. CASE loop = <<g>>
    <3>1. Free(g) /\ Front(loop) = <<>>
      BY <1>1, <2>1, OtherFree, Fronts
    <3> QED BY <1>5, <2>1, <3>1, Pop
  <2>2. ASSUME NEW f, IsAcks(f), f.at = "looping_back", loop = <<f, g>> PROVE Inv(u, Front(loop), app)
    <3>1. Front(loop) = <<f>> /\ f.k = "acks"
      BY <2>2, Fronts DEF IsAcks
    <3>2. FrameOK(u, f)
      BY <1>5, <2>2, FramedTuples DEF Inv
    <3>3. Shape(<<f>>) /\ Framed(u, <<f>>)
      BY <2>2, <3>2, FramedTuples DEF Shape, Single
    <3>4. ASSUME NEW x \in Reqs PROVE HeldBy(<<f>>)[x] = HeldBy(loop)[x] /\ UsedBy(<<f>>, app)[x] = UsedBy(loop, app)[x]
      <4>1. HeldBy(<<f>>)[x] = Holds(f, x) /\ UsedBy(<<f>>, app)[x] = Uses(f, x) + Mine(app, x)
        BY HeldOne, UsedOne
      <4>2. HeldBy(loop)[x] = Holds(f, x) /\ UsedBy(loop, app)[x] = Uses(f, x) + Uses(g, x) + Mine(app, x)
        BY <2>2, HeldTwo, UsedTwo
      <4>3. Uses(g, x) = 0 /\ Mine(app, x) \in Nat /\ Uses(f, x) \in Nat
        BY <1>1, OtherFree, UsesType DEF Free
      <4> QED BY <4>1, <4>2, <4>3
    <3>5. Inv(u, <<f>>, app)
      BY <1>5, <3>3, <3>4, InvStack DEF SameStack
    <3> QED BY <3>1, <3>5
  <2> QED BY <1>3, <2>1, <2>2
<1> QED BY <1>1, <1>6

\* An acknowledgement is sent, or forwarded; a send of one ends.
LEMMA OtherNet ==
    ASSUME NEW t, NEW l, NEW a, Inv(t, l, a), NEW b, IsNet(b), \A r \in Reqs : Weigh(b, OfReq(r)) = Flying(t, r),
           \A m \in DOMAIN b : m.kind = "ack" => t.ack[m.of].st # "unused"
    PROVE  Inv([t EXCEPT !.net = b], l, a)
<1> DEFINE u == [t EXCEPT !.net = b]
<1>1. t \in StateType /\ Good(t, HeldBy(l), UsedBy(l, a)) /\ AcksTied(t)
  BY DEF Inv, Good
<1>2. u \in StateType /\ u.net = b /\ u.req = t.req /\ u.pub = t.pub /\ u.fault = t.fault /\ u.ack = t.ack
      /\ u.ackQueue = t.ackQueue
  BY <1>1, PutNet
<1> HIDE DEF u
<1>3. Good(u, HeldBy(l), UsedBy(l, a))
  <2> DEFINE h == HeldBy(l)  n == UsedBy(l, a)
  <2>1. Counts(h) /\ Counts(n) /\ "request_refCount" \notin u.fault /\ \A r \in Reqs : ReqOK(t, h, n, r)
    BY <1>1, <1>2 DEF Good
  <2> HIDE DEF h, n
  <2>2. ASSUME NEW r \in Reqs PROVE ReqOK(u, h, n, r)
    <3>1. Flying(u, r) = Flying(t, r)
      BY <1>2 DEF Flying
    <3>2. \A p \in Pubs : Queued(u, r, p) = Queued(t, r, p)
      BY <1>2 DEF Queued, Queue
    <3>3. ReqOK(t, h, n, r)
      BY <2>1
    <3> QED BY <1>2, <3>1, <3>2, <3>3, ReqSame
  <2>3. Good(u, h, n)
    BY <1>2, <2>1, <2>2 DEF Good
  <2> QED BY <2>3 DEF h, n
<1>4. Stable(t, u) /\ PubsStay(t, u)
  BY <1>2 DEF Stable, PubsStay, SameReq
<1>5. AcksTied(u)
  BY <1>1, <1>2 DEF AcksTied
<1>6. Inv(u, l, a)
  BY <1>3, <1>4, <1>5, InvStable
<1> QED BY <1>6 DEF u
LEMMA PostOther ==
    ASSUME NEW t, NEW l, NEW a, Inv(t, l, a), NEW m \in Message, m.kind # "pub", m.kind = "ack" => t.ack[m.of].st # "unused"
    PROVE  Inv(Post(t, m), l, a)
<1> DEFINE b == t.net (+) SetToBag({m})
<1>1. t \in StateType /\ AcksTied(t)
  BY DEF Inv, Good
<1>2. IsNet(t.net)
  BY <1>1, Parts
<1>3. /\ IsNet(b) /\ \A S : Weigh(b, S) = Weigh(t.net, S) + IF m \in S THEN 1 ELSE 0
      /\ DOMAIN b = DOMAIN t.net \cup {m}
  BY <1>2, NetAdd
<1>4. Post(t, m) = [t EXCEPT !.net = b]
  BY DEF Post
<1> HIDE DEF b
<1>5. ASSUME NEW r \in Reqs PROVE Weigh(b, OfReq(r)) = Flying(t, r)
  <2>1. m \notin OfReq(r)
    BY DEF OfReq
  <2>2. Weigh(b, OfReq(r)) = Flying(t, r) + 0
    BY <1>3, <2>1 DEF Flying
  <2>3. Flying(t, r) \in Nat
    BY <1>1, FlyingType
  <2> QED BY <2>2, <2>3
<1>6. \A k \in DOMAIN b : k.kind = "ack" => t.ack[k.of].st # "unused"
  BY <1>1, <1>3 DEF AcksTied
<1> QED BY <1>3, <1>4, <1>5, <1>6, OtherNet
LEMMA LandOther ==
    ASSUME NEW t, NEW l, NEW a, Inv(t, l, a), NEW m \in DOMAIN t.net, m.kind # "pub"
    PROVE  Inv([t EXCEPT !.net = t.net (-) SetToBag({m})], l, a)
<1> DEFINE b == t.net (-) SetToBag({m})
<1>1. t \in StateType /\ AcksTied(t)
  BY DEF Inv, Good
<1>2. IsNet(t.net)
  BY <1>1, Parts
<1>3. /\ IsNet(b) /\ DOMAIN b \subseteq DOMAIN t.net
      /\ \A S : Weigh(t.net, S) = Weigh(b, S) + IF m \in S THEN 1 ELSE 0
  BY <1>2, NetDrop
<1> HIDE DEF b
<1>5. ASSUME NEW r \in Reqs PROVE Weigh(b, OfReq(r)) = Flying(t, r)
  <2>1. m \notin OfReq(r)
    BY DEF OfReq
  <2>2. Flying(t, r) = Weigh(b, OfReq(r)) + 0
    BY <1>3, <2>1 DEF Flying
  <2>3. Weigh(b, OfReq(r)) \in Nat
    BY <1>3, WeighType
  <2> QED BY <2>2, <2>3
<1>6. \A k \in DOMAIN b : k.kind = "ack" => t.ack[k.of].st # "unused"
  BY <1>1, <1>3 DEF AcksTied
<1>7. Inv([t EXCEPT !.net = b], l, a)
  BY <1>3, <1>5, <1>6, OtherNet
<1> QED BY <1>7 DEF b

\* The acknowledgements and their queue change.
SetAcks(t, f, q) == [t EXCEPT !.ack = f, !.ackQueue = q]
LEMMA PutAcks ==
    ASSUME NEW t \in StateType, NEW f \in [Acks -> AckType], NEW q \in Seq(Acks)
    PROVE  LET u == SetAcks(t, f, q)
           IN  /\ u \in StateType /\ u.ack = f /\ u.ackQueue = q /\ u.req = t.req /\ u.pub = t.pub /\ u.net = t.net
               /\ u.fault = t.fault
BY DEF StateType, SetAcks
LEMMA AcksInv ==
    ASSUME NEW t, NEW l, NEW a, Inv(t, l, a), NEW f \in [Acks -> AckType], NEW q \in Seq(Acks),
           \A x \in Acks : /\ f[x].st = "unused" => t.ack[x].st = "unused"
                           /\ f[x].st # "unused" => f[x].pub \in Pubs,
           \A i \in DOMAIN q : f[q[i]].st # "unused"
    PROVE  Inv(SetAcks(t, f, q), l, a)
<1> DEFINE u == SetAcks(t, f, q)
<1>1. t \in StateType /\ AcksTied(t) /\ IsNet(t.net)
  BY Parts DEF Inv, Good
<1>2. /\ u \in StateType /\ u.ack = f /\ u.ackQueue = q /\ u.req = t.req /\ u.pub = t.pub /\ u.net = t.net
      /\ u.fault = t.fault
  BY <1>1, PutAcks
<1> HIDE DEF u
<1>3. Still(t, u) /\ PubsStay(t, u)
  BY <1>2 DEF Still, PubsStay, Queued, Queue
<1>4. AcksTied(u)
  <2>1. \A m \in DOMAIN t.net : m.kind = "ack" => m.of \in Acks
    BY <1>1 DEF IsNet, Message
  <2>2. \A x \in ToSet(u.ackQueue) : u.ack[x].st # "unused"
    BY <1>2 DEF ToSet
  <2> QED BY <1>1, <1>2, <2>1, <2>2 DEF AcksTied
<1>5. Inv(u, l, a)
  BY <1>2, <1>3, <1>4, InvStill
<1> QED BY <1>5 DEF u
LEMMA AckEnd ==
    ASSUME NEW o \in AckType PROVE [o EXCEPT !.st = "gone"] \in AckType /\ [o EXCEPT !.st = "gone"].st = "gone"
                                   /\ [o EXCEPT !.st = "gone"].pub = o.pub
BY DEF AckType
\* The acknowledgements that are queued were made.
LEMMA QueuedAcks ==
    ASSUME NEW t, NEW l, NEW a, Inv(t, l, a)
    PROVE  /\ t.ackQueue \in Seq(Acks) /\ t.ack \in [Acks -> AckType]
           /\ \A i \in DOMAIN t.ackQueue : t.ack[t.ackQueue[i]].st # "unused"
           /\ \A x \in Acks : t.ack[x].st # "unused" => t.ack[x].pub \in Pubs
<1>1. t \in StateType /\ AcksTied(t)
  BY DEF Inv, Good
<1>2. t.ackQueue \in Seq(Acks) /\ t.ack \in [Acks -> AckType]
  BY <1>1, Parts
<1> QED BY <1>1, <1>2 DEF AcksTied, ToSet
LEMMA AckDone ==
    ASSUME NEW t, NEW l, NEW a, Inv(t, l, a), NEW k \in Acks, t.ack[k].st # "unused"
    PROVE  LET u == AckPublicationCompletion(t, k)
           IN  Inv(u, l, a) /\ \A x \in Acks : u.ack[x].st = "unused" => t.ack[x].st = "unused"
<1> DEFINE w == [t.ack[k] EXCEPT !.st = "gone"]
           f == [t.ack EXCEPT ![k] = w]
           u == SetAcks(t, f, t.ackQueue)
           p == t.ack[k].pub
           v == PublicationDecRef(u, p)
<1>1. /\ t.ackQueue \in Seq(Acks) /\ t.ack \in [Acks -> AckType]
      /\ \A i \in DOMAIN t.ackQueue : t.ack[t.ackQueue[i]].st # "unused"
      /\ \A x \in Acks : t.ack[x].st # "unused" => t.ack[x].pub \in Pubs
  BY QueuedAcks
<1>2. t \in StateType
  BY DEF Inv, Good
<1>3. AckPublicationCompletion(t, k) = v
  <2>1. [t EXCEPT !.ack[k].st = "gone"] = u
    BY <1>1, <1>2 DEF SetAcks, StateType
  <2> HIDE DEF u
  <2> QED BY <2>1 DEF AckPublicationCompletion
<1>4. w \in AckType /\ w.st = "gone" /\ w.pub = p
  BY <1>1, AckEnd
<1> HIDE DEF w
<1>5. f \in [Acks -> AckType] /\ f[k] = w /\ \A x \in Acks \ {k} : f[x] = t.ack[x]
  BY <1>1, <1>4
<1>6. p \in Pubs
  BY <1>1
<1> HIDE DEF f, p
<1>7. \A x \in Acks : /\ f[x].st = "unused" => t.ack[x].st = "unused"
                      /\ f[x].st # "unused" => f[x].pub \in Pubs
  BY <1>1, <1>4, <1>5, <1>6
<1>8. \A i \in DOMAIN t.ackQueue : f[t.ackQueue[i]].st # "unused"
  BY <1>1, <1>4, <1>5
<1>9. Inv(u, l, a) /\ u.ack = f
  <2>1. Inv(u, l, a)
    BY <1>1, <1>5, <1>7, <1>8, AcksInv
  <2> QED BY <1>2, <2>1 DEF SetAcks, StateType
<1> HIDE DEF u
<1>10. Fine(u, v, HeldBy(l), UsedBy(l, a))
  BY <1>6, <1>9, DecRefGood DEF Inv
<1> HIDE DEF v
<1>11. Inv(v, l, a) /\ v.ack = f
  BY <1>9, <1>10, InvFine DEF Fine, Calm
<1> QED BY <1>3, <1>7, <1>11
LEMMA AckTaken ==
    ASSUME NEW t, NEW l, NEW a, Inv(t, l, a), t.ackQueue # <<>>
    PROVE  /\ Inv([t EXCEPT !.ackQueue = Tail(@)], l, a) /\ Head(t.ackQueue) \in Acks
           /\ t.ack[Head(t.ackQueue)].st # "unused"
<1> DEFINE q == t.ackQueue
           w == Tail(q)
<1>1. /\ q \in Seq(Acks) /\ t.ack \in [Acks -> AckType]
      /\ \A i \in DOMAIN q : t.ack[q[i]].st # "unused"
      /\ \A x \in Acks : t.ack[x].st # "unused" => t.ack[x].pub \in Pubs
  BY QueuedAcks
<1>2. t \in StateType
  BY DEF Inv, Good
<1>3. [t EXCEPT !.ackQueue = Tail(@)] = SetAcks(t, t.ack, w)
  BY <1>2 DEF SetAcks, StateType
<1>4. q # <<>>
  OBVIOUS
<1> HIDE DEF q
<1>5. w \in Seq(Acks) /\ Head(q) \in Acks /\ Head(q) = q[1] /\ 1 \in DOMAIN q
      /\ \A i \in DOMAIN w : i + 1 \in DOMAIN q /\ w[i] = q[i + 1]
  BY <1>1, <1>4
<1> HIDE DEF w
<1>6. \A i \in DOMAIN w : t.ack[w[i]].st # "unused"
  BY <1>1, <1>5
<1>7. Inv(SetAcks(t, t.ack, w), l, a)
  BY <1>1, <1>5, <1>6, AcksInv
<1> QED BY <1>1, <1>3, <1>5, <1>7 DEF q

LEMMA ListedPubs == ASSUME NEW t \in StateType, NEW i PROVE Listed(t, i) \subseteq Pubs
<1>1. t.publications \in Seq(Pubs)
  BY Parts
<1>2. ToSet(t.publications) \subseteq Pubs
  BY <1>1 DEF ToSet
<1> QED BY <1>2 DEF Listed
LEMMA InvSendComplete ==
    ASSUME NEW t, NEW l, NEW a, Inv(t, l, a), NEW dest, NEW ok PROVE Inv(SendComplete(t, dest, ok), l, a)
<1> DEFINE u == SendComplete(t, dest, ok)
<1>1. t \in StateType
  BY DEF Inv, Good
<1>2. u \in StateType /\ Alike(t, u)
  BY <1>1, SendCompleteIs
<1> HIDE DEF u
<1>3. Plain(t, u)
  BY <1>2, AlikePlain
<1>4. Inv(u, l, a)
  BY <1>2, <1>3, InvPlain
<1> QED BY <1>4 DEF u
LEMMA InvBudget ==
    ASSUME NEW t, NEW l, NEW a, Inv(t, l, a) PROVE Inv([t EXCEPT !.budget = @ - 1], l, a)
<1> DEFINE k == t.budget - 1
           u == [t EXCEPT !.budget = k]
<1>1. t \in StateType
  BY DEF Inv, Good
<1>2. k \in Int
  BY <1>1, Parts
<1> HIDE DEF k
<1>3. u \in StateType /\ Alike(t, u)
  BY <1>1, <1>2, PutBudget
<1> HIDE DEF u
<1>4. Plain(t, u)
  BY <1>3, AlikePlain
<1>5. Inv(u, l, a)
  BY <1>3, <1>4, InvPlain
<1> QED BY <1>5 DEF u, k
LEMMA InvRxRefs ==
    ASSUME NEW t, NEW l, NEW a, Inv(t, l, a) PROVE Inv([t EXCEPT !.rxRefs = @ + 1], l, a)
<1> DEFINE k == t.rxRefs + 1
           u == [t EXCEPT !.rxRefs = k]
<1>1. t \in StateType
  BY DEF Inv, Good
<1>2. k \in Int
  BY <1>1, Parts
<1> HIDE DEF k
<1>3. u \in StateType /\ Alike(t, u)
  BY <1>1, <1>2, PutRxRefs
<1> HIDE DEF u
<1>4. Plain(t, u)
  BY <1>3, AlikePlain
<1>5. Inv(u, l, a)
  BY <1>3, <1>4, InvPlain
<1> QED BY <1>5 DEF u, k
LEMMA InvIncRef ==
    ASSUME NEW t, NEW l, NEW a, Inv(t, l, a), NEW p \in Pubs PROVE Inv(PublicationIncRef(t, p), l, a)
<1> DEFINE u == PublicationIncRef(t, p)
<1>1. t \in StateType /\ Good(t, HeldBy(l), UsedBy(l, a))
  BY DEF Inv, Good
<1>2. Does(t, u)
  BY <1>1, IncRefIs
<1> HIDE DEF u
<1>3. Fine(t, u, HeldBy(l), UsedBy(l, a))
  BY <1>1, <1>2, FineDoes
<1>4. Inv(u, l, a)
  BY <1>3, InvFine
<1> QED BY <1>4 DEF u
LEMMA InvAcksSeen ==
    ASSUME NEW t, NEW l, NEW a, Inv(t, l, a), NEW m PROVE Inv([t EXCEPT !.acks = @ \ {m}], l, a)
<1> DEFINE k == t.acks \ {m}
           u == [t EXCEPT !.acks = k]
<1>1. t \in StateType
  BY DEF Inv, Good
<1>2. k \in SUBSET AckMsg
  BY <1>1, Parts
<1> HIDE DEF k
<1>3. u \in StateType /\ Plain(t, u)
  BY <1>1, <1>2 DEF StateType, Plain
<1> HIDE DEF u
<1>4. Inv(u, l, a)
  BY <1>3, InvPlain
<1> QED BY <1>4 DEF u, k
LEMMA InvAsync ==
    ASSUME NEW t, NEW l, NEW a, Inv(t, l, a), NEW S \in SUBSET Tasks PROVE Inv([t EXCEPT !.async = S], l, a)
<1> DEFINE u == [t EXCEPT !.async = S]
<1>1. t \in StateType
  BY DEF Inv, Good
<1>2. u \in StateType /\ Alike(t, u)
  BY <1>1, PutAsync
<1> HIDE DEF u
<1>3. Plain(t, u)
  BY <1>2, AlikePlain
<1>4. Inv(u, l, a)
  BY <1>2, <1>3, InvPlain
<1> QED BY <1>4 DEF u

LEMMA ReceiveAckStep == ASSUME Inv(s, loop, app), NEW m \in s.acks, ReceiveAck(m) PROVE Inv(s', loop', app')
<1> DEFINE t == [s EXCEPT !.acks = @ \ {m}]
<1>1. loop = <<>> /\ app' = app /\ s \in StateType
  BY DEF ReceiveAck, Inv, Good
<1>2. m.id \in PubIds
  <2>1. s.acks \in SUBSET AckMsg
    BY <1>1, Parts
  <2> QED BY <2>1 DEF AckMsg
<1>3. Inv(t, <<>>, app)
  BY <1>1, InvAcksSeen
<1>4. \/ \E p \in LookupAckHandler(s, m.id, m.seq) : s' = PublicationIncRef(t, p) /\ loop' = Append(loop, AckFrame(p))
      \/ \E dest \in PublishersForAck(s, m.id), ok \in BOOLEAN : s' = ForwardAck(t, m, dest, ok) /\ loop' = loop
  BY Zenon DEF ReceiveAck, Call
<1> HIDE DEF t
<1>5. ASSUME NEW p \in LookupAckHandler(s, m.id, m.seq), s' = PublicationIncRef(t, p), loop' = Append(loop, AckFrame(p))
      PROVE  Inv(s', loop', app')
  <2> DEFINE g == AckFrame(p)
  <2>1. p \in Pubs
    BY <1>1, ListedPubs DEF LookupAckHandler
  <2>2. Inv(s', <<>>, app)
    BY <1>3, <1>5, <2>1, InvIncRef
  <2>3. IsAck(g) /\ g.k = "ack"
    BY <2>1, AckFrameIs
  <2>4. loop' = Append(loop, g)
    BY <1>5
  <2> HIDE DEF g
  <2>5. loop' = <<g>>
    BY <1>1, <2>4, Appends
  <2>6. Inv(s', <<g>>, app)
    BY SMTT(40), <2>2, <2>3, OtherFree, Push DEF Single
  <2> QED BY <1>1, <2>5, <2>6
<1>6. ASSUME NEW dest \in PublishersForAck(s, m.id), NEW ok \in BOOLEAN, s' = ForwardAck(t, m, dest, ok), loop' = loop
      PROVE  Inv(s', loop', app')
  <2>1. dest \in Sources
    BY DEF PublishersForAck
  <2>2. CASE ok
    <3> DEFINE u == [t EXCEPT !.rxRefs = @ + 1]
               k == Sending("fwd", m.id, dest)
    <3>1. Inv(u, <<>>, app)
      BY <1>3, InvRxRefs
    <3>2. s' = Post(u, k)
      BY <1>6, <2>2 DEF ForwardAck
    <3> HIDE DEF u
    <3>3. k \in Message /\ k.kind = "fwd"
      BY <1>2, <2>1 DEF Message, Sending
    <3> HIDE DEF k
    <3>4. Inv(s', <<>>, app)
      BY <3>1, <3>2, <3>3, PostOther
    <3> QED BY <1>1, <1>6, <3>4
  <2>3. CASE ~ok
    <3> DEFINE u == SendComplete(t, dest, FALSE)
    <3>1. s' = [u EXCEPT !.budget = @ - 1]
      BY <1>6, <2>3 DEF ForwardAck
    <3>2. Inv(u, <<>>, app)
      BY <1>3, InvSendComplete
    <3> HIDE DEF u
    <3>3. Inv(s', <<>>, app)
      BY <3>1, <3>2, InvBudget
    <3> QED BY <1>1, <1>6, <3>3
  <2> QED BY <2>2, <2>3
<1> QED BY <1>4, <1>5, <1>6

LEMMA AcksFrameIs ==
    ASSUME NEW f, IsAcks(f), NEW a \in Acks
    PROVE  /\ LET g == [f EXCEPT !.at = "looping_back", !.ack = a]
              IN  IsAcks(g) /\ g.at = "looping_back" /\ g.ack = a /\ g.k = "acks"
           /\ LET g == [f EXCEPT !.at = "next", !.ack = NULL] IN IsAcks(g) /\ g.at = "next" /\ g.k = "acks"
BY DEF IsAcks
LEMMA SendAcksStep == ASSUME Inv(s, loop, app), SendAcks PROVE Inv(s', loop', app')
<1> DEFINE S == s.async \ {"acks"}
           f == [k |-> "acks", at |-> "next", ack |-> NULL]
<1>1. loop = <<>> /\ app' = app /\ s' = [s EXCEPT !.async = S] /\ loop' = Append(loop, f)
  BY DEF SendAcks, Call
<1>2. s \in StateType
  BY DEF Inv, Good
<1>3. S \in SUBSET Tasks
  BY <1>2, Parts
<1> HIDE DEF S
<1>4. Inv(s', <<>>, app)
  BY <1>1, <1>3, InvAsync
<1>5. IsAcks(f) /\ f.k = "acks" /\ f.at = "next"
  BY DEF IsAcks
<1> HIDE DEF f
<1>6. Free(f) /\ FrameOK(s', f)
  BY <1>5, OtherFree DEF FrameOK
<1>7. Inv(s', <<f>>, app)
  BY <1>4, <1>5, <1>6, Push DEF Single
<1> QED BY <1>1, <1>7, Appends
\* One frame that counts nothing for another.
LEMMA SwapFree ==
    ASSUME NEW t, NEW f, NEW a, Inv(t, <<f>>, a), Free(f), NEW g, Single(g), FrameOK(t, g), Free(g) PROVE Inv(t, <<g>>, a)
<1>1. Inv(t, <<>>, a)
  BY Pop
<1> QED BY <1>1, Push
LEMMA AckLoopedBackStep == ASSUME Inv(s, loop, app), AckLoopedBack PROVE Inv(s', loop', app')
<1> DEFINE f == Top
           u == AckPublicationCompletion(s, f.ack)
           g == [f EXCEPT !.at = "next", !.ack = NULL]
<1>1. loop # <<>> /\ f.k = "acks" /\ f.at = "looping_back" /\ app' = app /\ s' = u /\ loop' = Append(Front(loop), g)
  BY DEF AckLoopedBack, At, Resume
<1>2. loop = <<f>> /\ IsAcks(f)
  BY <1>1, TopPubs DEF Inv
<1>3. FrameOK(s, f) /\ Inv(s, <<f>>, app)
  BY <1>2, FramedTuples DEF Inv
<1> HIDE DEF f
<1>4. f.ack \in Acks /\ s.ack[f.ack].st # "unused"
  BY <1>1, <1>2, <1>3 DEF IsAcks, FrameOK
<1>5. Inv(u, <<f>>, app)
  BY <1>3, <1>4, AckDone
<1> HIDE DEF u
<1>6. IsAcks(g) /\ g.at = "next" /\ g.k = "acks"
  BY <1>2, <1>4, AcksFrameIs
<1> HIDE DEF g
<1>7. Free(f) /\ Free(g) /\ FrameOK(u, g)
  BY <1>1, <1>6, OtherFree DEF FrameOK
<1>8. Inv(u, <<g>>, app)
  BY <1>5, <1>6, <1>7, SwapFree DEF Single
<1>9. loop' = <<g>>
  <2>1. Front(loop) = <<>>
    BY <1>2, Fronts
  <2> QED BY <1>1, <2>1, Appends
<1> QED BY <1>1, <1>8, <1>9
LEMMA SendAcksDoneStep == ASSUME Inv(s, loop, app), SendAcksDone PROVE Inv(s', loop', app')
<1> DEFINE f == Top
<1>1. loop # <<>> /\ f.k = "acks" /\ app' = app /\ s' = s /\ loop' = Front(loop)
  BY DEF SendAcksDone, At, Return
<1>2. loop = <<f>>
  BY <1>1, TopPubs DEF Inv
<1> HIDE DEF f
<1>3. Free(f) /\ Front(loop) = <<>>
  BY <1>1, <1>2, OtherFree, Fronts
<1>4. Inv(s, <<>>, app)
  BY <1>2, <1>3, Pop
<1> QED BY <1>1, <1>3, <1>4

LEMMA SendAcknowledgementStep == ASSUME Inv(s, loop, app), SendAcknowledgement PROVE Inv(s', loop', app')
<1> DEFINE f == Top
           a == Head(s.ackQueue)
           t == [s EXCEPT !.ackQueue = Tail(@)]
           done == AckPublicationCompletion(t, a)
           m == Sending("ack", a, t.ack[a].dest)
           g == [f EXCEPT !.at = "looping_back", !.ack = a]
<1>1. loop # <<>> /\ f.k = "acks" /\ f.at = "next" /\ app' = app /\ s.ackQueue # <<>>
  BY DEF SendAcknowledgement, At
<1>2. \/ \E p \in LookupAckHandler(t, s.pub[s.ack[a].pub].id, t.ack[a].seq) :
             s' = PublicationIncRef(t, p) /\ loop' = Front(loop) \o <<g, AckFrame(p)>>
      \/ s' = done /\ loop' = loop
      \/ s' = Post(t, m) /\ loop' = loop
      \/ s' = [SendComplete(done, t.ack[a].dest, FALSE) EXCEPT !.budget = @ - 1] /\ loop' = loop
  BY Zenon DEF SendAcknowledgement
<1>3. loop = <<f>> /\ IsAcks(f)
  BY <1>1, TopPubs DEF Inv
<1>4. Inv(t, loop, app) /\ a \in Acks /\ s.ack[a].st # "unused"
  BY <1>1, AckTaken
<1>5. t.ack = s.ack
  BY <1>4 DEF Inv, Good, StateType
<1> HIDE DEF f, a, t
<1>6. Inv(done, loop, app)
  BY <1>4, <1>5, AckDone
<1>7. ASSUME NEW p \in LookupAckHandler(t, s.pub[s.ack[a].pub].id, t.ack[a].seq),
             s' = PublicationIncRef(t, p), loop' = Front(loop) \o <<g, AckFrame(p)>>
      PROVE  Inv(s', loop', app')
  <2> DEFINE u == PublicationIncRef(t, p)
             e == AckFrame(p)
  <2>1. p \in Pubs
    BY <1>4, ListedPubs DEF LookupAckHandler, Inv, Good
  <2>2. Inv(u, loop, app) /\ u.ack = t.ack
    <3>1. Inv(u, loop, app)
      BY <1>4, <2>1, InvIncRef
    <3>2. t \in StateType
      BY <1>4 DEF Inv, Good
    <3>3. u.ack = t.ack
      BY <2>1, <3>2, IncRefIs DEF Does, Kept, Apart
    <3> QED BY <3>1, <3>3
  <2>3. IsAck(e) /\ e.k = "ack"
    BY <2>1, AckFrameIs
  <2>4. IsAcks(g) /\ g.at = "looping_back" /\ g.ack = a /\ g.k = "acks"
    BY <1>3, <1>4 DEF IsAcks
  <2>5. s' = u /\ loop' = Front(loop) \o <<g, e>>
    BY <1>7
  <2> HIDE DEF u, e, g
  <2>6. FrameOK(u, g) /\ FrameOK(u, e)
    BY <1>4, <1>5, <2>2, <2>3, <2>4 DEF FrameOK
  <2>7. Shape(<<g, e>>) /\ Framed(u, <<g, e>>)
    BY <2>3, <2>4, <2>6, FramedTuples DEF Shape, Double
  <2>8. Free(f) /\ Free(g) /\ Free(e)
    BY <1>1, <2>3, <2>4, OtherFree
  <2>9. ASSUME NEW x \in Reqs PROVE HeldBy(<<g, e>>)[x] = HeldBy(<<f>>)[x] /\ UsedBy(<<g, e>>, app)[x] = UsedBy(<<f>>, app)[x]
    <3>1. /\ HeldBy(<<g, e>>)[x] = Holds(g, x) /\ UsedBy(<<g, e>>, app)[x] = Uses(g, x) + Uses(e, x) + Mine(app, x)
          /\ HeldBy(<<f>>)[x] = Holds(f, x) /\ UsedBy(<<f>>, app)[x] = Uses(f, x) + Mine(app, x)
      BY HeldOne, UsedOne, HeldTwo, UsedTwo
    <3>2. Holds(g, x) = 0 /\ Uses(g, x) = 0 /\ Uses(e, x) = 0 /\ Holds(f, x) = 0 /\ Uses(f, x) = 0 /\ Mine(app, x) \in Nat
      BY <2>8, UsesType DEF Free
    <3> QED BY <3>1, <3>2
  <2>10. Inv(u, <<g, e>>, app)
    <3>1. Inv(u, <<f>>, app)
      BY <1>3, <2>2
    <3> QED BY <2>7, <2>9, <3>1, InvStack DEF SameStack
  <2>11. loop' = <<g, e>>
    <3>1. Front(loop) = <<>>
      BY <1>3, Fronts
    <3> QED BY <2>5, <3>1, Appends
  <2> QED BY <1>1, <2>5, <2>10, <2>11
<1>8. CASE s' = Post(t, m) /\ loop' = loop
  <2>1. t.ack \in [Acks -> AckType]
    BY <1>4, QueuedAcks
  <2>2. t.ack[a].dest \in Sources \cup {NULL}
    BY <1>4, <2>1 DEF AckType
  <2>3. m \in Message /\ m.kind = "ack" /\ m.of = a
    BY <1>4, <2>2 DEF Message, Sending
  <2> HIDE DEF m
  <2>4. Inv(Post(t, m), loop, app)
    BY <1>4, <1>5, <2>3, PostOther
  <2> QED BY <1>1, <1>8, <2>4
<1>9. CASE s' = [SendComplete(done, t.ack[a].dest, FALSE) EXCEPT !.budget = @ - 1] /\ loop' = loop
  <2> DEFINE u == SendComplete(done, t.ack[a].dest, FALSE)
  <2>1. Inv(u, loop, app)
    BY <1>6, InvSendComplete
  <2>2. s' = [u EXCEPT !.budget = @ - 1]
    BY <1>9
  <2> HIDE DEF u
  <2>3. Inv(s', loop, app)
    BY <2>1, <2>2, InvBudget
  <2> QED BY <1>1, <1>9, <2>3
<1> HIDE DEF done, m, g
<1> QED BY <1>1, <1>2, <1>6, <1>7, <1>8, <1>9

--------------------------------------------------------------------------------
(* Sends end. *)

LowerReq(u, r, ret) == [u EXCEPT !.req[r].refs = @ - 1, !.req[r].status = IF @ = "OK" THEN @ ELSE ret]
LEMMA LowerDef ==
    ASSUME NEW u \in StateType, NEW r \in Reqs, NEW ret \in {"OK", "FAILED"}
    PROVE  LowerReq(u, r, ret) = SetReq(u, r, Released(u.req[r], ret))
<1> DEFINE to == IF u.req[r].status = "OK" THEN u.req[r].status ELSE ret
<1>1. u.req \in [Reqs -> ReqType] /\ u.req[r] \in ReqType
  BY Parts
<1>2. [u EXCEPT !.req[r].refs = @ - 1, !.req[r].status = IF @ = "OK" THEN @ ELSE ret] = Lower(u, r, to)
  BY <1>1, ZenonT(40) DEF Lower, Lowered, ReqType, StateType
<1>3. Lowered(u.req[r], to) = Released(u.req[r], ret)
  <2>1. to = IF u.req[r].status = "OK" THEN "OK" ELSE ret
    OBVIOUS
  <2> HIDE DEF to
  <2> QED BY <2>1 DEF Lowered, Released
<1> QED BY <1>2, <1>3 DEF SetReq, Lower, LowerReq
LEMMA LandGoes ==
    ASSUME NEW t, NEW h, NEW n, Good(t, h, n), NEW r \in Reqs, n[r] = 0, NEW m \in DOMAIN t.net, m \in OfReq(r),
           NEW u \in StateType, u.req = t.req, u.pub = t.pub, u.fault = t.fault, u.ack = t.ack, u.ackQueue = t.ackQueue,
           u.net = t.net (-) SetToBag({m}), NEW ret \in {"OK", "FAILED"}
    PROVE  LET v == ReleaseReq(u, r, ret) IN Good(v, h, n) /\ Around(t, v, {r})
<1> DEFINE w == Released(t.req[r], ret)
           x == SetReq(u, r, w)
           v == ReleaseReq(u, r, ret)
<1>1. t \in StateType /\ IsNet(t.net) /\ t.req[r] \in ReqType /\ u.req \in [Reqs -> ReqType]
  BY Parts DEF Good
<1>2. w \in ReqType /\ SameUse(t.req[r], w) /\ w.refs = t.req[r].refs - 1
  BY <1>1, ReleasedIs
<1>3. LowerReq(u, r, ret) = x
  <2>1. LowerReq(u, r, ret) = SetReq(u, r, Released(u.req[r], ret))
    BY LowerDef
  <2>2. u.req[r] = t.req[r]
    OBVIOUS
  <2> QED BY <2>1, <2>2
<1> HIDE DEF w
<1>5. x \in StateType /\ Apart(u, x) /\ x.fault = u.fault /\ OnlyReq(u, x, r) /\ x.pub = u.pub
      /\ x.req[r] = w /\ \A y \in Reqs \ {r} : x.req[y] = u.req[y]
  BY <1>2, SetReqIs
<1> HIDE DEF x
<1>6. Good(x, h, n) /\ t.req[r].refs > 0 /\ t.req[r].st = "live"
  <2>1. OnlyReq(t, x, r)
    BY <1>5 DEF OnlyReq
  <2>2. x.fault = t.fault /\ x.pub = t.pub /\ x.net = t.net (-) SetToBag({m})
    <3>1. x.net = u.net
      BY <1>5 DEF Apart
    <3> QED BY <1>5, <3>1
  <2>3. x \in StateType /\ x.req[r] = w
    BY <1>5
  <2> QED BY <1>2, <2>1, <2>2, <2>3, LandGood
<1>7. v = PublishCompletion(x, r)
  <2>1. u.req[r].refs > 0
    BY <1>6
  <2>2. Check(u, u.req[r].refs > 0, "request_refCount") = u
    BY <2>1, CheckIs
  <2>3. v = PublishCompletion(LowerReq(u, r, ret), r)
    BY <2>2 DEF ReleaseReq, LowerReq
  <2> QED BY <1>3, <2>3
<1> HIDE DEF v
<1>8. x.req[r].st = "live"
  BY <1>2, <1>5, <1>6 DEF SameUse
<1>9. Good(v, h, n) /\ Around(x, v, {r})
  BY <1>5, <1>6, <1>7, <1>8, CompletionGood, CompletionAround
<1>10. Around(t, x, {r})
  <2>1. DOMAIN x.net \subseteq DOMAIN t.net
    <3>1. DOMAIN (t.net (-) SetToBag({m})) \subseteq DOMAIN t.net
      BY <1>1, NetDrop
    <3> QED BY <1>5, <3>1 DEF Apart
  <2>2. x.ack = t.ack /\ x.ackQueue = t.ackQueue
    BY <1>5 DEF Apart
  <2>3. AcksTied(t) => AcksTied(x)
    BY <2>1, <2>2 DEF AcksTied
  <2>4. PubsStay(t, x) /\ SamePlace(t.req[r], x.req[r])
    BY <1>2, <1>5, <1>6 DEF PubsStay, SamePlace, SameUse
  <2>5. \A y \in Reqs \ {r} : SameReq(t.req[y], x.req[y])
    BY <1>5 DEF SameReq
  <2> QED BY <2>2, <2>3, <2>4, <2>5 DEF Around
<1>11. Around(t, v, {r})
  <2>1. Around(t, v, {r} \cup {r})
    BY <1>9, <1>10, AroundTrans
  <2>2. {r} \cup {r} = {r}
    OBVIOUS
  <2> QED BY <2>1, <2>2
<1> QED BY <1>9, <1>11 DEF v

LEMMA FlyingLive ==
    ASSUME NEW t, NEW h, NEW n, Good(t, h, n), NEW r \in Reqs, NEW m \in DOMAIN t.net, m \in OfReq(r)
    PROVE  t.req[r].refs > 0 /\ t.req[r].pub \in Pubs /\ t.req[r].st = "live"
<1>1. IsNet(t.net) /\ t \in StateType /\ ReqOK(t, h, n, r) /\ h[r] \in Nat
  BY Parts DEF Good, Counts
<1>2. Flying(t, r) > 0 /\ Flying(t, r) \in Nat
  BY <1>1, WeighSome, FlyingType DEF Flying
<1>3. t.req[r].st # "unused"
  BY <1>1, <1>2 DEF ReqOK
<1>4. t.req[r].pub \in Pubs /\ t.req[r].refs = Queued(t, r, t.req[r].pub) + Flying(t, r) + h[r]
  BY <1>1, <1>3 DEF ReqOK
<1>5. Queued(t, r, t.req[r].pub) \in Nat
  BY <1>1, <1>4, QueueType
<1>6. t.req[r].refs > 0
  BY <1>1, <1>2, <1>4, <1>5
<1> QED BY <1>1, <1>4, <1>6 DEF ReqOK
\* A send of a publication ends.
LEMMA PubLands ==
    ASSUME NEW t, NEW a, Inv(t, <<>>, a), NEW r \in Reqs, NEW m \in DOMAIN t.net, m \in OfReq(r),
           NEW u \in StateType, u.req = t.req, u.pub = t.pub, u.fault = t.fault, u.ack = t.ack, u.ackQueue = t.ackQueue,
           u.net = t.net (-) SetToBag({m}), NEW ret \in {"OK", "FAILED"}
    PROVE  Inv(PublicationDecRef(ReleaseReq(u, r, ret), u.req[r].pub), <<>>, a)
<1> DEFINE H == HeldBy(<<>>)
           n == UsedBy(<<>>, a)
           v == ReleaseReq(u, r, ret)
           p == u.req[r].pub
           w == PublicationDecRef(v, p)
<1>1. Good(t, H, n) /\ AppOK(t, a)
  BY DEF Inv
<1>2. \A x \in Reqs : H[x] = 0 /\ n[x] = Mine(a, x)
  BY HeldNone, UsedNone
<1> HIDE DEF H, n
<1>3. t.req[r].refs > 0 /\ p \in Pubs
  BY <1>1, FlyingLive
<1>4. a # r
  BY <1>1, <1>3, NotReq DEF AppOK
<1>5. n[r] = 0
  BY <1>2, <1>4 DEF Mine
<1>6. Good(v, H, n) /\ Around(t, v, {r})
  BY <1>1, <1>5, LandGoes
<1> HIDE DEF v, p
<1>7. Good(w, H, n) /\ Calm(v, w)
  BY <1>3, <1>6, DecRefGood DEF Fine
<1> HIDE DEF w
<1>8. Around(t, w, {r})
  BY <1>6, <1>7, AroundCalm
<1>9. Inv(w, <<>>, a)
  BY <1>2, <1>4, <1>7, <1>8, InvGone
<1> QED BY <1>9 DEF w, v, p
\* Of the sends that have ended, one is taken away.
Landed(t, m, k) == [t EXCEPT !.net = @ (-) SetToBag({m}), !.budget = k]
LEMMA LandedIs ==
    ASSUME NEW t \in StateType, NEW m \in DOMAIN t.net, NEW k \in Int
    PROVE  LET u == Landed(t, m, k)
           IN  /\ u \in StateType /\ u.req = t.req /\ u.pub = t.pub /\ u.fault = t.fault /\ u.ack = t.ack
               /\ u.ackQueue = t.ackQueue /\ u.net = t.net (-) SetToBag({m})
<1> DEFINE b == t.net (-) SetToBag({m})
           v == [t EXCEPT !.net = b]
           u == [v EXCEPT !.budget = k]
<1>1. IsNet(b)
  BY SMTT(40), Parts, NetDrop
<1>2. Landed(t, m, k) = u
  BY DEF Landed, StateType
<1> HIDE DEF b
<1>3. v \in StateType /\ v.req = t.req /\ v.pub = t.pub /\ v.fault = t.fault /\ v.ack = t.ack /\ v.ackQueue = t.ackQueue
      /\ v.net = b
  BY <1>1, PutNet
<1> HIDE DEF v
<1>4. u \in StateType /\ Alike(v, u)
  BY <1>3, PutBudget
<1> HIDE DEF u
<1> QED BY <1>2, <1>3, <1>4 DEF Alike, Apart, u, v, b
LEMMA InvBudgetIs ==
    ASSUME NEW t, NEW l, NEW a, Inv(t, l, a), NEW k \in Int PROVE Inv([t EXCEPT !.budget = k], l, a)
<1>1. t \in StateType
  BY DEF Inv, Good
<1>2. [t EXCEPT !.budget = k] \in StateType /\ Plain(t, [t EXCEPT !.budget = k])
  BY <1>1, PutBudget, AlikePlain
<1> QED BY <1>2, InvPlain
LEMMA LandedOther ==
    ASSUME NEW t, NEW l, NEW a, Inv(t, l, a), NEW m \in DOMAIN t.net, m.kind # "pub", NEW k \in Int
    PROVE  Inv(Landed(t, m, k), l, a)
<1> DEFINE v == [t EXCEPT !.net = t.net (-) SetToBag({m})]
<1>1. t \in StateType
  BY DEF Inv, Good
<1>2. Landed(t, m, k) = [v EXCEPT !.budget = k]
  BY <1>1 DEF Landed, StateType
<1>3. Inv(v, l, a)
  BY LandOther
<1> HIDE DEF v
<1>4. Inv([v EXCEPT !.budget = k], l, a)
  BY <1>3, InvBudgetIs
<1> QED BY <1>2, <1>4
LEMMA MessageIs ==
    ASSUME NEW m \in Message
    PROVE  /\ m.kind \in {"pub", "ack", "fwd"}
           /\ m.kind = "pub" => m.of \in Reqs /\ m \in OfReq(m.of)
           /\ m.kind = "ack" => m.of \in Acks
BY DEF Message, OfReq
LEMMA NetSendCompleteStep ==
    ASSUME Inv(s, loop, app), NEW m, NEW ok \in BOOLEAN, NetSendComplete(m, ok) PROVE Inv(s', loop', app')
<1> DEFINE k == IF ok \/ s.state # "RUNNING" THEN s.budget ELSE s.budget - 1
           t == Landed(s, m, k)
           ret == IF ok THEN "OK" ELSE "FAILED"
<1>1. loop = <<>> /\ loop' = loop /\ app' = app /\ m \in DOMAIN s.net
      /\ s' = CASE m.kind = "pub" -> PubSendComplete(t, m.of, m.dest, ok)
                [] m.kind = "ack" -> AckPublicationCompletion(SendComplete(t, m.dest, ok), m.of)
                [] m.kind = "fwd" -> SendComplete(t, m.dest, ok)
  BY Zenon DEF NetSendComplete, BagIn, BagToSet, Landed
<1>2. s \in StateType /\ IsNet(s.net) /\ s.budget \in Int
  BY Parts DEF Inv, Good
<1>3. k \in Int
  BY <1>2
<1>4. m \in Message
  BY <1>1, <1>2 DEF IsNet
<1> HIDE DEF k
<1>5. /\ t \in StateType /\ t.req = s.req /\ t.pub = s.pub /\ t.fault = s.fault /\ t.ack = s.ack
      /\ t.ackQueue = s.ackQueue /\ t.net = s.net (-) SetToBag({m})
  BY <1>1, <1>2, <1>3, LandedIs
<1> HIDE DEF t
<1>6. CASE m.kind = "pub"
  <2> DEFINE u == SendComplete(t, m.dest, ok)
             r == m.of
  <2>1. r \in Reqs /\ m \in OfReq(r)
    BY <1>4, <1>6, MessageIs
  <2>2. u \in StateType /\ Alike(t, u)
    BY <1>5, SendCompleteIs
  <2>3. s' = PublicationDecRef(ReleaseReq(u, r, ret), t.req[r].pub)
    BY <1>1, <1>6 DEF PubSendComplete
  <2>4. ret \in {"OK", "FAILED"}
    OBVIOUS
  <2> HIDE DEF u, r, ret
  <2>5. u.req = s.req /\ u.pub = s.pub /\ u.fault = s.fault /\ u.ack = s.ack /\ u.ackQueue = s.ackQueue
        /\ u.net = s.net (-) SetToBag({m}) /\ u.req = t.req
    BY <1>5, <2>2 DEF Alike, Apart
  <2>6. Inv(s, <<>>, app)
    BY <1>1
  <2>7. Inv(PublicationDecRef(ReleaseReq(u, r, ret), u.req[r].pub), <<>>, app)
    BY <1>1, <2>1, <2>2, <2>4, <2>5, <2>6, PubLands
  <2> QED BY <1>1, <2>3, <2>5, <2>7
<1>7. CASE m.kind # "pub"
  <2>1. Inv(s, <<>>, app)
    BY <1>1
  <2>2. Inv(t, <<>>, app)
    BY <1>1, <1>3, <1>7, <2>1, LandedOther DEF t
  <2>3. Inv(SendComplete(t, m.dest, ok), <<>>, app)
    BY <2>2, InvSendComplete
  <2>4. CASE m.kind = "fwd"
    BY <1>1, <2>3, <2>4
  <2>5. CASE m.kind = "ack"
    <3> DEFINE u == SendComplete(t, m.dest, ok)
    <3>1. m.of \in Acks /\ s.ack[m.of].st # "unused"
      BY <1>1, <1>4, <2>5, MessageIs DEF Inv, AcksTied
    <3>2. Alike(t, u)
      BY <1>5, SendCompleteIs
    <3>3. u.ack = s.ack
      BY <1>5, <3>2 DEF Alike, Apart
    <3>4. s' = AckPublicationCompletion(u, m.of)
      BY <1>1, <2>5
    <3> HIDE DEF u
    <3>5. Inv(u, <<>>, app)
      BY <2>3 DEF u
    <3>6. Inv(AckPublicationCompletion(u, m.of), <<>>, app)
      BY <3>1, <3>3, <3>5, AckDone
    <3> QED BY <1>1, <3>4, <3>6
  <2>6. m.kind = "fwd" \/ m.kind = "ack"
    BY <1>4, <1>7, MessageIs
  <2> QED BY <2>4, <2>5, <2>6
<1> QED BY <1>6, <1>7

--------------------------------------------------------------------------------
(* FreeTask, time, and DPS_UpdatePubs. *)

FreedLike(t, u, f) ==
    /\ u \in StateType /\ u.pub = f /\ u.req = t.req /\ u.net = t.net /\ u.fault = t.fault /\ u.ack = t.ack
    /\ u.ackQueue = t.ackQueue
FreedAll(t, S, a, b, f, g) == [t EXCEPT !.async = S, !.freePubs = a, !.freeSubs = b, !.pub = f, !.sub = g]
LEMMA FreedAllIs ==
    ASSUME NEW t \in StateType, NEW S \in SUBSET Tasks, NEW a \in Seq(Pubs), NEW b \in Seq(Subs),
           NEW f \in [Pubs -> PubType], NEW g \in [Subs -> SubType]
    PROVE  FreedLike(t, FreedAll(t, S, a, b, f, g), f)
BY DEF FreedAll, StateType, FreedLike
\* Every publication has the queues it had.
LEMMA FineQueues ==
    ASSUME NEW t, NEW u \in StateType, NEW h, NEW n, Good(t, h, n), u.req = t.req, u.net = t.net, u.fault = t.fault,
           u.ack = t.ack, u.ackQueue = t.ackQueue,
           \A p \in Pubs : SameQueues(t.pub[p], u.pub[p]) /\ SamePub(t.pub[p], u.pub[p])
    PROVE  Fine(t, u, h, n)
<1>1. Neutral(t, u)
  BY DEF Neutral
<1>2. Good(u, h, n)
  BY <1>1, GoodNeutral
<1>3. \A r \in Reqs : SameReq(t.req[r], u.req[r])
  BY DEF SameReq
<1>4. Calm(t, u)
  BY <1>3 DEF Calm
<1> QED BY <1>2, <1>4 DEF Fine
LEMMA FreeTaskStep == ASSUME Inv(s, loop, app), FreeTask PROVE Inv(s', loop', app')
<1> DEFINE P == Freeable(s)
           X == FreeableSubs(s)
           S == s.async \ {"free"}
           a == Without(s.freePubs, P)
           b == Without(s.freeSubs, X)
           f == [p \in Pubs |-> IF p \in P THEN [s.pub[p] EXCEPT !.st = "gone"] ELSE s.pub[p]]
           g == [x \in Subs |-> IF x \in X THEN [s.sub[x] EXCEPT !.st = "gone"] ELSE s.sub[x]]
           u == FreedAll(s, S, a, b, f, g)
<1>1. loop' = loop /\ app' = app /\ s' = u
  BY Zenon DEF FreeTask, FreedAll
<1>2. /\ s \in StateType /\ Good(s, HeldBy(loop), UsedBy(loop, app)) /\ s.freePubs \in Seq(Pubs) /\ s.freeSubs \in Seq(Subs)
      /\ s.pub \in [Pubs -> PubType] /\ s.sub \in [Subs -> SubType] /\ s.async \in SUBSET Tasks
  BY Parts DEF Inv, Good
<1>3. S \in SUBSET Tasks
  BY <1>2
<1>4. a \in Seq(Pubs) /\ b \in Seq(Subs)
  BY <1>2, WithoutIs
<1> HIDE DEF P, X, S, a, b
<1>5. \A p \in Pubs : f[p] \in PubType /\ SameQueues(s.pub[p], f[p]) /\ SamePub(s.pub[p], f[p])
  <2> TAKE p \in Pubs
  <2> DEFINE o == s.pub[p]
             w == [o EXCEPT !.st = "gone"]
  <2>1. o \in PubType
    BY <1>2
  <2>2. f[p] = IF p \in P THEN w ELSE o
    OBVIOUS
  <2> HIDE DEF o
  <2>3. w \in PubType /\ SameQueues(o, w) /\ SamePub(o, w)
    BY <2>1, PubSt
  <2>4. SameQueues(o, o) /\ SamePub(o, o)
    BY DEF SameQueues, SamePub
  <2> HIDE DEF w
  <2>5. f[p] \in PubType /\ SameQueues(o, f[p]) /\ SamePub(o, f[p])
    BY <2>1, <2>2, <2>3, <2>4
  <2> QED BY <2>5 DEF o
<1>6. g \in [Subs -> SubType]
  <2>1. \A x \in Subs : s.sub[x] \in SubType
    BY <1>2
  <2>2. \A x \in Subs : [s.sub[x] EXCEPT !.st = "gone"] \in SubType
    BY <2>1 DEF SubType
  <2> QED BY <2>1, <2>2
<1>7. f \in [Pubs -> PubType]
  BY <1>5
<1> HIDE DEF f, g
<1>8. FreedLike(s, u, f)
  <2>1. s \in StateType /\ S \in SUBSET Tasks /\ a \in Seq(Pubs) /\ b \in Seq(Subs) /\ f \in [Pubs -> PubType]
        /\ g \in [Subs -> SubType]
    BY <1>2, <1>3, <1>4, <1>6, <1>7
  <2> QED BY <2>1, FreedAllIs
<1> HIDE DEF u
<1>9. Fine(s, u, HeldBy(loop), UsedBy(loop, app))
  BY <1>2, <1>5, <1>8, FineQueues DEF FreedLike
<1>10. Inv(u, loop, app)
  BY <1>9, InvFine
<1> QED BY <1>1, <1>10
LEMMA TickStep == ASSUME Inv(s, loop, app), Tick PROVE Inv(s', loop', app')
BY DEF Tick
LEMMA WaitsStep == ASSUME Inv(s, loop, app), Waits PROVE Inv(s', loop', app')
BY DEF Waits, vars
LEMMA PutState ==
    ASSUME NEW t \in StateType, NEW st \in {"RUNNING", "STOPPING", "STOPPED"}
    PROVE  [t EXCEPT !.state = st] \in StateType /\ Plain(t, [t EXCEPT !.state = st])
BY DEF StateType, Plain
LEMMA StoppedStep == ASSUME Inv(s, loop, app), Stopped PROVE Inv(s', loop', app')
<1> DEFINE u == [s EXCEPT !.state = "STOPPED"]
<1>1. s' = u /\ loop' = loop /\ app' = app
  BY DEF Stopped
<1>2. u \in StateType /\ Plain(s, u)
  BY PutState DEF Inv, Good
<1>3. Inv(u, loop, app)
  BY <1>2, InvPlain
<1> QED BY <1>1, <1>3

\* What is retained is sent again.
Updated(t, p) ==
    IF t.pub[p].sendQ # <<>> THEN Async(t, "pubs")
    ELSE IF t.pub[p].retQ = <<>> THEN ExpirePub(t, p)
    ELSE IF t.remotes = {} /\ ~t.mcast THEN t
    ELSE Async([t EXCEPT !.pub[p].sendQ = <<Head(t.pub[p].retQ)>>, !.pub[p].retQ = Tail(@)], "pubs")
U == INSTANCE FoldTheorems WITH Op <- Updated

Again(o) == [o EXCEPT !.sendQ = <<Head(o.retQ)>>, !.retQ = Tail(o.retQ)]
LEMMA AgainIs ==
    ASSUME NEW o \in PubType, o.sendQ = <<>>, o.retQ # <<>>
    PROVE  Again(o) \in PubType /\ Again(o).st = o.st /\ QueueOf(Again(o)) = QueueOf(o)
<1>1. o.retQ \in Seq(Reqs)
  BY PubParts
<1> DEFINE q == o.retQ
<1> HIDE DEF q
<1>2. q \in Seq(Reqs) /\ q # <<>>
  BY <1>1 DEF q
<1> DEFINE a == <<Head(q)>>
           b == Tail(q)
<1>3. a \in Seq(Reqs) /\ b \in Seq(Reqs) /\ a \o b = q /\ <<>> \o q = q
  BY <1>2
<1>4. Again(o) = [o EXCEPT !.sendQ = a, !.retQ = b]
  BY DEF Again, q
<1> HIDE DEF a, b
<1>5. LET w == [o EXCEPT !.sendQ = a, !.retQ = b] IN w \in PubType /\ w.st = o.st /\ w.sendQ = a /\ w.retQ = b
  BY <1>3 DEF PubType
<1>6. Again(o) \in PubType /\ Again(o).st = o.st /\ Again(o).sendQ = a /\ Again(o).retQ = b
  BY <1>4, <1>5
<1>7. QueueOf(Again(o)) = q /\ QueueOf(o) = q
  BY <1>3, <1>6 DEF QueueOf, q
<1> QED BY <1>6, <1>7
LEMMA UpdatedInv == ASSUME NEW t, NEW l, NEW a, Inv(t, l, a), NEW p \in Pubs PROVE Inv(Updated(t, p), l, a)
<1>1. t \in StateType /\ Good(t, HeldBy(l), UsedBy(l, a)) /\ t.pub \in [Pubs -> PubType] /\ t.pub[p] \in PubType /\ AcksTied(t)
  BY Parts DEF Inv, Good
<1>2. ASSUME NEW v, Inv(v, l, a) PROVE Inv(Async(v, "pubs"), l, a)
  <2>1. v \in StateType
    BY <1>2 DEF Inv, Good
  <2>2. "pubs" \in Tasks
    BY DEF Tasks
  <2>3. Async(v, "pubs") \in StateType /\ Plain(v, Async(v, "pubs"))
    BY <2>1, <2>2, AsyncPlain
  <2> QED BY <1>2, <2>3, InvPlain
<1>3. CASE t.pub[p].sendQ # <<>>
  BY <1>2, <1>3 DEF Updated
<1>4. CASE t.pub[p].sendQ = <<>> /\ t.pub[p].retQ = <<>>
  <2>1. Inv(ExpirePub(t, p), l, a)
    BY <1>1, ExpirePubGood, InvFine
  <2> QED BY <1>4, <2>1 DEF Updated
<1>5. CASE t.pub[p].sendQ = <<>> /\ t.pub[p].retQ # <<>>
  <2> DEFINE o == Again(t.pub[p])
             u == SetPub(t, p, o)
             v == [t EXCEPT !.pub[p].sendQ = <<Head(t.pub[p].retQ)>>, !.pub[p].retQ = Tail(@)]
  <2>1. o \in PubType /\ o.st = t.pub[p].st /\ QueueOf(o) = QueueOf(t.pub[p])
    BY <1>1, <1>5, AgainIs
  <2>2. v = u
    BY <1>1 DEF SetPub, Again, StateType, PubType
  <2> HIDE DEF o, v
  <2>3. u \in StateType /\ Apart(t, u) /\ u.req = t.req /\ u.fault = t.fault /\ u.pub[p] = o
        /\ \A x \in Pubs \ {p} : u.pub[x] = t.pub[x]
    BY <1>1, <2>1, SetPubIs
  <2> HIDE DEF u
  <2>4. \A x \in Pubs : QueueOf(u.pub[x]) = QueueOf(t.pub[x]) /\ u.pub[x].st = t.pub[x].st
    BY <2>1, <2>3
  <2>5. Still(t, u)
    <3>1. \A x \in Pubs, r \in Reqs : Queued(u, r, x) = Queued(t, r, x)
      BY <2>4, QueueOfPub
    <3> QED BY <2>3, <3>1 DEF Still, Apart
  <2>6. PubsStay(t, u) /\ AcksTied(u) /\ u.ack = t.ack
    BY <1>1, <2>3, <2>4 DEF PubsStay, AcksTied, Apart
  <2>7. Inv(u, l, a)
    BY <2>3, <2>5, <2>6, InvStill
  <2>8. Inv(Async(u, "pubs"), l, a)
    BY <1>2, <2>7
  <2> QED BY <1>5, <2>2, <2>8 DEF Updated, v
<1> QED BY <1>3, <1>4, <1>5
LEMMA UpdatePubsStep == ASSUME Inv(s, loop, app), UpdatePubs PROVE Inv(s', loop', app')
<1> DEFINE base == [s EXCEPT !.budget = @ - 1]
           S == {t \in StateType : Inv(t, loop, app)}
<1>1. loop' = loop /\ app' = app /\ s' = U!Fold(base, s.publications)
  BY Zenon DEF UpdatePubs, Updated, FoldLeft, MapThenFoldSet, Max, U!Fold, U!Stepped, U!Steps, U!Top
<1>2. s.publications \in Seq(Pubs)
  BY Parts DEF Inv, Good
<1>3. base \in S
  BY InvBudget DEF Inv, Good
<1> HIDE DEF base
<1>4. \A t \in S, p \in Pubs : Updated(t, p) \in S
  <2> TAKE t \in S, p \in Pubs
  <2>1. Inv(Updated(t, p), loop, app)
    BY UpdatedInv
  <2> QED BY <2>1 DEF Inv, Good
<1> HIDE DEF S
<1>5. U!Fold(base, s.publications) \in S
  BY <1>2, <1>3, <1>4, U!FoldStays
<1> QED BY <1>1, <1>5 DEF S

--------------------------------------------------------------------------------
(* The application's calls on publications and subscriptions. *)

\* The queues are what they were, or those of a publication that is new.
LEMMA InvQueues ==
    ASSUME NEW t, NEW l, NEW a, Inv(t, l, a), NEW u, NEW g, FreedLike(t, u, g), PubsStay(t, u),
           \A p \in Pubs : \/ QueueOf(g[p]) = QueueOf(t.pub[p])
                           \/ t.pub[p].st = "unused" /\ QueueOf(g[p]) = <<>>
    PROVE  Inv(u, l, a)
<1>1. /\ u \in StateType /\ u.pub = g /\ u.req = t.req /\ u.net = t.net /\ u.fault = t.fault /\ u.ack = t.ack
      /\ u.ackQueue = t.ackQueue
  BY DEF FreedLike
<1>2. Still(t, u)
  <2>1. ASSUME NEW p \in Pubs, NEW r \in Reqs PROVE Queued(u, r, p) = Queued(t, r, p)
    <3>1. CASE QueueOf(g[p]) = QueueOf(t.pub[p])
      BY <1>1, <3>1, QueueOfPub
    <3>2. CASE t.pub[p].st = "unused" /\ QueueOf(g[p]) = <<>>
      <4>1. Queued(t, r, p) = 0
        BY <3>2, UnusedQueues
      <4>2. Queued(u, r, p) = Occurs(r, QueueOf(g[p]))
        BY <1>1, QueueOfPub
      <4> QED BY <3>2, <4>1, <4>2, OccursNone
    <3> QED BY <3>1, <3>2
  <2> QED BY <1>1, <2>1 DEF Still
<1>3. AcksTied(u)
  BY <1>1 DEF Inv, AcksTied
<1> QED BY <1>1, <1>2, <1>3, InvStill
PutPubs(t, l, g, S, on) == [t EXCEPT !.publications = l, !.pub = g, !.owned = S, !.mcast = on]
LEMMA PutPubsIs ==
    ASSUME NEW t \in StateType, NEW l \in Seq(Pubs), NEW g \in [Pubs -> PubType], NEW S \in SUBSET Pubs, NEW on \in BOOLEAN
    PROVE  FreedLike(t, PutPubs(t, l, g, S, on), g)
BY DEF PutPubs, StateType, FreedLike
\* One publication is another record, with the queues it had, or with none.
LEMMA OnePub ==
    ASSUME NEW t, NEW l, NEW a, Inv(t, l, a), NEW p \in Pubs, NEW o \in PubType, o.st # "unused",
           \/ QueueOf(o) = QueueOf(t.pub[p])
           \/ t.pub[p].st = "unused" /\ QueueOf(o) = <<>>,
           NEW q \in Seq(Pubs), NEW S \in SUBSET Pubs, NEW on \in BOOLEAN
    PROVE  Inv(PutPubs(t, q, [t.pub EXCEPT ![p] = o], S, on), l, a)
<1> DEFINE g == [t.pub EXCEPT ![p] = o]
           u == PutPubs(t, q, g, S, on)
<1>1. t \in StateType /\ t.pub \in [Pubs -> PubType]
  BY Parts DEF Inv, Good
<1>2. g \in [Pubs -> PubType] /\ g[p] = o /\ \A x \in Pubs \ {p} : g[x] = t.pub[x]
  BY <1>1
<1> HIDE DEF g
<1>3. FreedLike(t, u, g)
  BY <1>1, <1>2, PutPubsIs
<1> HIDE DEF u
<1>4. PubsStay(t, u)
  BY <1>2, <1>3 DEF PubsStay, FreedLike
<1>5. ASSUME NEW x \in Pubs
      PROVE  \/ QueueOf(g[x]) = QueueOf(t.pub[x])
             \/ t.pub[x].st = "unused" /\ QueueOf(g[x]) = <<>>
  BY <1>2
<1>6. Inv(u, l, a)
  BY <1>3, <1>4, <1>5, InvQueues
<1> QED BY <1>6 DEF u, g

NewlyMade(p, flags) == [NewPub EXCEPT !.st = "held", !.id = p, !.flags = flags]
LEMMA NewlyMadeIs ==
    ASSUME NEW p \in Locals, NEW flags \in SUBSET Flags
    PROVE  NewlyMade(p, flags) \in PubType /\ NewlyMade(p, flags).st # "unused" /\ QueueOf(NewlyMade(p, flags)) = <<>>
<1> DEFINE e == <<>>
           w == NewlyMade(p, flags)
<1>1. e \in Seq(Reqs) /\ e \o e = <<>>
  OBVIOUS
<1>2. NewPub = [st |-> "unused", id |-> NULL, flags |-> {}, refs |-> 0, seq |-> 0, ttl |-> 0,
                ackReq |-> FALSE, from |-> NULL, sendQ |-> e, retQ |-> e]
  BY DEF NewPub
<1>3. w = [NewPub EXCEPT !.st = "held", !.id = p, !.flags = flags]
  BY DEF NewlyMade
<1>4. p \in PubIds
  BY DEF PubIds
<1> HIDE DEF e, w
<1>5. w = [st |-> "held", id |-> p, flags |-> flags, refs |-> 0, seq |-> 0, ttl |-> 0,
           ackReq |-> FALSE, from |-> NULL, sendQ |-> e, retQ |-> e]
  BY <1>2, <1>3
<1>6. w \in PubType
  BY <1>1, <1>4, <1>5 DEF PubType
<1>7. w.st = "held" /\ QueueOf(w) = <<>>
  BY <1>1, <1>5 DEF QueueOf
<1> QED BY <1>6, <1>7 DEF w
LEMMA FreshIs == ASSUME NEW S PROVE Fresh(S) \subseteq S
BY DEF Fresh
LEMMA UnusedIs == \A f : \A x \in Unused(f) : f[x].st = "unused" /\ x \in DOMAIN f
BY DEF Unused
LEMMA CreatePublicationStep == ASSUME Inv(s, loop, app), CreatePublication PROVE Inv(s', loop', app')
<1> DEFINE flags == IF s.scenario.mcastPub THEN {"MULTICAST"} ELSE {}
<1>1. loop' = loop /\ app' = app
  BY DEF CreatePublication, Called
<1>2. PICK p \in Fresh(Unused(s.pub) \cap Locals \cap s.scenario.locals) :
        s' = [s EXCEPT !.pub[p] = NewlyMade(p, flags), !.owned = @ \cup {p}]
  BY Zenon DEF CreatePublication, NewlyMade
<1>3. p \in Locals /\ p \in Pubs /\ s.pub[p].st = "unused"
  BY <1>2, FreshIs, UnusedIs DEF Pubs
<1>4. flags \in SUBSET Flags
  BY DEF Flags
<1> HIDE DEF flags
<1> DEFINE o == NewlyMade(p, flags)
<1>5. o \in PubType /\ o.st # "unused" /\ QueueOf(o) = <<>>
  BY <1>3, <1>4, NewlyMadeIs
<1> HIDE DEF o
<1>6. s \in StateType /\ s.publications \in Seq(Pubs) /\ s.owned \in SUBSET Pubs /\ s.mcast \in BOOLEAN
  BY Parts DEF Inv, Good
<1> DEFINE S == s.owned \cup {p}
<1>7. s' = PutPubs(s, s.publications, [s.pub EXCEPT ![p] = o], S, s.mcast)
  BY <1>2, <1>6 DEF PutPubs, StateType, o
<1>8. S \in SUBSET Pubs
  BY <1>3, <1>6
<1> HIDE DEF S
<1>9. Inv(PutPubs(s, s.publications, [s.pub EXCEPT ![p] = o], S, s.mcast), loop, app)
  BY <1>3, <1>5, <1>6, <1>8, OnePub
<1> QED BY <1>1, <1>7, <1>9
Initialised(o, ackReq) == [o EXCEPT !.st = "listed", !.flags = o.flags \cup {"LOCAL"}, !.ackReq = ackReq]
LEMMA InitialisedIs ==
    ASSUME NEW o \in PubType, NEW ackReq \in BOOLEAN
    PROVE  LET w == Initialised(o, ackReq) IN w \in PubType /\ w.st # "unused" /\ QueueOf(w) = QueueOf(o)
<1> DEFINE flags == o.flags \cup {"LOCAL"}
<1>1. flags \in SUBSET Flags
  BY PubParts DEF Flags
<1>2. Initialised(o, ackReq) = [o EXCEPT !.st = "listed", !.flags = flags, !.ackReq = ackReq]
  BY DEF Initialised
<1> HIDE DEF flags
<1> QED BY <1>1, <1>2 DEF PubType, QueueOf
LEMMA InitPublicationStep ==
    ASSUME Inv(s, loop, app), NEW p \in Locals, NEW ackReq \in BOOLEAN, InitPublication(p, ackReq) PROVE Inv(s', loop', app')
<1> DEFINE o == Initialised(s.pub[p], ackReq)
           q == <<p>> \o s.publications
<1>1. loop' = loop /\ app' = app
  BY DEF InitPublication, Called
<1>2. s' = [s EXCEPT !.publications = q, !.pub[p] = o]
  BY Zenon DEF InitPublication, Initialised
<1>3. s \in StateType /\ s.publications \in Seq(Pubs) /\ s.owned \in SUBSET Pubs /\ s.mcast \in BOOLEAN
      /\ s.pub \in [Pubs -> PubType]
  BY Parts DEF Inv, Good
<1>4. p \in Pubs /\ s.pub[p] \in PubType
  BY <1>3 DEF Pubs
<1>5. o \in PubType /\ o.st # "unused" /\ QueueOf(o) = QueueOf(s.pub[p])
  BY <1>4, InitialisedIs
<1>6. q \in Seq(Pubs)
  BY <1>3, <1>4
<1> HIDE DEF o, q
<1>7. s' = PutPubs(s, q, [s.pub EXCEPT ![p] = o], s.owned, s.mcast)
  BY <1>2, <1>3 DEF PutPubs, StateType
<1>8. Inv(PutPubs(s, q, [s.pub EXCEPT ![p] = o], s.owned, s.mcast), loop, app)
  BY <1>3, <1>4, <1>5, <1>6, OnePub
<1> QED BY <1>1, <1>7, <1>8
LEMMA SetMulticastStep ==
    ASSUME Inv(s, loop, app), NEW p \in Locals, NEW on \in BOOLEAN, SetMulticast(p, on) PROVE Inv(s', loop', app')
<1> DEFINE flags == IF on THEN s.pub[p].flags \cup {"MULTICAST"} ELSE s.pub[p].flags \ {"MULTICAST"}
           o == [s.pub[p] EXCEPT !.flags = flags]
<1>1. loop' = loop /\ app' = app /\ s.pub[p].st = "listed"
  BY DEF SetMulticast, Called
<1>2. s' = [s EXCEPT !.mcast = TRUE, !.pub[p].flags = flags]
  BY Zenon DEF SetMulticast
<1>3. s \in StateType /\ s.publications \in Seq(Pubs) /\ s.owned \in SUBSET Pubs /\ s.pub \in [Pubs -> PubType]
  BY Parts DEF Inv, Good
<1>4. p \in Pubs /\ s.pub[p] \in PubType
  BY <1>3 DEF Pubs
<1>5. flags \in SUBSET Flags
  BY <1>4, PubParts DEF Flags
<1> HIDE DEF flags
<1>6. o \in PubType /\ SameQueues(s.pub[p], o) /\ o.st = s.pub[p].st
  BY <1>4, <1>5, PubFlags
<1>7. s' = PutPubs(s, s.publications, [s.pub EXCEPT ![p] = o], s.owned, TRUE)
  BY <1>2, <1>3, <1>4 DEF PutPubs, StateType
<1> HIDE DEF o
<1>8. QueueOf(o) = QueueOf(s.pub[p]) /\ o.st # "unused"
  BY <1>1, <1>6 DEF QueueOf, SameQueues
<1>9. Inv(PutPubs(s, s.publications, [s.pub EXCEPT ![p] = o], s.owned, TRUE), loop, app)
  BY <1>3, <1>4, <1>6, <1>8, OnePub
<1> QED BY <1>1, <1>7, <1>9

LEMMA CopyPublicationStep ==
    ASSUME Inv(s, loop, app), NEW p \in Pubs, CopyPublication(p) PROVE Inv(s', loop', app')
<1> DEFINE o == CopyOf(s.pub[p], s.pub[p].seq)
<1>1. loop' = loop /\ app' = app
  BY DEF CopyPublication, Called
<1>2. PICK c \in Fresh(Unused(s.pub) \cap Others) : s' = [s EXCEPT !.pub[c] = o, !.owned = @ \cup {c}]
  BY Zenon DEF CopyPublication
<1>3. c \in Pubs /\ s.pub[c].st = "unused"
  BY <1>2, FreshIs, UnusedIs DEF Pubs
<1>4. s \in StateType /\ s.publications \in Seq(Pubs) /\ s.owned \in SUBSET Pubs /\ s.mcast \in BOOLEAN
      /\ s.pub \in [Pubs -> PubType]
  BY Parts DEF Inv, Good
<1>5. s.pub[p] \in PubType /\ s.pub[p].seq \in Int
  BY <1>4, PubParts
<1>6. o \in PubType /\ o.st # "unused" /\ o.sendQ = <<>> /\ o.retQ = <<>>
  BY <1>5, CopyOfIs
<1> HIDE DEF o
<1>7. QueueOf(o) = <<>>
  BY <1>6 DEF QueueOf
<1> DEFINE S == s.owned \cup {c}
<1>8. s' = PutPubs(s, s.publications, [s.pub EXCEPT ![c] = o], S, s.mcast)
  BY <1>2, <1>4 DEF PutPubs, StateType
<1>9. S \in SUBSET Pubs
  BY <1>3, <1>4
<1> HIDE DEF S
<1>10. Inv(PutPubs(s, s.publications, [s.pub EXCEPT ![c] = o], S, s.mcast), loop, app)
  BY <1>3, <1>4, <1>6, <1>7, <1>9, OnePub
<1> QED BY <1>1, <1>8, <1>10
LEMMA PutOwned ==
    ASSUME NEW t \in StateType, NEW S \in SUBSET Pubs
    PROVE  [t EXCEPT !.owned = S] \in StateType /\ Plain(t, [t EXCEPT !.owned = S])
BY DEF StateType, Plain
LEMMA DestroyPublicationStep ==
    ASSUME Inv(s, loop, app), NEW p \in Pubs, DestroyPublication(p) PROVE Inv(s', loop', app')
<1> DEFINE u == FreePublication(s, p)
           S == u.owned \ {p}
<1>1. loop' = loop /\ app' = app /\ s' = [u EXCEPT !.owned = S]
  BY DEF DestroyPublication, Called
<1>2. Good(s, HeldBy(loop), UsedBy(loop, app))
  BY DEF Inv
<1>3. Fine(s, u, HeldBy(loop), UsedBy(loop, app))
  BY <1>2, FreePublicationGood
<1> HIDE DEF u
<1>4. Inv(u, loop, app)
  BY <1>3, InvFine
<1>5. u \in StateType
  BY <1>4 DEF Inv, Good
<1>6. S \in SUBSET Pubs
  BY <1>5, Parts
<1> HIDE DEF S
<1>7. Inv([u EXCEPT !.owned = S], loop, app)
  BY <1>4, <1>5, <1>6, PutOwned, InvPlain
<1> QED BY <1>1, <1>7
LEMMA SubscribeStep ==
    ASSUME Inv(s, loop, app), NEW x \in Subs, Subscribe(x) PROVE Inv(s', loop', app')
<1> DEFINE a == <<x>> \o s.subscriptions
           f == [s.sub EXCEPT ![x].st = "listed"]
<1>1. loop' = loop /\ app' = app
  BY DEF Subscribe, Called
<1>2. s' = [s EXCEPT !.subscriptions = a, !.sub[x].st = "listed"]
  BY Zenon DEF Subscribe
<1>3. s \in StateType /\ s.subscriptions \in Seq(Subs) /\ s.freeSubs \in Seq(Subs) /\ s.sub \in [Subs -> SubType]
  BY Parts DEF Inv, Good
<1>4. a \in Seq(Subs)
  BY <1>3
<1>5. f \in [Subs -> SubType]
  BY <1>3 DEF SubType
<1> HIDE DEF a
<1>6. s' = SetSubs(s, a, s.freeSubs, f)
  BY <1>2, <1>3 DEF SetSubs, StateType
<1> HIDE DEF f
<1>7. SetSubs(s, a, s.freeSubs, f) \in StateType /\ Plain(s, SetSubs(s, a, s.freeSubs, f))
  BY <1>3, <1>4, <1>5, PutSubs
<1>8. Inv(SetSubs(s, a, s.freeSubs, f), loop, app)
  BY <1>7, InvPlain
<1> QED BY <1>1, <1>6, <1>8
LEMMA DestroySubscriptionStep ==
    ASSUME Inv(s, loop, app), NEW x \in Subs, DestroySubscription(x) PROVE Inv(s', loop', app')
<1>1. loop' = loop /\ app' = app /\ s' = FreeSubscription(s, x)
  BY DEF DestroySubscription, Called
<1>2. s \in StateType
  BY DEF Inv, Good
<1>3. FreeSubscription(s, x) \in StateType /\ Plain(s, FreeSubscription(s, x))
  BY <1>2, FreeSubscriptionIs
<1>4. Inv(FreeSubscription(s, x), loop, app)
  BY <1>3, InvPlain
<1> QED BY <1>1, <1>4
LEMMA AckPublicationStep ==
    ASSUME Inv(s, loop, app), NEW p \in Pubs, AckPublication(p) PROVE Inv(s', loop', app')
<1> DEFINE u == PublicationIncRef(s, p)
<1>1. loop' = loop /\ app' = app
  BY DEF AckPublication, Called
<1>2. PICK dest \in PublishersForAck(s, s.pub[p].id), k \in Fresh(Unused(s.ack)) :
        s' = Async([u EXCEPT !.ack[k] = [st |-> "live", pub |-> p, seq |-> s.pub[p].seq, dest |-> dest],
                             !.ackQueue = Append(@, k)], "acks")
  BY Zenon DEF AckPublication
<1>3. s \in StateType /\ s.pub \in [Pubs -> PubType] /\ s.ack \in [Acks -> AckType] /\ s.ackQueue \in Seq(Acks) /\ AcksTied(s)
  BY Parts DEF Inv, Good
<1>4. s.pub[p].seq \in Int /\ dest \in Sources
  <2>1. s.pub[p] \in PubType
    BY <1>3
  <2>2. dest \in Sources
    BY <1>2 DEF PublishersForAck
  <2> QED BY <2>1, <2>2, PubParts
<1>5. k \in Acks
  BY <1>2, <1>3, FreshIs, UnusedIs
<1>6. Inv(u, loop, app) /\ u \in StateType /\ u.ack = s.ack /\ u.ackQueue = s.ackQueue
  <2>1. Inv(u, loop, app)
    BY InvIncRef
  <2>2. Does(s, u)
    BY <1>3, IncRefIs
  <2> QED BY <2>1, <2>2 DEF Does, Kept, Apart
<1> DEFINE o == [st |-> "live", pub |-> p, seq |-> s.pub[p].seq, dest |-> dest]
           f == [u.ack EXCEPT ![k] = o]
           q == Append(u.ackQueue, k)
<1>7. o \in AckType /\ o.st = "live" /\ o.pub = p
  BY <1>4 DEF AckType
<1>8. s' = Async(SetAcks(u, f, q), "acks")
  <2> HIDE DEF o
  <2>1. s' = Async([u EXCEPT !.ack[k] = o, !.ackQueue = Append(@, k)], "acks")
    BY <1>2, Zenon DEF o
  <2> HIDE DEF u
  <2>2. [u EXCEPT !.ack[k] = o, !.ackQueue = Append(@, k)] = SetAcks(u, f, q)
    BY <1>6 DEF SetAcks, StateType
  <2> QED BY <2>1, <2>2
<1> HIDE DEF o, u
<1>9. f \in [Acks -> AckType] /\ f[k] = o /\ \A x \in Acks \ {k} : f[x] = u.ack[x]
  BY <1>3, <1>5, <1>6, <1>7
<1>10. q \in Seq(Acks) /\ \A i \in DOMAIN q : q[i] = k \/ \E j \in DOMAIN u.ackQueue : q[i] = u.ackQueue[j]
  BY <1>3, <1>5, <1>6
<1> HIDE DEF f, q
<1>11. \A x \in Acks : /\ f[x].st = "unused" => u.ack[x].st = "unused"
                       /\ f[x].st # "unused" => f[x].pub \in Pubs
  BY <1>3, <1>6, <1>7, <1>9 DEF AcksTied
<1>12. \A i \in DOMAIN q : f[q[i]].st # "unused"
  <2>1. \A j \in DOMAIN u.ackQueue : u.ackQueue[j] \in Acks /\ u.ack[u.ackQueue[j]].st # "unused"
    BY <1>6, QueuedAcks
  <2> QED BY SMTT(40), <1>7, <1>9, <1>10, <2>1
<1>13. Inv(SetAcks(u, f, q), loop, app)
  BY <1>6, <1>9, <1>10, <1>11, <1>12, AcksInv
<1>14. Inv(Async(SetAcks(u, f, q), "acks"), loop, app)
  <2> DEFINE v == SetAcks(u, f, q)
  <2>1. v \in StateType /\ "acks" \in Tasks
    BY <1>13 DEF Inv, Good, Tasks
  <2> HIDE DEF v
  <2>2. Async(v, "acks") \in StateType /\ Plain(v, Async(v, "acks"))
    BY <2>1, AsyncPlain
  <2>3. Inv(v, loop, app)
    BY <1>13 DEF v
  <2>4. Inv(Async(v, "acks"), loop, app)
    BY <2>2, <2>3, InvPlain
  <2> QED BY <2>4 DEF v
<1> QED BY <1>1, <1>8, <1>14

--------------------------------------------------------------------------------
(* DPS_PublishBufs. *)

Begun(o, ttl, flags) == [o EXCEPT !.refs = o.refs + 1, !.seq = o.seq + 1, !.ttl = Larger(ttl, 0), !.flags = flags]
BegunReq(q, p, seq, ttl) == [q EXCEPT !.st = "live", !.pub = p, !.seq = seq, !.ttl = Larger(ttl, 0), !.cb = TRUE]
BegunFlags(flags, ttl) ==
    CASE ttl < 0 -> flags \cup {"EXPIRED"}
      [] ttl = 0 -> flags \ {"RETAINED", "EXPIRED"}
      [] ttl > 0 -> (flags \ {"EXPIRED"}) \cup {"RETAINED"}

LEMMA BegunIs ==
    ASSUME NEW o \in PubType, NEW ttl \in Int, NEW flags \in SUBSET Flags
    PROVE  LET w == Begun(o, ttl, flags) IN w \in PubType /\ w.st = o.st /\ SameQueues(o, w)
<1> DEFINE k == Larger(ttl, 0)
           a == o.refs + 1
           b == o.seq + 1
           w == [o EXCEPT !.refs = a, !.seq = b, !.ttl = k, !.flags = flags]
<1>1. k \in Int /\ a \in Int /\ b \in Int
  BY PubParts DEF Larger
<1>2. w = Begun(o, ttl, flags)
  BY Zenon DEF Begun
<1> HIDE DEF k, a, b
<1>3. w \in PubType
  BY <1>1 DEF PubType
<1>4. w.st = o.st /\ w.sendQ = o.sendQ /\ w.retQ = o.retQ
  BY DEF PubType
<1> QED BY <1>2, <1>3, <1>4 DEF SameQueues
LEMMA BegunReqIs ==
    ASSUME NEW q \in ReqType, q.refs = 0, q.calls = 0, NEW p \in Pubs, NEW seq \in Int, NEW ttl \in Int
    PROVE  LET w == BegunReq(q, p, seq, ttl)
           IN  w \in ReqType /\ w.st = "live" /\ w.pub = p /\ w.refs = 0 /\ w.calls = 0
<1> DEFINE k == Larger(ttl, 0)
           w == [q EXCEPT !.st = "live", !.pub = p, !.seq = seq, !.ttl = k, !.cb = TRUE]
<1>1. k \in Int
  BY DEF Larger
<1>2. w = BegunReq(q, p, seq, ttl)
  BY Zenon DEF BegunReq
<1> HIDE DEF k
<1>3. w \in ReqType
  BY <1>1 DEF ReqType
<1>4. w.st = "live" /\ w.pub = p /\ w.refs = 0 /\ w.calls = 0
  BY DEF ReqType
<1> QED BY <1>2, <1>3, <1>4
LEMMA BegunFlagsIs ==
    ASSUME NEW flags \in SUBSET Flags, NEW ttl \in Int PROVE BegunFlags(flags, ttl) \in SUBSET Flags
<1>1. ttl < 0 \/ ttl = 0 \/ ttl > 0
  OBVIOUS
<1>2. CASE ttl < 0
  BY <1>2 DEF BegunFlags, Flags
<1>3. CASE ttl = 0
  BY <1>3 DEF BegunFlags, Flags
<1>4. CASE ttl > 0
  BY <1>4 DEF BegunFlags, Flags
<1> QED BY <1>1, <1>2, <1>3, <1>4
LEMMA BeginsIs ==
    ASSUME NEW t \in StateType, NEW p \in Pubs, NEW ttl \in Int, NEW r \in Reqs, t.req[r] = NewReq
    PROVE  LET u == PublishBegins(t, p, ttl, r)
           IN  /\ u \in StateType /\ Apart(t, u) /\ u.fault = t.fault /\ OnlyReq(t, u, r)
               /\ (\A x \in Reqs \ {r} : u.req[x] = t.req[x])
               /\ u.req[r].st = "live" /\ u.req[r].pub = p /\ u.req[r].refs = 0 /\ u.req[r].calls = 0
               /\ (\A x \in Pubs : SameQueues(t.pub[x], u.pub[x]) /\ u.pub[x].st = t.pub[x].st)
<1> DEFINE flags == BegunFlags(t.pub[p].flags, ttl)
           o == Begun(t.pub[p], ttl, flags)
           w == BegunReq(t.req[r], p, t.pub[p].seq + 1, ttl)
           u == SetBoth(t, r, w, p, o)
<1>1. t.pub \in [Pubs -> PubType] /\ t.req \in [Reqs -> ReqType] /\ t.pub[p] \in PubType
  BY Parts
<1>2. t.pub[p].seq \in Int /\ t.pub[p].flags \in SUBSET Flags
  BY <1>1, PubParts
<1>3. flags \in SUBSET Flags
  BY <1>2, BegunFlagsIs
<1>4. PublishBegins(t, p, ttl, r) = [t EXCEPT !.pub[p] = o, !.req[r] = w]
  BY Zenon DEF PublishBegins, Begun, BegunReq, BegunFlags
<1> HIDE DEF flags
<1>5. o \in PubType /\ o.st = t.pub[p].st /\ SameQueues(t.pub[p], o)
  BY <1>1, <1>3, BegunIs
<1>6. w \in ReqType /\ w.st = "live" /\ w.pub = p /\ w.refs = 0 /\ w.calls = 0
  <2>1. t.req[r] \in ReqType /\ t.req[r].refs = 0 /\ t.req[r].calls = 0
    BY <1>1 DEF NewReq
  <2>2. t.pub[p].seq + 1 \in Int
    BY <1>2
  <2> QED BY <2>1, <2>2, BegunReqIs
<1> HIDE DEF o, w
<1>7. [t EXCEPT !.pub[p] = o, !.req[r] = w] = u
  BY <1>1 DEF SetBoth, StateType
<1>8. /\ u \in StateType /\ Apart(t, u) /\ u.fault = t.fault /\ OnlyReq(t, u, r)
      /\ u.req[r] = w /\ (\A x \in Reqs \ {r} : u.req[x] = t.req[x])
      /\ u.pub[p] = o /\ \A x \in Pubs \ {p} : u.pub[x] = t.pub[x]
  BY <1>5, <1>6, SetBothIs
<1> HIDE DEF u
<1>9. \A x \in Pubs : SameQueues(t.pub[x], u.pub[x]) /\ u.pub[x].st = t.pub[x].st
  BY <1>5, <1>8 DEF SameQueues
<1> QED BY <1>4, <1>6, <1>7, <1>8, <1>9

\* A request that is new is the application's thread's.
LEMMA BeginsGood ==
    ASSUME NEW t, NEW l, NEW a, Inv(t, l, a), NEW p \in Pubs, t.pub[p].st # "unused", NEW ttl \in Int, NEW r \in Reqs,
           t.req[r].st = "unused"
    PROVE  LET u == PublishBegins(t, p, ttl, r)
           IN  /\ Good(u, HeldBy(l), Plus(UsedBy(l, a), r)) /\ HeldBy(l)[r] = 0 /\ UsedBy(l, a)[r] = 0
               /\ u.req[r].refs = 0 /\ u.req[r].pub = p /\ u.req[r].st = "live"
               /\ AcksTied(u) /\ ReqsTied(u) /\ Framed(u, l) /\ AppOK(u, a)
<1> DEFINE u == PublishBegins(t, p, ttl, r)
           h == HeldBy(l)
           n == UsedBy(l, a)
<1>1. Good(t, h, n) /\ t \in StateType /\ AcksTied(t) /\ ReqsTied(t) /\ Shape(l) /\ Framed(t, l) /\ AppOK(t, a)
  BY DEF Inv, Good
<1>2. t.req[r] = NewReq /\ h[r] = 0 /\ n[r] = 0
  BY <1>1, UnusedReq
<1>3. /\ u \in StateType /\ Apart(t, u) /\ u.fault = t.fault /\ OnlyReq(t, u, r)
      /\ (\A x \in Reqs \ {r} : u.req[x] = t.req[x])
      /\ u.req[r].st = "live" /\ u.req[r].pub = p /\ u.req[r].refs = 0 /\ u.req[r].calls = 0
      /\ (\A x \in Pubs : SameQueues(t.pub[x], u.pub[x]) /\ u.pub[x].st = t.pub[x].st)
  BY <1>1, <1>2, BeginsIs
<1> HIDE DEF u
<1>4. u.net = t.net /\ u.ack = t.ack /\ u.ackQueue = t.ackQueue
  BY <1>3 DEF Apart
<1>5. Good(u, h, Plus(n, r))
  BY <1>1, <1>3, <1>4, NewGood
<1>6. AcksTied(u)
  BY <1>1, <1>4 DEF AcksTied
<1>7. ReqsTied(u)
  <2>1. \A x \in Reqs : t.req[x].st # "unused" => t.req[x].pub \in Pubs
    BY <1>1 DEF Good, ReqOK
  <2> QED BY <1>1, <1>3, <2>1 DEF ReqsTied
<1>8. AppOK(u, a)
  BY <1>1, <1>3 DEF AppOK
<1>9. Framed(u, l)
  <2>1. ASSUME NEW f, IsFrame(f), FrameOK(t, f) PROVE FrameOK(u, f)
    <3>1. NULL \notin Pubs /\ t.req[r].pub = NULL /\ t.req[r].st = "unused"
      BY <1>2, NotReq DEF NewReq
    <3>2. CASE IsPubs(f)
      BY <1>3, <2>1, <3>1, <3>2 DEF IsPubs, FrameOK
    <3>3. CASE IsDecode(f)
      BY <1>3, <2>1, <3>1, <3>3 DEF IsDecode, FrameOK
    <3>4. CASE IsHandlers(f)
      BY <1>3, <2>1, <3>1, <3>4 DEF IsHandlers, FrameOK
    <3>5. CASE IsAck(f)
      BY <3>5 DEF IsAck, FrameOK
    <3>6. CASE IsAcks(f)
      BY <1>4, <2>1, <3>6 DEF IsAcks, FrameOK
    <3> QED BY <2>1, <3>2, <3>3, <3>4, <3>5, <3>6 DEF IsFrame
  <2>2. \A i \in DOMAIN l : IsFrame(l[i])
    BY <1>1, ShapeFrames
  <2> QED BY <1>1, <2>1, <2>2 DEF Framed
<1> QED BY <1>2, <1>3, <1>5, <1>6, <1>7, <1>8, <1>9 DEF u

\* The request joins the queue of its publication, which the loop is told of.
LEMMA EndsGood ==
    ASSUME NEW t, NEW h, NEW n, Good(t, h, n), NEW r \in Reqs, n[r] > 0
    PROVE  LET u == PublishEnds(t, r)
           IN  Good(u, h, Minus(n, r)) /\ Around(t, u, {r})
<1> DEFINE p == t.req[r].pub
           w == [t.req[r] EXCEPT !.refs = t.req[r].refs + 1]
           o == [t.pub[p] EXCEPT !.sendQ = Append(t.pub[p].sendQ, r)]
           u == SetBoth(t, r, w, p, o)
           v == Async(u, "pubs")
           x == [t EXCEPT !.pub[t.req[r].pub].sendQ = Append(@, r), !.req[r].refs = @ + 1]
<1>1. t \in StateType /\ t.req \in [Reqs -> ReqType] /\ t.pub \in [Pubs -> PubType] /\ t.req[r] \in ReqType
  BY Parts DEF Good
<1>2. p \in Pubs /\ t.req[r].st = "live" /\ t.pub[p] \in PubType
  BY <1>1, Placed
<1>3. w \in ReqType /\ SameUse(t.req[r], w) /\ w.refs = t.req[r].refs + 1 /\ SamePlace(t.req[r], w)
  BY <1>1 DEF ReqType, SameUse, SamePlace
<1>4. Joined(t.pub[p], o, r) /\ o \in PubType /\ o.st = t.pub[p].st
  <2>1. r \in Reqs
    OBVIOUS
  <2>2. Joined(t.pub[p], o, r)
    BY <1>2, <2>1, JoinedIs
  <2> QED BY <1>2, <2>2 DEF Joined, PubType
<1>5. x = u
  BY <1>1, <1>2 DEF SetBoth, StateType, PubType, ReqType
<1>6. PublishEnds(t, r) = PublicationDecRef(Async(x, "pubs"), p)
  BY Zenon DEF PublishEnds
<1> HIDE DEF w, o, p, x
<1>7. Good(u, h, Minus(n, r))
  BY <1>2, <1>3, <1>4, Enqueue DEF p
<1>8. Around(t, u, {r})
  <2>1. /\ Apart(t, u) /\ u.req[r] = w /\ (\A y \in Reqs \ {r} : u.req[y] = t.req[y])
        /\ u.pub[p] = o /\ \A y \in Pubs \ {p} : u.pub[y] = t.pub[y]
    BY <1>1, <1>2, <1>3, <1>4, SetBothIs
  <2>2. PubsStay(t, u) /\ u.ack = t.ack /\ u.ackQueue = t.ackQueue /\ u.net = t.net
    BY <1>4, <2>1 DEF PubsStay, Apart
  <2> QED BY <1>3, <2>1, <2>2, OnlyAround
<1> HIDE DEF u
<1>9. Fine(u, v, h, Minus(n, r))
  <2>1. u \in StateType /\ "pubs" \in Tasks
    BY <1>7 DEF Good, Tasks
  <2> QED BY <1>7, <2>1, AsyncPlain, FinePlain
<1> HIDE DEF v
<1>10. Fine(v, PublicationDecRef(v, p), h, Minus(n, r))
  BY <1>2, <1>9, DecRefGood DEF Fine
<1>11. Fine(u, PublicationDecRef(v, p), h, Minus(n, r))
  BY <1>9, <1>10, FineTrans
<1>12. Around(t, PublicationDecRef(v, p), {r})
  BY <1>8, <1>11, AroundCalm DEF Fine
<1> QED BY <1>5, <1>6, <1>11, <1>12 DEF v, Fine

\* A request that no frame uses is not one that is being decoded.
LEMMA NotDecoding ==
    ASSUME NEW l, Shape(l), NEW a, NEW r \in Reqs, UsedBy(l, a)[r] = 0
    PROVE  \A i \in DOMAIN l : l[i].k = "decode" => l[i].req # r
<1>1. ASSUME NEW f, NEW k \in Nat, Uses(f, r) + k = 0, f.k = "decode" PROVE f.req # r
  BY <1>1 DEF Uses
<1>2. \A f : Uses(f, r) \in Nat /\ Mine(a, r) \in Nat
  BY UsesType
<1>3. CASE l = <<>>
  BY <1>3
<1>4. ASSUME NEW f, l = <<f>> PROVE l[1].k = "decode" => l[1].req # r
  BY <1>1, <1>2, <1>4, UsedOne
<1>5. ASSUME NEW f, NEW g, l = <<f, g>>
      PROVE  (l[1].k = "decode" => l[1].req # r) /\ (l[2].k = "decode" => l[2].req # r)
  <2>1. Uses(f, r) + Uses(g, r) + Mine(a, r) = 0
    BY <1>5, UsedTwo
  <2>2. Uses(f, r) = 0 /\ Uses(g, r) = 0
    BY <1>2, <2>1
  <2> QED BY <1>5, <2>2 DEF Uses
<1>6. ASSUME NEW f, NEW g, NEW e, l = <<f, g, e>>, Triple(f, g, e)
      PROVE  (l[1].k = "decode" => l[1].req # r) /\ (l[2].k = "decode" => l[2].req # r) /\ l[3].k # "decode"
  <2>1. Uses(f, r) + Uses(g, r) + Mine(a, r) = 0
    BY <1>6, UsedThree DEF Triple, IsHandlers, Uses
  <2>2. Uses(f, r) = 0 /\ Uses(g, r) = 0
    BY <1>2, <2>1
  <2>3. e.k = "handlers"
    BY <1>6 DEF Triple, IsHandlers
  <2> QED BY <1>6, <2>2, <2>3 DEF Uses
<1>7. CASE \E f : Single(f) /\ l = <<f>>
  BY <1>4, <1>7
<1>8. CASE \E f, g : Double(f, g) /\ l = <<f, g>>
  BY <1>5, <1>8
<1>9. CASE \E f, g, e : Triple(f, g, e) /\ l = <<f, g, e>>
  BY <1>6, <1>9
<1> QED BY <1>3, <1>7, <1>8, <1>9 DEF Shape
\* A request that no frame uses moves.
LEMMA AroundInv ==
    ASSUME NEW t, NEW h, NEW n, Good(t, h, n), AcksTied(t), ReqsTied(t), NEW l, Shape(l), Framed(t, l), NEW a, AppOK(t, a),
           NEW r \in Reqs, UsedBy(l, a)[r] = 0, NEW u, Around(t, u, {r}), NEW i, NEW k, Good(u, i, k),
           \A x \in Reqs : i[x] = HeldBy(l)[x] /\ k[x] = UsedBy(l, a)[x]
    PROVE  Inv(u, l, a)
<1>1. Good(u, HeldBy(l), UsedBy(l, a))
  BY CountsBy, GoodPoint
<1>2. AcksTied(u) /\ ReqsTied(u)
  <2>1. {r} \subseteq Reqs
    OBVIOUS
  <2>2. ReqsTied(u)
    BY <2>1, AroundTied
  <2> QED BY <2>2 DEF Around
<1>3. a # r
  BY NotApp
<1>4. AppOK(u, a)
  BY <1>3, AroundApp
<1>5. Framed(u, l)
  <2>1. ASSUME NEW x \in DOMAIN l PROVE FrameOK(u, l[x])
    <3>1. IsFrame(l[x]) /\ FrameOK(t, l[x]) /\ (l[x].k = "decode" => l[x].req # r)
      BY ShapeFrames, NotDecoding DEF Framed
    <3> QED BY <3>1, AroundFrame
  <2> QED BY <2>1 DEF Framed
<1> QED BY <1>1, <1>2, <1>4, <1>5 DEF Inv
LEMMA UsedApp ==
    ASSUME NEW l, NEW a, NEW r \in Reqs PROVE UsedBy(l, a)[r] = UsedBy(l, NULL)[r] + Mine(a, r) /\ UsedBy(l, NULL)[r] \in Nat
<1>1. Mine(NULL, r) = 0 /\ Mine(a, r) \in Nat
  BY NotReq, UsesType DEF Mine
<1>2. Uses(l[1], r) \in Nat /\ Uses(l[2], r) \in Nat
  BY UsesType
<1> DEFINE x == IF l # <<>> THEN Uses(l[1], r) ELSE 0
           y == IF Len(l) > 1 THEN Uses(l[2], r) ELSE 0
<1>3. x \in Nat /\ y \in Nat
  BY <1>2
<1>4. UsedBy(l, a)[r] = x + y + Mine(a, r) /\ UsedBy(l, NULL)[r] = x + y + Mine(NULL, r)
  BY DEF UsedBy
<1> HIDE DEF x, y
<1> QED BY <1>1, <1>3, <1>4
LEMMA PublishBufsStep ==
    ASSUME Inv(s, loop, app), NEW p \in Locals, NEW ttl \in Int, PublishBufs(p, ttl) PROVE Inv(s', loop', app')
<1>1. loop' = loop /\ app' = app /\ s.pub[p].st # "unused" /\ p \in Pubs
  BY DEF PublishBufs, Called, Publishable, Pubs
<1>2. PICK r \in Fresh(Unused(s.req)) : s' = PublishEnds(PublishBegins(s, p, ttl, r), r)
  BY DEF PublishBufs
<1>3. s.req \in [Reqs -> ReqType]
  BY Parts DEF Inv, Good
<1>4. r \in Reqs /\ s.req[r].st = "unused"
  BY <1>2, <1>3, FreshIs, UnusedIs
<1> DEFINE u == PublishBegins(s, p, ttl, r)
           h == HeldBy(loop)
           n == UsedBy(loop, app)
           v == PublishEnds(u, r)
<1>5. /\ Good(u, h, Plus(n, r)) /\ n[r] = 0
      /\ AcksTied(u) /\ ReqsTied(u) /\ Framed(u, loop) /\ AppOK(u, app)
  BY <1>1, <1>4, BeginsGood
<1>6. Counts(n) /\ Shape(loop)
  BY CountsBy DEF Inv
<1> HIDE DEF u
<1>7. Plus(n, r)[r] > 0
  BY <1>4, <1>5, <1>6, PlusIs
<1>8. Good(v, h, Minus(Plus(n, r), r)) /\ Around(u, v, {r})
  BY <1>4, <1>5, <1>7, EndsGood
<1>9. \A x \in Reqs : Minus(Plus(n, r), r)[x] = n[x]
  BY <1>4, <1>6, PlusMinus
<1> HIDE DEF v
<1>10. Inv(v, loop, app)
  BY <1>4, <1>5, <1>6, <1>8, <1>9, AroundInv
<1> QED BY <1>1, <1>2, <1>10 DEF u, v
LEMMA PublishSealedStep ==
    ASSUME Inv(s, loop, app), NEW p \in Locals, NEW ttl \in Int, PublishSealed(p, ttl) PROVE Inv(s', loop', app')
<1>1. loop' = loop /\ app = NULL /\ s.pub[p].st # "unused" /\ p \in Pubs
  BY DEF PublishSealed, Publishable, Pubs
<1>2. PICK r \in Fresh(Unused(s.req)) : s' = PublishBegins(s, p, ttl, r) /\ app' = r
  BY DEF PublishSealed
<1>3. s.req \in [Reqs -> ReqType]
  BY Parts DEF Inv, Good
<1>4. r \in Reqs /\ s.req[r].st = "unused"
  BY <1>2, <1>3, FreshIs, UnusedIs
<1> DEFINE u == PublishBegins(s, p, ttl, r)
           h == HeldBy(loop)
           n == UsedBy(loop, NULL)
<1>5. /\ Good(u, h, Plus(n, r)) /\ u.req[r].refs = 0
      /\ AcksTied(u) /\ ReqsTied(u) /\ Framed(u, loop)
  BY <1>1, <1>4, BeginsGood
<1>6. Counts(n) /\ Shape(loop)
  BY CountsBy DEF Inv
<1> HIDE DEF u
<1>7. \A x \in Reqs : UsedBy(loop, r)[x] = Plus(n, r)[x]
  <2> TAKE x \in Reqs
  <2>1. UsedBy(loop, r)[x] = n[x] + Mine(r, x) /\ n[x] \in Nat
    BY UsedApp
  <2>2. Plus(n, r)[x] = IF x = r THEN n[x] + 1 ELSE n[x]
    BY <1>4, <1>6, PlusIs
  <2> QED BY <2>1, <2>2 DEF Mine
<1>8. Good(u, h, UsedBy(loop, r))
  BY <1>5, <1>7, CountsBy, GoodPoint
<1>9. AppOK(u, r)
  BY <1>4, <1>5 DEF AppOK
<1>10. Inv(u, loop, r)
  BY <1>5, <1>6, <1>8, <1>9 DEF Inv
<1> QED BY <1>1, <1>2, <1>10 DEF u
LEMMA SealedStep == ASSUME Inv(s, loop, app), Sealed PROVE Inv(s', loop', app')
<1> DEFINE r == app
           q == s.req[r]
           h == HeldBy(loop)
           n == UsedBy(loop, r)
           m == UsedBy(loop, NULL)
<1>1. loop' = loop /\ app' = NULL /\ app # NULL
  BY DEF Sealed
<1>2. /\ Good(s, h, n) /\ s \in StateType /\ AcksTied(s) /\ ReqsTied(s) /\ Shape(loop) /\ Framed(s, loop)
      /\ r \in Reqs /\ q.refs = 0
  BY <1>1 DEF Inv, AppOK, Good
<1>3. \A x \in Reqs : n[x] = m[x] + Mine(r, x) /\ m[x] \in Nat
  BY UsedApp
<1>4. n[r] > 0
  BY <1>2, <1>3 DEF Mine
<1>5. n[r] = 1 /\ q.st = "live" /\ q.pub \in Pubs /\ q \in ReqType
  BY <1>2, <1>4, Placed
<1>6. m[r] = 0
  BY <1>2, <1>3, <1>5 DEF Mine
<1>7. Counts(n) /\ AppOK(s, NULL)
  BY CountsBy DEF AppOK
<1>8. \A x \in Reqs : Minus(n, r)[x] = m[x]
  <2> TAKE x \in Reqs
  <2>1. Minus(n, r)[x] = IF x = r THEN n[x] - 1 ELSE n[x]
    BY <1>2, <1>4, <1>7, MinusIs
  <2> QED BY <1>3, <2>1 DEF Mine
<1>9. ASSUME NEW u, Good(u, h, Minus(n, r)), Around(s, u, {r}) PROVE Inv(u, loop, NULL)
  BY <1>2, <1>6, <1>7, <1>8, <1>9, AroundInv
<1>10. CASE s' = PublishEnds(s, app)
  <2> DEFINE u == PublishEnds(s, r)
  <2>1. Good(u, h, Minus(n, r)) /\ Around(s, u, {r})
    BY <1>2, <1>4, EndsGood
  <2> HIDE DEF u
  <2>2. Inv(u, loop, NULL)
    BY <1>9, <2>1
  <2> QED BY <1>1, <1>10, <2>2 DEF u
<1>11. CASE s' = PublicationDecRef([s EXCEPT !.req[app].st = "rejected"], s.req[app].pub)
  <2> DEFINE w == [q EXCEPT !.st = "rejected"]
             u == SetReq(s, r, w)
             p == q.pub
             v == PublicationDecRef(u, p)
  <2>1. w \in ReqType /\ SamePlace(q, w)
    BY <1>5 DEF ReqType, SamePlace
  <2>2. [s EXCEPT !.req[app].st = "rejected"] = u
    BY DEF SetReq
  <2> HIDE DEF w
  <2>3. u.req[r] = w /\ Around(s, u, {r})
    BY <1>2, <2>1, SetReqAround
  <2>4. u \in StateType /\ Apart(s, u) /\ u.fault = s.fault /\ OnlyReq(s, u, r) /\ u.pub = s.pub
    BY <1>2, <2>1, SetReqIs
  <2> HIDE DEF u
  <2>5. u.req[r] = [s.req[r] EXCEPT !.st = "rejected"]
    BY <2>3 DEF w
  <2>6. u.net = s.net
    BY <2>4 DEF Apart
  <2> DEFINE st == "rejected"
  <2>7. Good(u, h, Minus(n, r))
    <3>1. st \in {"gone", "rejected"} /\ (st = "gone" => ~s.req[r].cb) /\ u.req[r] = [s.req[r] EXCEPT !.st = st]
      BY <2>5
    <3> HIDE DEF st
    <3> QED BY <1>2, <1>4, <2>4, <2>6, <3>1, EndGood
  <2>8. Fine(u, v, h, Minus(n, r))
    BY <1>5, <2>7, DecRefGood
  <2> HIDE DEF v
  <2>9. Around(s, v, {r}) /\ Good(v, h, Minus(n, r))
    BY <1>2, <2>3, <2>8, AroundCalm DEF Fine
  <2>10. Inv(v, loop, NULL)
    BY <1>9, <2>9
  <2> QED BY <1>1, <1>11, <2>2, <2>10 DEF v
<1> QED BY <1>10, <1>11 DEF Sealed

--------------------------------------------------------------------------------
(* StopNode. *)

K == INSTANCE FoldTheorems WITH Op <- AckPublicationCompletion
V == INSTANCE FoldTheorems WITH Op <- FreeSubscription
P == INSTANCE FoldTheorems WITH Op <- FreePublication

Halted(t, S) == [t EXCEPT !.state = "STOPPING", !.async = S, !.timer = NULL, !.mcast = FALSE, !.remotes = {}, !.ackQueue = <<>>]
LEMMA HaltedIs ==
    ASSUME NEW t, NEW l, NEW a, Inv(t, l, a), NEW S \in SUBSET Tasks
    PROVE  Inv(Halted(t, S), l, a) /\ Halted(t, S).ack = t.ack
<1> DEFINE q == <<>>
           u == [t EXCEPT !.state = "STOPPING", !.async = S, !.timer = NULL, !.mcast = FALSE, !.remotes = {}, !.ackQueue = q]
<1>1. t \in StateType /\ Good(t, HeldBy(l), UsedBy(l, a)) /\ AcksTied(t)
  BY DEF Inv, Good
<1>2. q \in Seq(Acks) /\ ToSet(q) = {}
  BY DEF ToSet
<1>3. Halted(t, S) = u
  BY DEF Halted
<1> HIDE DEF q
<1>4. u \in StateType
  BY <1>1, <1>2 DEF StateType
<1>5. /\ u.req = t.req /\ u.net = t.net /\ u.fault = t.fault /\ u.pub = t.pub /\ u.ack = t.ack /\ u.ackQueue = q
  BY <1>1 DEF StateType
<1> HIDE DEF u
<1>6. Still(t, u)
  BY <1>5 DEF Still, Queued, Queue
<1>7. AcksTied(u)
  BY <1>1, <1>2, <1>5 DEF AcksTied
<1>8. PubsStay(t, u)
  BY <1>5 DEF PubsStay
<1>9. Inv(u, l, a)
  BY <1>4, <1>5, <1>6, <1>7, <1>8, InvStill
<1> QED BY <1>3, <1>5, <1>9
\* Every acknowledgement that is queued is completed, every subscription and publication freed.
LEMMA AcksFold ==
    ASSUME NEW t, NEW l, NEW a, Inv(t, l, a), NEW q \in Seq({k \in Acks : t.ack[k].st # "unused"}), NEW u, Inv(u, l, a),
           u.ack = t.ack
    PROVE  Inv(K!Fold(u, q), l, a)
<1> DEFINE E == {k \in Acks : t.ack[k].st # "unused"}
           S == {v \in StateType : Inv(v, l, a) /\ \A k \in E : v.ack[k].st # "unused"}
<1>1. u \in S
  BY DEF Inv, Good
<1>2. \A v \in S, k \in E : AckPublicationCompletion(v, k) \in S
  <2> TAKE v \in S, k \in E
  <2> DEFINE w == AckPublicationCompletion(v, k)
  <2>1. Inv(w, l, a) /\ \A x \in Acks : w.ack[x].st = "unused" => v.ack[x].st = "unused"
    BY AckDone
  <2> HIDE DEF w
  <2>2. w \in S
    BY <2>1 DEF Inv, Good
  <2> QED BY <2>2 DEF w
<1> HIDE DEF S
<1>3. K!Fold(u, q) \in S
  <2> HIDE DEF E
  <2>1. q \in Seq(E)
    BY DEF E
  <2> QED BY <1>1, <1>2, <2>1, K!FoldStays
<1> QED BY <1>3 DEF S
LEMMA SubsFold ==
    ASSUME NEW l, NEW a, NEW q \in Seq(Subs), NEW u, Inv(u, l, a)
    PROVE  Inv(V!Fold(u, q), l, a)
<1> DEFINE S == {v \in StateType : Inv(v, l, a)}
<1>1. u \in S
  BY DEF Inv, Good
<1>2. \A v \in S, x \in Subs : FreeSubscription(v, x) \in S
  <2> TAKE v \in S, x \in Subs
  <2>1. FreeSubscription(v, x) \in StateType /\ Plain(v, FreeSubscription(v, x))
    BY FreeSubscriptionIs
  <2> QED BY <2>1, InvPlain
<1> HIDE DEF S
<1>3. V!Fold(u, q) \in S
  BY <1>1, <1>2, V!FoldStays
<1> QED BY <1>3 DEF S
LEMMA PubsFold ==
    ASSUME NEW l, NEW a, NEW q \in Seq(Pubs), NEW u, Inv(u, l, a)
    PROVE  Inv(P!Fold(u, q), l, a)
<1> DEFINE S == {v \in StateType : Inv(v, l, a)}
<1>1. u \in S
  BY DEF Inv, Good
<1>2. \A v \in S, p \in Pubs : FreePublication(v, p) \in S
  <2> TAKE v \in S, p \in Pubs
  <2>1. Inv(v, l, a) /\ Good(v, HeldBy(l), UsedBy(l, a))
    BY DEF Inv
  <2>2. Fine(v, FreePublication(v, p), HeldBy(l), UsedBy(l, a))
    BY <2>1, FreePublicationGood
  <2> QED BY <2>1, <2>2, InvFine DEF Fine, Good
<1> HIDE DEF S
<1>3. P!Fold(u, q) \in S
  BY <1>1, <1>2, P!FoldStays
<1> QED BY <1>3 DEF S
LEMMA StopNodeStep == ASSUME Inv(s, loop, app), StopNode PROVE Inv(s', loop', app')
<1> DEFINE S == s.async \cap {"free"}
           t == Halted(s, S)
           u == K!Fold(t, s.ackQueue)
           v == V!Fold(u, u.subscriptions)
<1>1. loop' = loop /\ app' = app /\ s' = P!Fold(v, u.publications)
  BY Zenon DEF StopNode, Halted, FoldLeft, MapThenFoldSet, Max, K!Fold, K!Stepped, K!Steps, K!Top,
               V!Fold, V!Stepped, V!Steps, V!Top, P!Fold, P!Stepped, P!Steps, P!Top
<1>2. s \in StateType /\ S \in SUBSET Tasks
  BY Parts DEF Inv, Good
<1> HIDE DEF S
<1>3. Inv(t, loop, app) /\ t.ack = s.ack
  BY <1>2, HaltedIs
<1>4. s.ackQueue \in Seq({k \in Acks : s.ack[k].st # "unused"})
  <2>1. s.ackQueue \in Seq(Acks) /\ \A i \in DOMAIN s.ackQueue : s.ack[s.ackQueue[i]].st # "unused"
    BY QueuedAcks
  <2> DEFINE q == s.ackQueue
             E == {k \in Acks : s.ack[k].st # "unused"}
  <2>2. \A i \in 1 .. Len(q) : q[i] \in E
    BY <2>1
  <2> HIDE DEF E
  <2>3. q \in Seq(E)
    BY <2>1, <2>2
  <2> QED BY <2>3 DEF E
<1> HIDE DEF t
<1>5. Inv(u, loop, app)
  BY <1>3, <1>4, AcksFold
<1> HIDE DEF u
<1>6. u.subscriptions \in Seq(Subs) /\ u.publications \in Seq(Pubs)
  BY <1>5, Parts DEF Inv, Good
<1>7. Inv(v, loop, app)
  BY <1>5, <1>6, SubsFold
<1> HIDE DEF v
<1>8. Inv(P!Fold(v, u.publications), loop, app)
  BY <1>6, <1>7, PubsFold
<1> QED BY <1>1, <1>8

--------------------------------------------------------------------------------
(* The specification. *)

\* What an execution begins with.
Started(c) ==
    [scenario |-> c, publications |-> <<>>, freePubs |-> <<>>, subscriptions |-> <<>>, freeSubs |-> <<>>,
     ackQueue |-> <<>>,
     pub |-> [p \in Pubs |-> NewPub], req |-> [r \in Reqs |-> NewReq],
     ack |-> [a \in Acks |-> NewAck], sub |-> [x \in Subs |-> NewSub],
     async |-> {}, timer |-> NULL, remotes |-> c.remotes, mcast |-> c.mcastPub,
     history |-> [i \in PubIds |-> [sn |-> 0, ackReq |-> FALSE, from |-> [a \in Sources |-> 0]]],
     net |-> EmptyBag, acks |-> c.acks, rxRefs |-> 0,
     state |-> "RUNNING", owned |-> {}, budget |-> c.sends, fault |-> {}]

LEMMA NewObjects == NewPub \in PubType /\ NewReq \in ReqType /\ NewAck \in AckType /\ NewSub \in SubType
<1>1. NewPub \in PubType
  <2> DEFINE e == <<>>
  <2>1. e \in Seq(Reqs)
    OBVIOUS
  <2>2. NewPub = [st |-> "unused", id |-> NULL, flags |-> {}, refs |-> 0, seq |-> 0, ttl |-> 0,
                  ackReq |-> FALSE, from |-> NULL, sendQ |-> e, retQ |-> e]
    BY DEF NewPub
  <2> HIDE DEF e
  <2> QED BY <2>1, <2>2 DEF PubType
<1>2. NewReq \in ReqType
  BY DEF NewReq, ReqType, Bodies
<1>3. NewAck \in AckType
  BY DEF NewAck, AckType
<1>4. NewSub \in SubType
  BY DEF NewSub, SubType
<1> QED BY <1>1, <1>2, <1>3, <1>4
LEMMA StartedType == ASSUME NEW c \in Scenarios PROVE Started(c) \in StateType
<1> DEFINE e == <<>>
           P0 == [p \in Pubs |-> NewPub]
           R0 == [r \in Reqs |-> NewReq]
           A0 == [a \in Acks |-> NewAck]
           S0 == [x \in Subs |-> NewSub]
           o == [sn |-> 0, ackReq |-> FALSE, from |-> [a \in Sources |-> 0]]
           H0 == [i \in PubIds |-> o]
           b == EmptyBag
           Nets == {x \in UNION {[D -> Nat \ {0}] : D \in SUBSET Message} : IsNet(x)}
           rs == c.remotes
           mc == c.mcastPub
           ac == c.acks
           bu == c.sends
<1>1. P0 \in [Pubs -> PubType] /\ R0 \in [Reqs -> ReqType] /\ A0 \in [Acks -> AckType] /\ S0 \in [Subs -> SubType]
  BY NewObjects
<1>2. H0 \in HistoryType
  <2>1. o \in [sn : Int, ackReq : BOOLEAN, from : [Sources -> Int]]
    <3> DEFINE z == [a \in Sources |-> 0]
    <3>1. z \in [Sources -> Int]
      OBVIOUS
    <3> HIDE DEF z
    <3> QED BY <3>1
  <2> HIDE DEF o
  <2> QED BY <2>1 DEF HistoryType
<1>3. b \in Nets
  BY EmptyNet, NetIs
<1>4. rs \in SUBSET Remotes /\ mc \in BOOLEAN /\ ac \in SUBSET AckMsg /\ bu \in Int
  BY ScenarioAssumption DEF AckMsg
<1>5. e \in Seq(Pubs) /\ e \in Seq(Subs) /\ e \in Seq(Acks)
  OBVIOUS
<1>6. Started(c) = [scenario |-> c, publications |-> e, freePubs |-> e, subscriptions |-> e, freeSubs |-> e,
                    ackQueue |-> e, pub |-> P0, req |-> R0, ack |-> A0, sub |-> S0,
                    async |-> {}, timer |-> NULL, remotes |-> rs, mcast |-> mc, history |-> H0,
                    net |-> b, acks |-> ac, rxRefs |-> 0,
                    state |-> "RUNNING", owned |-> {}, budget |-> bu, fault |-> {}]
  BY DEF Started
<1> HIDE DEF e, P0, R0, A0, S0, H0, b, Nets, rs, mc, ac, bu
<1>7. [scenario |-> c, publications |-> e, freePubs |-> e, subscriptions |-> e, freeSubs |-> e,
       ackQueue |-> e, pub |-> P0, req |-> R0, ack |-> A0, sub |-> S0,
       async |-> {}, timer |-> NULL, remotes |-> rs, mcast |-> mc, history |-> H0,
       net |-> b, acks |-> ac, rxRefs |-> 0,
       state |-> "RUNNING", owned |-> {}, budget |-> bu, fault |-> {}]
      \in [scenario : Scenarios, publications : Seq(Pubs), freePubs : Seq(Pubs), subscriptions : Seq(Subs),
     freeSubs : Seq(Subs), ackQueue : Seq(Acks), pub : [Pubs -> PubType], req : [Reqs -> ReqType],
     ack : [Acks -> AckType], sub : [Subs -> SubType], async : SUBSET Tasks, timer : Int \cup {NULL},
     remotes : SUBSET Remotes, mcast : BOOLEAN, history : HistoryType,
     net : Nets, acks : SUBSET AckMsg, rxRefs : Int,
     state : {"RUNNING", "STOPPING", "STOPPED"}, owned : SUBSET Pubs, budget : Int, fault : SUBSET Faults]
  BY <1>1, <1>2, <1>3, <1>4, <1>5
<1> QED BY <1>6, <1>7 DEF StateType, Nets
LEMMA StartedInv == ASSUME NEW c \in Scenarios PROVE Inv(Started(c), <<>>, NULL)
<1> DEFINE t == Started(c)
           h == HeldBy(<<>>)
           n == UsedBy(<<>>, NULL)
<1>1. t \in StateType
  BY StartedType
<1>2. /\ \A r \in Reqs : t.req[r] = NewReq
      /\ \A a \in Acks : t.ack[a].st = "unused"
      /\ \A p \in Pubs : t.pub[p].sendQ = <<>> /\ t.pub[p].retQ = <<>>
      /\ t.net = EmptyBag /\ t.ackQueue = <<>> /\ t.fault = {}
  BY DEF Started, NewAck, NewPub
<1> HIDE DEF t
<1>3. \A r \in Reqs : h[r] = 0 /\ n[r] = 0
  BY HeldNone, UsedNone, NotReq DEF Mine
<1>4. \A r \in Reqs : Flying(t, r) = 0
  BY <1>2, EmptyNet, WeighNone DEF Flying
<1>5. \A r \in Reqs, p \in Pubs : Queued(t, r, p) = 0
  <2> TAKE r \in Reqs, p \in Pubs
  <2>1. Queue(t, p) = <<>>
    BY <1>2 DEF Queue
  <2> QED BY <2>1, OccursNone DEF Queued
<1>6. \A r \in Reqs : ReqOK(t, h, n, r)
  <2>1. NewReq.st = "unused" /\ NewReq.refs = 0 /\ NewReq.calls = 0 /\ NewReq.cb = FALSE
    BY DEF NewReq
  <2> HIDE DEF h, n
  <2>2. ASSUME NEW r \in Reqs PROVE ReqOK(t, h, n, r)
    <3>1. t.req[r] = NewReq /\ h[r] = 0 /\ n[r] = 0 /\ Flying(t, r) = 0 /\ \A p \in Pubs : Queued(t, r, p) = 0
      BY <1>2, <1>3, <1>4, <1>5
    <3> QED BY <2>1, <3>1 DEF ReqOK
  <2> QED BY <2>2
<1>7. Good(t, h, n)
  BY <1>1, <1>2, <1>6, CountsBy DEF Good
<1>8. AcksTied(t)
  <2>1. ToSet(t.ackQueue) = {}
    BY <1>2 DEF ToSet
  <2> QED BY <1>2, <2>1, EmptyNet DEF AcksTied
<1>9. ReqsTied(t)
  BY <1>2 DEF ReqsTied, NewReq
<1>10. Shape(<<>>) /\ Framed(t, <<>>) /\ AppOK(t, NULL)
  BY FramedTuples DEF Shape, AppOK
<1> QED BY <1>7, <1>8, <1>9, <1>10 DEF Inv, t

\* The invariant of every execution.
Inductive == Inv(s, loop, app) /\ now \in Nat
LEMMA InitInductive == Init => Inductive
<1> SUFFICES ASSUME Init PROVE Inductive
  OBVIOUS
<1>1. PICK c \in Scenarios : s = Started(c) /\ loop = <<>> /\ app = NULL /\ now = 1
  BY Zenon DEF Init, Started
<1> QED BY <1>1, StartedInv DEF Inductive

\* Time is a number, and only Tick changes it.
LEMMA NowStays ==
    ASSUME Running \/ SendPubs \/ SendAcks \/ FreeTask \/ NetSends \/ Stopped \/ Receives \/ Sealed \/ Application \/ Waits
    PROVE  now' = now
<1>1. WalkHandlers => now' = now
  BY Zenon DEF WalkHandlers
<1>2. Decrypted => now' = now
  BY Zenon DEF Decrypted
<1>3. HandlerReturns => now' = now
  BY Zenon DEF HandlerReturns
<1>4. DecodeReturns => now' = now
  BY Zenon DEF DecodeReturns
<1>5. SendNext => now' = now
  BY Zenon DEF SendNext
<1>6. SendRequest \/ SendToCopy => now' = now
  BY Zenon DEF SendRequest, SendToCopy
<1>7. SendRemotes => now' = now
  BY Zenon DEF SendRemotes
<1>8. SendDone => now' = now
  BY Zenon DEF SendDone
<1>9. SendExpired => now' = now
  BY Zenon DEF SendExpired
<1>10. AckHandlerReturns => now' = now
  BY Zenon DEF AckHandlerReturns
<1>11. SendAcknowledgement => now' = now
  BY Zenon DEF SendAcknowledgement
<1>12. AckLoopedBack => now' = now
  BY Zenon DEF AckLoopedBack
<1>13. SendAcksDone => now' = now
  BY Zenon DEF SendAcksDone
<1>14. Running => now' = now
  BY Zenon, <1>1, <1>2, <1>3, <1>4, <1>5, <1>6, <1>7, <1>8, <1>9, <1>10, <1>11, <1>12, <1>13 DEF Running
<1>15. SendPubs \/ SendAcks \/ FreeTask \/ NetSends \/ Stopped => now' = now
  BY Zenon DEF SendPubs, SendAcks, FreeTask, NetSends, NetSendComplete, Stopped
<1>16. Receives => now' = now
  BY Zenon DEF Receives, ReceivePublication, ReceiveAck, UpdatePubs
<1>17. Sealed \/ Waits => now' = now
  BY Zenon DEF Sealed, Waits, vars
<1>18. CreatePublication \/ StopNode => now' = now
  BY Zenon DEF CreatePublication, StopNode, Called
<1>19. (\E p \in Locals, ackReq \in BOOLEAN : InitPublication(p, ackReq)) => now' = now
  BY Zenon DEF InitPublication, Called
<1>20. (\E p \in Locals, on \in BOOLEAN : SetMulticast(p, on)) => now' = now
  BY Zenon DEF SetMulticast, Called
<1>21. (\E p \in Locals, ttl \in s.scenario.ttls : PublishBufs(p, ttl) \/ PublishSealed(p, ttl)) => now' = now
  BY Zenon DEF PublishBufs, PublishSealed, Called
<1>22. (\E p \in Pubs : DestroyPublication(p) \/ CopyPublication(p) \/ AckPublication(p)) => now' = now
  BY Zenon DEF DestroyPublication, CopyPublication, AckPublication, Called
<1>23. (\E x \in s.scenario.subs : Subscribe(x) \/ DestroySubscription(x)) => now' = now
  BY Zenon DEF Subscribe, DestroySubscription, Called
<1>24. Application => now' = now
  BY Zenon, <1>18, <1>19, <1>20, <1>21, <1>22, <1>23 DEF Application
<1> QED BY Zenon, <1>14, <1>15, <1>16, <1>17, <1>24
\* The loop's thread.
LEMMA LoopWorkStep == ASSUME Inv(s, loop, app), now \in Nat, LoopWork PROVE Inv(s', loop', app')
<1>1. CASE Running
  <2>1. CASE WalkHandlers
    BY <2>1, WalkHandlersStep
  <2>2. CASE Decrypted
    BY <2>2, DecryptedStep
  <2>3. CASE HandlerReturns
    BY <2>3, HandlerReturnsStep
  <2>4. CASE DecodeReturns
    BY <2>4, DecodeReturnsStep
  <2>5. CASE SendNext
    BY <2>5, SendNextStep
  <2>6. CASE SendRequest
    BY <2>6, SendRequestStep
  <2>7. CASE SendRemotes
    BY <2>7, SendRemotesStep
  <2>8. CASE SendDone
    BY <2>8, SendDoneStep
  <2>9. CASE SendExpired
    BY <2>9, SendExpiredStep
  <2>10. CASE AckHandlerReturns
    BY <2>10, AckHandlerReturnsStep
  <2>11. CASE SendAcknowledgement
    BY <2>11, SendAcknowledgementStep
  <2>12. CASE AckLoopedBack
    BY <2>12, AckLoopedBackStep
  <2>13. CASE SendAcksDone
    BY <2>13, SendAcksDoneStep
  <2>14. CASE SendToCopy
    BY <2>14, SendToCopyStep
  <2> QED BY Zenon, <1>1, <2>1, <2>2, <2>3, <2>4, <2>5, <2>6, <2>7, <2>8, <2>9, <2>10, <2>11, <2>12, <2>13, <2>14 DEF Running
<1>2. CASE SendPubs
  BY <1>2, SendPubsStep
<1>3. CASE SendAcks
  BY <1>3, SendAcksStep
<1>4. CASE FreeTask
  BY <1>4, FreeTaskStep
<1>5. CASE NetSends
  BY <1>5, NetSendCompleteStep DEF NetSends
<1>6. CASE Stopped
  BY <1>6, StoppedStep
<1> QED BY Zenon, <1>1, <1>2, <1>3, <1>4, <1>5, <1>6 DEF LoopWork
\* What arrives.
LEMMA ReceivesStep == ASSUME Inv(s, loop, app), Receives PROVE Inv(s', loop', app')
<1>1. CASE \E m \in s.scenario.messages : ReceivePublication(m)
  BY <1>1, ReceivePublicationStep
<1>2. CASE \E m \in s.acks : ReceiveAck(m)
  BY <1>2, ReceiveAckStep
<1>3. CASE UpdatePubs
  BY <1>3, UpdatePubsStep
<1> QED BY Zenon, <1>1, <1>2, <1>3 DEF Receives
\* The application's thread, and the handlers'.
LEMMA ApplicationStep == ASSUME Inv(s, loop, app), Application PROVE Inv(s', loop', app')
<1>1. s.scenario \in Scenarios
  BY Parts DEF Inv, Good
<1>2. s.scenario.ttls \subseteq Int /\ s.scenario.subs \subseteq Subs
  BY <1>1, ScenarioAssumption
<1>3. CASE CreatePublication
  BY <1>3, CreatePublicationStep
<1>4. CASE \E p \in Locals, ackReq \in BOOLEAN : InitPublication(p, ackReq)
  BY <1>4, InitPublicationStep
<1>5. CASE \E p \in Locals, on \in BOOLEAN : SetMulticast(p, on)
  BY <1>5, SetMulticastStep
<1>6. CASE \E p \in Locals, ttl \in s.scenario.ttls : PublishBufs(p, ttl) \/ PublishSealed(p, ttl)
  <2>1. PICK p \in Locals, ttl \in s.scenario.ttls : PublishBufs(p, ttl) \/ PublishSealed(p, ttl)
    BY <1>6
  <2>2. ttl \in Int
    BY <1>2
  <2> QED BY <2>1, <2>2, PublishBufsStep, PublishSealedStep
<1>7. CASE \E p \in Pubs : DestroyPublication(p) \/ CopyPublication(p) \/ AckPublication(p)
  BY <1>7, DestroyPublicationStep, CopyPublicationStep, AckPublicationStep
<1>8. CASE \E x \in s.scenario.subs : Subscribe(x) \/ DestroySubscription(x)
  BY <1>2, <1>8, SubscribeStep, DestroySubscriptionStep
<1>9. CASE StopNode
  BY <1>9, StopNodeStep
<1> QED BY Zenon, <1>3, <1>4, <1>5, <1>6, <1>7, <1>8, <1>9 DEF Application
LEMMA NextInductive == Inductive /\ [Next]_vars => Inductive'
<1> SUFFICES ASSUME Inductive, [Next]_vars PROVE Inv(s', loop', app') /\ now' \in Nat
  BY DEF Inductive
<1>1. Inv(s, loop, app) /\ now \in Nat
  BY DEF Inductive
<1>2. CASE LoopWork
  <2>1. now' = now
    BY <1>2, NowStays DEF LoopWork
  <2> QED BY <1>1, <1>2, <2>1, LoopWorkStep
<1>3. CASE Receives
  BY <1>1, <1>3, NowStays, ReceivesStep
<1>4. CASE Tick
  <2>1. now' = now + 1
    BY <1>4 DEF Tick
  <2> QED BY <1>1, <1>4, <2>1, TickStep
<1>5. CASE Sealed
  BY <1>1, <1>5, NowStays, SealedStep
<1>6. CASE Application
  BY <1>1, <1>6, NowStays, ApplicationStep
<1>7. CASE Waits
  BY <1>1, <1>7, NowStays, WaitsStep
<1>8. CASE UNCHANGED vars
  BY <1>1, <1>8 DEF vars
<1> QED BY Zenon, <1>2, <1>3, <1>4, <1>5, <1>6, <1>7, <1>8 DEF Next

\* Every execution keeps it.
THEOREM PublicationsInductive == Spec => []Inductive
<1>1. Init => Inductive
  BY InitInductive
<1>2. Inductive /\ [Next]_vars => Inductive'
  BY NextInductive
<1> QED BY <1>1, <1>2, PTL DEF Spec

\* DPS_PublishBufsComplete is called once.
THEOREM PublishOnceHolds == Spec => []PublishOnce
<1>1. Inductive => PublishOnce
  BY DEF Inductive, Inv, Good, ReqOK, PublishOnce
<1> QED BY <1>1, PublicationsInductive, PTL

--------------------------------------------------------------------------------
(* What the invariant says of the runs' properties. *)

LEMMA PostedIs ==
    ASSUME s \in StateType, NEW r \in Reqs
    PROVE  Posted(LAMBDA m : m.kind = "pub" /\ m.of = r) = Flying(s, r)
<1> DEFINE A == {c \in UNION {{m} \X (1 .. s.net[m]) : m \in BagToSet(s.net)} : c[1].kind = "pub" /\ c[1].of = r}
           B == {c \in CopiesOf(s.net) : c[1] \in OfReq(r)}
<1>1. \A c \in CopiesOf(s.net) : c[1] \in Message
  <2>1. DOMAIN s.net \in SUBSET Message
    BY Parts DEF IsNet
  <2> QED BY <2>1, CopyIs
<1>2. A = B
  BY <1>1 DEF CopiesOf, OfReq
<1>3. Posted(LAMBDA m : m.kind = "pub" /\ m.of = r) = Cardinality(A)
  BY DEF Posted
<1>4. Flying(s, r) = Cardinality(B)
  BY DEF Flying, Weigh
<1> QED BY <1>2, <1>3, <1>4

\* SendPubs is at the bottom of the loop's stack.
LEMMA PubsBelow ==
    ASSUME NEW l, Shape(l), NEW i \in DOMAIN l, l[i].k = "pubs" PROVE i = 1
<1>1. CASE l = <<>>
  BY <1>1
<1>2. CASE \E f : Single(f) /\ l = <<f>>
  BY <1>2
<1>3. CASE \E f, g : Double(f, g) /\ l = <<f, g>>
  BY <1>3 DEF Double, IsDecode, IsHandlers, IsAck
<1>4. CASE \E f, g, e : Triple(f, g, e) /\ l = <<f, g, e>>
  BY <1>4 DEF Triple, IsDecode, IsHandlers
<1> QED BY <1>1, <1>2, <1>3, <1>4 DEF Shape
LEMMA ShapeLength == ASSUME NEW l, Shape(l) PROVE \E k \in Nat : DOMAIN l = 1 .. k
<1>1. CASE l = <<>>
  <2>1. DOMAIN l = 1 .. 0
    BY <1>1
  <2> QED BY <2>1
<1>2. CASE \E f : l = <<f>>
  <2>1. DOMAIN l = 1 .. 1
    BY <1>2
  <2> QED BY <2>1
<1>3. CASE \E f, g : l = <<f, g>>
  <2>1. DOMAIN l = 1 .. 2
    BY <1>3
  <2> QED BY <2>1
<1>4. CASE \E f, g, e : l = <<f, g, e>>
  <2>1. DOMAIN l = 1 .. 3
    BY <1>4
  <2> QED BY <2>1
<1> QED BY <1>1, <1>2, <1>3, <1>4 DEF Shape
LEMMA ShapeSequence == ASSUME NEW l, Shape(l) PROVE l = <<>> \/ 1 \in DOMAIN l
BY DEF Shape
LEMMA FramesAre ==
    ASSUME Shape(loop), NEW r \in Reqs
    PROVE  Frames(LAMBDA f : f.k = "pubs" /\ f.expired = r)
           + Frames(LAMBDA f : f.k = "pubs" /\ f.at = "looping_back" /\ f.req = r) = HeldBy(loop)[r]
<1> DEFINE A == {i \in DOMAIN loop : loop[i].k = "pubs" /\ loop[i].expired = r}
           B == {i \in DOMAIN loop : loop[i].k = "pubs" /\ loop[i].at = "looping_back" /\ loop[i].req = r}
<1>1. /\ Frames(LAMBDA f : f.k = "pubs" /\ f.expired = r) = Cardinality(A)
      /\ Frames(LAMBDA f : f.k = "pubs" /\ f.at = "looping_back" /\ f.req = r) = Cardinality(B)
  BY DEF Frames
<1>2. Cardinality({}) = 0 /\ Cardinality({1}) = 1
  BY FS_EmptySet, FS_Singleton
<1>3. CASE loop = <<>>
  <2>1. A = {} /\ B = {}
    BY <1>3
  <2>2. HeldBy(loop)[r] = 0
    BY <1>3 DEF HeldBy
  <2> QED BY <1>1, <1>2, <2>1, <2>2
<1>4. CASE loop # <<>>
  <2> DEFINE f == loop[1]
  <2>1. 1 \in DOMAIN loop
    BY <1>4, ShapeSequence
  <2>2. \A i \in DOMAIN loop : loop[i].k = "pubs" => i = 1
    BY PubsBelow
  <2>3. A = IF f.k = "pubs" /\ f.expired = r THEN {1} ELSE {}
    BY <2>1, <2>2
  <2>4. B = IF f.k = "pubs" /\ f.at = "looping_back" /\ f.req = r THEN {1} ELSE {}
    BY <2>1, <2>2
  <2>5. HeldBy(loop)[r] = Holds(f, r)
    BY <1>4 DEF HeldBy
  <2>6. Cardinality(A) + Cardinality(B) = Holds(f, r)
    BY <1>2, <2>3, <2>4, Zenon DEF Holds
  <2> QED BY <1>1, <2>5, <2>6
<1> QED BY <1>3, <1>4

LEMMA QueueHas ==
    ASSUME NEW t \in StateType, NEW p \in Pubs, NEW r \in ToSet(Queue(t, p)) PROVE r \in Reqs /\ Queued(t, r, p) # 0
<1>1. Queue(t, p) \in Seq(Reqs)
  BY QueueType
<1>2. \E i \in 1 .. Len(Queue(t, p)) : Queue(t, p)[i] = r
  BY <1>1 DEF ToSet
<1> QED BY <1>1, <1>2, OccursSome DEF Queued
LEMMA RefsAreHeld == Inductive => RequestRefs /\ RequestsLive
<1> SUFFICES ASSUME Inductive PROVE RequestRefs /\ RequestsLive
  OBVIOUS
<1>1. /\ Good(s, HeldBy(loop), UsedBy(loop, app)) /\ Shape(loop) /\ AppOK(s, app) /\ s \in StateType
      /\ \A r \in Reqs : ReqOK(s, HeldBy(loop), UsedBy(loop, app), r)
  BY DEF Inductive, Inv, Good
<1>2. RequestRefs
  <2> SUFFICES ASSUME NEW r \in Reqs, s.req[r].st = "live"
               PROVE  s.req[r].refs = Occurs(r, s.pub[s.req[r].pub].sendQ \o s.pub[s.req[r].pub].retQ)
                         + Posted(LAMBDA m : m.kind = "pub" /\ m.of = r)
                         + Frames(LAMBDA f : f.k = "pubs" /\ f.expired = r)
                         + Frames(LAMBDA f : f.k = "pubs" /\ f.at = "looping_back" /\ f.req = r)
    BY DEF RequestRefs
  <2> DEFINE p == s.req[r].pub
             a == Queued(s, r, p)
             b == Posted(LAMBDA m : m.kind = "pub" /\ m.of = r)
             c == Frames(LAMBDA f : f.k = "pubs" /\ f.expired = r)
             d == Frames(LAMBDA f : f.k = "pubs" /\ f.at = "looping_back" /\ f.req = r)
  <2>1. s.req[r].refs = a + Flying(s, r) + HeldBy(loop)[r] /\ p \in Pubs
    BY <1>1 DEF ReqOK
  <2>2. b = Flying(s, r)
    BY <1>1, PostedIs
  <2>3. c + d = HeldBy(loop)[r]
    BY <1>1, FramesAre
  <2>4. a \in Nat /\ b \in Nat
    <3>1. Flying(s, r) \in Nat
      BY <1>1, Parts, WeighType DEF Flying
    <3>2. a \in Nat
      BY <1>1, <2>1, QueueType DEF Queued
    <3> QED BY <2>2, <3>1, <3>2
  <2>5. c \in Nat /\ d \in Nat
    <3>1. IsFiniteSet(DOMAIN loop)
      <4>1. \E k \in Nat : DOMAIN loop = 1 .. k
        BY <1>1, ShapeLength
      <4> QED BY <4>1, FS_Interval
    <3> DEFINE A == {i \in DOMAIN loop : loop[i].k = "pubs" /\ loop[i].expired = r}
               B == {i \in DOMAIN loop : loop[i].k = "pubs" /\ loop[i].at = "looping_back" /\ loop[i].req = r}
    <3>2. IsFiniteSet(A) /\ IsFiniteSet(B)
      BY <3>1, FS_Subset
    <3>3. c = Cardinality(A) /\ d = Cardinality(B)
      BY DEF Frames
    <3> QED BY <3>2, <3>3, FS_CardinalityType
  <2>6. a = Occurs(r, s.pub[p].sendQ \o s.pub[p].retQ)
    BY DEF Queued, Queue
  <2> HIDE DEF a, b, c, d
  <2>7. s.req[r].refs = a + b + c + d
    BY <2>1, <2>2, <2>3, <2>4, <2>5
  <2> QED BY <2>6, <2>7 DEF a, b, c, d
<1>3. ASSUME NEW p \in Pubs, NEW r \in ToSet(s.pub[p].sendQ \o s.pub[p].retQ)
      PROVE  s.req[r].st = "live" /\ s.req[r].pub = p
  <2>1. r \in Reqs /\ Queued(s, r, p) # 0
    BY <1>1, QueueHas DEF Queue
  <2>2. s.req[r].st # "unused" /\ s.req[r].pub = p
    BY <1>1, <2>1 DEF ReqOK
  <2>3. s.req[r].refs = Queued(s, r, p) + Flying(s, r) + HeldBy(loop)[r]
    BY <1>1, <2>1, <2>2 DEF ReqOK
  <2>4. Queued(s, r, p) \in Nat /\ Flying(s, r) \in Nat /\ HeldBy(loop)[r] \in Nat
    BY <1>1, <2>1, QueueType, Parts, WeighType, CountsBy, CountsAre DEF Flying, Queued
  <2>5. s.req[r].refs > 0
    BY <2>1, <2>3, <2>4
  <2> QED BY <1>1, <2>1, <2>2, <2>5 DEF ReqOK
<1>4. ASSUME NEW m \in BagToSet(s.net), m.kind = "pub" PROVE s.req[m.of].st = "live"
  <2>1. IsNet(s.net) /\ m \in DOMAIN s.net
    BY <1>1, Parts DEF BagToSet
  <2>2. m \in Message
    BY <2>1 DEF IsNet
  <2> DEFINE r == m.of
  <2>3. r \in Reqs /\ m \in OfReq(r)
    BY <1>4, <2>2 DEF Message, OfReq
  <2>4. Flying(s, r) > 0 /\ Flying(s, r) \in Nat
    BY <2>1, <2>3, WeighSome, WeighType DEF Flying
  <2>5. s.req[r].st # "unused"
    BY <1>1, <2>3, <2>4 DEF ReqOK
  <2>6. s.req[r].refs = Queued(s, r, s.req[r].pub) + Flying(s, r) + HeldBy(loop)[r] /\ s.req[r].pub \in Pubs
    BY <1>1, <2>3, <2>5 DEF ReqOK
  <2>7. Queued(s, r, s.req[r].pub) \in Nat /\ HeldBy(loop)[r] \in Nat
    BY <1>1, <2>3, <2>6, QueueType, CountsBy, CountsAre DEF Queued
  <2>8. s.req[r].refs > 0
    BY <2>4, <2>6, <2>7
  <2> QED BY <1>1, <2>3, <2>8 DEF ReqOK
<1>5. app # NULL => s.req[app].st = "live"
  <2> SUFFICES ASSUME app # NULL PROVE s.req[app].st = "live"
    OBVIOUS
  <2>1. app \in Reqs
    BY <1>1 DEF AppOK
  <2> DEFINE x == IF loop # <<>> THEN Uses(loop[1], app) ELSE 0
             y == IF Len(loop) > 1 THEN Uses(loop[2], app) ELSE 0
  <2>2. UsedBy(loop, app)[app] = x + y + 1
    BY <2>1 DEF UsedBy, Mine
  <2>3. x \in Nat /\ y \in Nat
    BY UsesType
  <2> HIDE DEF x, y
  <2>4. UsedBy(loop, app)[app] > 0
    BY <2>2, <2>3
  <2> QED BY <1>1, <2>1, <2>4 DEF ReqOK
<1>6. "request_refCount" \notin s.fault
  BY <1>1 DEF Good
<1> QED BY <1>2, <1>3, <1>4, <1>5, <1>6 DEF RequestsLive

\* A request's reference count is the number of its holders: its queue, its sends and the
\* two places DPS_SendPubs keeps one in; and none of them, nor DPS_PublishBufs, is left with a
\* request that DPS_PublishCompletion freed.
THEOREM RequestsAreHeld == Spec => [](RequestRefs /\ RequestsLive)
<1>1. Inductive => RequestRefs /\ RequestsLive
  BY RefsAreHeld
<1> QED BY <1>1, PublicationsInductive, PTL

================================================================================
