---------------------------- MODULE MCPublications ----------------------------
EXTENDS Publications

CONSTANTS r1, r2, i1, x1, x2

Msg(seq, ttl) == [id |-> i1, seq |-> seq, ttl |-> ttl, ackReq |-> TRUE, from |-> r1, body |-> "ok"]
Quiet == [calls |-> {"stop"}, locals |-> {1}, remotes |-> {}, subs |-> {}, messages |-> {}, acks |-> {}, ttls |-> {0},
          time |-> 1, sends |-> 0, mcastPub |-> FALSE]

\* A publication is retained, replaced, cancelled, resent and expires.
Retains == [Quiet EXCEPT !.calls = {"init", "seal", "publish", "destroy", "stop"}, !.remotes = {r1},
                         !.ttls = {-1, 0, 1}, !.time = 2, !.sends = 1]
\* Handlers of this node's own publications, and what they may do.
LoopsBack == [Quiet EXCEPT !.calls = {"init", "publish", "subscribe", "unsubscribe", "destroy", "ack",
                                      "copy", "stop"}, !.subs = {x1},
                           !.acks = {[id |-> 1, seq |-> 1, from |-> r2]}]
\* Publications of another node, with revisions, expiry and handlers.
Hears == [Quiet EXCEPT !.calls = {"subscribe", "unsubscribe", "ack", "copy", "stop", "destroy"},
                       !.remotes = {r1}, !.subs = {x2}, !.messages = {Msg(1, 1), Msg(2, 0)},
                       !.time = 2, !.sends = 1]
\* A node in the middle: publications and acknowledgements are passed on.
Forwards == [Quiet EXCEPT !.remotes = {r1, r2},
                          !.messages = {Msg(1, 1), [Msg(2, -1) EXCEPT !.body = "other_key"]},
                          !.acks = {[id |-> i1, seq |-> 1, from |-> r2]}, !.time = 2, !.sends = 1]
\* A multicast sender with a subscription to what it publishes itself.
Multicasts == [Quiet EXCEPT !.calls = {"init", "multicast", "publish", "subscribe", "stop"},
                            !.subs = {x2}, !.ttls = {1}, !.time = 2, !.sends = 1, !.mcastPub = TRUE]
\* The handler destroys the publication that SendPubs goes to next, or the subscription
\* whose handler is next.
Destroys == [Quiet EXCEPT !.calls = {"init", "publish", "subscribe", "copy", "destroy", "stop"}, !.locals = {1, 2},
                          !.subs = {x1}]
Unsubscribes == [Quiet EXCEPT !.calls = {"init", "publish", "subscribe", "unsubscribe", "stop"}, !.subs = {x1, x2}]

\* Less of it, for liveness.
Completes == {[Retains EXCEPT !.calls = @ \ {"publish"}, !.ttls = {0}, !.time = 1],
              [Retains EXCEPT !.calls = @ \ {"seal", "destroy"}, !.ttls = {0, 1}, !.sends = 0],
              [LoopsBack EXCEPT !.calls = @ \ {"copy"}, !.acks = {}], Forwards}
Everything == {Retains, LoopsBack, Hears, Forwards, Multicasts, Destroys, Unsubscribes}
\* A publication that is signed or encrypted, and a subscription that arrives.
Seals == {[Quiet EXCEPT !.calls = {"init", "seal", "stop"}, !.remotes = {r1}, !.ttls = {1}, !.sends = 1]}
\* Two retained publications.
TwoTtls == {[Quiet EXCEPT !.calls = {"init", "publish", "stop"}, !.ttls = {1, 2}, !.time = 3]}
===============================================================================
