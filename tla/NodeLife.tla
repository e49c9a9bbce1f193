------------------------------ MODULE NodeLife ------------------------------
(***************************************************************************)
(* The life of a node (src/src/dps.c): created and started by the          *)
(* application, its event loop on a thread of its own, stopped and freed   *)
(* by whichever comes last; and the requests that other parts schedule on  *)
(* the loop, which must run whether the node goes on or stops.             *)
(***************************************************************************)
EXTENDS Integers, Sequences, SequencesExt

CONSTANTS Requests,     \* NodeRequests, each scheduled at most once
          NULL

VARIABLES node,         \* DPS_Node: its state, and how often it was freed or called back
          thread,       \* NodeRun: "none", "running", "stopping", "draining" or "ended"
          queue,        \* node->requestQueue
          current,      \* the request whose callback runs, with the lock released
          due,          \* requests that were scheduled and not cancelled
          runs          \* [Requests -> times the callback was called]

vars == <<node, thread, queue, current, due, runs>>

\* DPS_CreateNode
Init ==
    /\ node = [state |-> "CREATED", async |-> FALSE, stop |-> FALSE, onDestroyed |-> FALSE,
               freed |-> 0, called |-> 0, ret |-> NULL]
    /\ thread = "none" /\ queue = <<>> /\ current = NULL
    /\ due = {} /\ runs = [r \in Requests |-> 0]

\* DPS_StartNode: the thread runs, or what was made is torn down by StopNode.
StartNode(ok) ==
    /\ node.state = "CREATED" /\ node.freed = 0 /\ UNCHANGED <<queue, current, due, runs>>
    /\ node' = [node EXCEPT !.state = IF ok THEN "RUNNING" ELSE "STOPPED"]
    /\ thread' = IF ok THEN "running" ELSE "none"

\* DPS_NodeRequestSchedule, by the application or by a request's callback
Schedule(r) ==
    /\ r \notin due /\ due' = due \cup {r} /\ UNCHANGED <<thread, current, runs>>
    /\ node.state = "RUNNING" \/ current # NULL
    /\ queue' = Append(queue, r) /\ node' = [node EXCEPT !.async = TRUE]
\* DPS_NodeRequestCancel
Cancel(r) ==
    /\ node.state = "RUNNING" /\ UNCHANGED <<node, thread, current, runs>>
    /\ due' = due \ {r}
    /\ \E i \in DOMAIN queue : queue[i] = r /\ queue' = RemoveAt(queue, i)

\* RunRequestsTask takes the first request and releases the lock for its callback.
Take ==
    /\ current = NULL /\ queue # <<>>
    /\ \/ thread = "running" /\ node.async
       \/ thread = "stopping"
    /\ current' = Head(queue) /\ queue' = Tail(queue)
    /\ UNCHANGED <<node, thread, due, runs>>
Return ==
    /\ current # NULL /\ current' = NULL
    /\ runs' = [runs EXCEPT ![current] = @ + 1]
    /\ node' = [node EXCEPT !.async = @ /\ (queue # <<>> \/ thread # "running")]
    /\ UNCHANGED <<thread, queue, due>>

\* DPS_DestroyNode: a running node is stopped by its loop, which frees it; one that has
\* not started or has stopped is freed at once.  A second call finds it stopping, and
\* returns DPS_ERR_INVALID without a change.
DestroyNode ==
    /\ node.freed = 0 /\ node.state # "STOPPING" /\ node.ret = NULL
    /\ node' = IF node.state = "RUNNING"
               THEN [node EXCEPT !.state = "STOPPING", !.onDestroyed = TRUE, !.stop = TRUE, !.ret = "OK"]
               ELSE [node EXCEPT !.freed = @ + 1, !.ret = "DESTROYED"]
    /\ UNCHANGED <<thread, queue, current, due, runs>>

\* StopNodeTask ends uv_run, and NodeRun calls StopNode.
StopNodeTask ==
    /\ thread = "running" /\ node.stop /\ current = NULL
    /\ node' = [node EXCEPT !.state = "STOPPED", !.stop = FALSE]
    /\ thread' = "stopping" /\ UNCHANGED <<queue, current, due, runs>>
\* When every request has been called back StopNode runs the loop until it is empty.
Drain ==
    /\ thread = "stopping" /\ queue = <<>> /\ current = NULL
    /\ thread' = "draining" /\ UNCHANGED <<node, queue, current, due, runs>>
\* The rest of NodeRun
NodeEnds ==
    /\ thread = "draining" /\ thread' = "ended" /\ UNCHANGED <<queue, current, due, runs>>
    /\ node' = IF node.onDestroyed THEN [node EXCEPT !.called = @ + 1, !.freed = @ + 1] ELSE node

LoopWork == Take \/ Return \/ StopNodeTask \/ Drain \/ NodeEnds
Next == \/ LoopWork \/ DestroyNode
        \/ (\E ok \in BOOLEAN : StartNode(ok))
        \/ \E r \in Requests : Schedule(r) \/ Cancel(r)

\* The node is freed once and its callback called for a DPS_DestroyNode that returned
\* DPS_OK and no other; when its loop ends every request scheduled has been called back
\* exactly once.
LivesOnce ==
    /\ node.freed <= 1 /\ node.called = (IF thread = "ended" THEN 1 ELSE 0)
    /\ node.ret = "DESTROYED" => node.called = 0
    /\ \A r \in Requests : runs[r] <= 1
    /\ thread = "ended" => \A r \in due : runs[r] = 1

\* A node that is told to stop is freed.
StopsOnceTold == node.stop ~> node.freed = 1
=============================================================================
