----------------------------- MODULE Dispatcher -----------------------------
(***************************************************************************)
(* A dispatcher (src/src/dispatcher.c): the application's thread hands     *)
(* data to it, and after a delay the node's event loop calls its function. *)
(* DPS_ScheduleCall makes one for a single call, which frees it.           *)
(***************************************************************************)
EXTENDS Integers, Sequences

CONSTANTS MaxDispatches \* bound: calls of DPS_Dispatch; the data of the n-th is n

VARIABLES dispatcher    \* DPS_Dispatcher, how its calls ended and what it called

vars == <<dispatcher>>

Init == \E once \in BOOLEAN :
    dispatcher = [once |-> once, st |-> "created", busy |-> FALSE, arg |-> 0, async |-> FALSE,
                  timer |-> "idle", count |-> 0, accepted |-> {}, called |-> <<>>]

Open == dispatcher.st \in {"created", "open"}

\* DPS_Dispatch, from DPS_ScheduleCall when the dispatcher is made for one call
Dispatch ==
    /\ Open /\ dispatcher.count < MaxDispatches
    /\ dispatcher.once => dispatcher.count = 0
    /\ LET n == dispatcher.count + 1
       IN  dispatcher' = IF dispatcher.busy THEN [dispatcher EXCEPT !.count = n]
                         ELSE [dispatcher EXCEPT !.count = n, !.busy = TRUE, !.arg = n, !.async = TRUE,
                                                 !.st = "open", !.accepted = @ \cup {n}]

\* DispatchTask, when the loop serves the async; a timer that is closing does not start.
DispatchTask ==
    /\ dispatcher.async /\ dispatcher.st # "freed"
    /\ dispatcher' = IF dispatcher.timer \in {"idle", "armed"}
                     THEN [dispatcher EXCEPT !.async = FALSE, !.timer = "armed", !.busy = FALSE]
                     ELSE [dispatcher EXCEPT !.async = FALSE]

\* DPS_DestroyDispatcher, once it is not busy: it waits for that with the lock released.
Close(d) == [d EXCEPT !.st = "closing", !.timer = "closing"]
Destroy == Open /\ ~dispatcher.once /\ ~dispatcher.busy /\ dispatcher' = Close(dispatcher)

\* DispatchTimeout, which calls the function with the data that is there now; CallFunc
\* destroys the dispatcher.
DispatchTimeout ==
    /\ dispatcher.timer = "armed"
    /\ LET d == [dispatcher EXCEPT !.timer = "idle", !.busy = FALSE, !.called = Append(@, dispatcher.arg)]
       IN  dispatcher' = IF dispatcher.once THEN Close(d) ELSE d

\* TimerClosed, then AsyncClosed
TimerClosed == dispatcher.timer = "closing" /\ dispatcher' = [dispatcher EXCEPT !.timer = "closed"]
AsyncClosed == dispatcher.timer = "closed" /\ dispatcher.st = "closing"
               /\ dispatcher' = [dispatcher EXCEPT !.st = "freed", !.async = FALSE]

LoopWork == DispatchTask \/ DispatchTimeout \/ TimerClosed \/ AsyncClosed
Next == Dispatch \/ Destroy \/ LoopWork

\* What DPS_ScheduleCall accepted is called once with its data, and the dispatcher freed.
ScheduledCallEnds ==
    dispatcher.once /\ dispatcher.accepted # {} ~> dispatcher.called = <<1>> /\ dispatcher.st = "freed"

\* Nothing is called that was not accepted, and the function is never called again with
\* older data.
CalledInOrder ==
    /\ \A i \in DOMAIN dispatcher.called : dispatcher.called[i] \in dispatcher.accepted
    /\ \A i \in 1 .. Len(dispatcher.called) - 1 : dispatcher.called[i] <= dispatcher.called[i + 1]

\* The function is called at most once for each DPS_Dispatch that was accepted.
DispatchedOnce ==
    \A i, j \in DOMAIN dispatcher.called : i # j => dispatcher.called[i] # dispatcher.called[j]
=============================================================================
