----------------------------- MODULE Synchronous -----------------------------
(***************************************************************************)
(* Operations the application waits for: DPS_LinkTo, DPS_UnlinkFrom and    *)
(* the Syn functions of registration.c (src/src/synchronous.c), on top of  *)
(* DPS_Link (src/src/dps.c) and events (src/src/event.c).  The thread that *)
(* waits owns the event and frees it; the event loop signals it.           *)
(***************************************************************************)
EXTENDS Integers, Sequences

CONSTANTS NULL

VARIABLES call,   \* what the application's thread is doing, and what it returned
          op,     \* the operation the event loop has for it
          event,  \* DPS_Event
          faults

vars == <<call, op, event, faults>>

Statuses == {"OK", "EXISTS", "TIMEOUT", "UNRESOLVED"}
Kinds == {"link", "unlink", "register"}

Init ==
    /\ \E kind \in Kinds : call = [kind |-> kind, at |-> "start", ret |-> NULL, addr |-> FALSE]
    /\ op = [st |-> "none", status |-> NULL]
    /\ event = [st |-> "none", signaled |-> FALSE, status |-> NULL, lock |-> NULL]
    /\ faults = {}

Uses(word) == faults' = IF event.st = "live" THEN faults ELSE faults \cup {word}

\* DPS_Link resolves the address it split; DPS_Unlink and the registration requests are
\* under way when they return.
Started(kind) == IF kind = "link" THEN "resolving" ELSE "pending"

\* DPS_CreateEvent and the call: DPS_Link, DPS_Unlink, or DPS_Registration_Put, Get or
\* LinkTo.  A call that is refused calls nothing back.
Call(accepted) ==
    /\ call.at = "start"
    /\ event' = [event EXCEPT !.st = "live"]
    /\ call' = IF accepted THEN [call EXCEPT !.at = "wait"] ELSE [call EXCEPT !.at = "destroy", !.ret = "REFUSED"]
    /\ op' = [op EXCEPT !.st = IF accepted THEN Started(call.kind) ELSE "none"]
    /\ UNCHANGED faults

\* No address, a link that Link refuses, or one that will complete.
OnResolve(status) ==
    /\ op.st = "resolving" /\ UNCHANGED <<call, event, faults>>
    /\ op' = IF status = NULL THEN [op EXCEPT !.st = "pending"]
             ELSE [st |-> "complete", status |-> status]
\* DPS_RemoteCompletion: an unlink has no status.
Complete(status) ==
    /\ call.kind # "register" /\ op.st = "pending" /\ UNCHANGED <<call, event, faults>>
    /\ op' = [st |-> "complete", status |-> IF call.kind = "unlink" THEN "OK" ELSE status]
\* The end of a registration request
OnRegistered(status) ==
    /\ call.kind = "register" /\ op.st = "pending" /\ UNCHANGED <<call, event, faults>>
    /\ op' = [st |-> "complete", status |-> status]

\* OnLinked copies the address; DPS_SignalEvent takes the event's mutex,
Signal ==
    /\ op.st = "complete" /\ event.lock = NULL
    /\ op' = [op EXCEPT !.st = "signalling"]
    /\ event' = [event EXCEPT !.lock = "loop", !.status = op.status, !.signaled = TRUE]
    /\ call' = [call EXCEPT !.addr = call.kind = "link" /\ op.status = "OK"]
    /\ Uses("lock")
\* and releases it.
Unlock ==
    /\ op.st = "signalling" /\ op' = [op EXCEPT !.st = "done"]
    /\ event' = [event EXCEPT !.lock = NULL] /\ UNCHANGED call
    /\ Uses("unlock")

\* Mutation: an event that is signalled before it is waited for is missed.
WaitForEventBug ==
    /\ call.at = "wait" /\ event.lock = NULL
    /\ call' = [call EXCEPT !.at = "asleep"] /\ UNCHANGED <<op, event, faults>>
\* DPS_WaitForEvent: when the mutex is free, the event is taken or the thread sleeps;
WaitForEvent ==
    /\ call.at = "wait" /\ event.lock = NULL /\ UNCHANGED <<op, faults>>
    /\ IF event.signaled
       THEN /\ event' = [event EXCEPT !.signaled = FALSE]
            /\ call' = [call EXCEPT !.at = "destroy", !.ret = event.status]
       ELSE call' = [call EXCEPT !.at = "asleep"] /\ UNCHANGED event
\* it wakes when it is signalled, and looks again.
Wake == call.at = "asleep" /\ event.lock = NULL /\ op.st \in {"signalling", "done"}
        /\ call' = [call EXCEPT !.at = "wait"] /\ UNCHANGED <<op, event, faults>>

\* DPS_DestroyEvent, and the function returns.
DestroyEvent ==
    /\ call.at = "destroy" /\ call' = [call EXCEPT !.at = "returned"]
    /\ event' = [event EXCEPT !.st = "freed"] /\ UNCHANGED <<op, faults>>

LoopWork == (\E status \in {NULL, "EXISTS", "UNRESOLVED"} : OnResolve(status))
            \/ (\E status \in Statuses : Complete(status) \/ OnRegistered(status)) \/ Signal \/ Unlock
Thread == WaitForEvent \/ Wake \/ DestroyEvent
Next == LoopWork \/ Thread \/ \E accepted \in BOOLEAN : Call(accepted)

\* The thread returns what the operation ended with, and no earlier; the address is
\* there when that is DPS_OK; and the loop never uses an event that was freed.
WaitedFor ==
    /\ faults = {}
    /\ call.at \in {"destroy", "returned"} /\ call.ret # "REFUSED" =>
         /\ op.st = "done" /\ call.ret = op.status
         /\ call.kind = "link" => call.addr = (op.status = "OK")

\* Every call returns.
CallReturns == call.at # "start" ~> call.at = "returned"
==============================================================================
