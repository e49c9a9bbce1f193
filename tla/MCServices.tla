----------------------------- MODULE MCServices -----------------------------
(***************************************************************************)
(* The services on top of a node, one instance of each; about says which   *)
(* one a behaviour is about, and the variables of the others stay put.     *)
(***************************************************************************)
EXTENDS Integers, Sequences

CONSTANTS Discovered, NumBuffers, MaxHellos, MaxReceived, Refusable, Size, Answers, MaxAnswers,
          Candidates, LocalOnes, MaxDispatches, Requests, NULL, k1, k2, k3

(* The null pointer is no payload, no thread, no status and no request,    *)
(* bounds are numbers, and what is registered is a list of addresses.      *)
ASSUME NullAssumption ==
    NULL \notin Nat /\ NULL \notin {"loop", "OK", "DESTROYED"} /\ NULL \notin Requests
ASSUME SizesAssumption == NumBuffers \in Nat /\ Size \in Nat /\ MaxDispatches \in Nat
ASSUME AnswersAssumption == \A addrs \in Answers : addrs \in Seq(STRING)

VARIABLES about,
          dservice, dbuffer, dsendQ, dsends, drx, drequests, dsignalled, dpass, dapp,
          reg, flags, linkTo,
          dispatcher,
          call, op, event, faults,
          node, thread, queue, current, due, runs

D == INSTANCE Discovery WITH
        Messages <- Discovered, service <- dservice, buffer <- dbuffer, sendQ <- dsendQ, sends <- dsends,
        rx <- drx, requests <- drequests, signalled <- dsignalled, pass <- dpass, app <- dapp
R == INSTANCE Registration
P == INSTANCE Dispatcher
Y == INSTANCE Synchronous
N == INSTANCE NodeLife

dVars == <<dservice, dbuffer, dsendQ, dsends, drx, drequests, dsignalled, dpass, dapp>>
rVars == <<reg, flags, linkTo>>
pVars == <<dispatcher>>
yVars == <<call, op, event, faults>>
nVars == <<node, thread, queue, current, due, runs>>
vars == <<about, dVars, rVars, pVars, yVars, nVars>>

Services == {"discovery", "registration", "dispatcher", "synchronous", "life"}

Init ==
    /\ about \in Services
    /\ D!Init /\ (about # "discovery" => dservice.wants)
    /\ R!Init /\ (about # "registration" => reg.op = "put")
    /\ P!Init /\ (about # "dispatcher" => dispatcher.once)
    /\ Y!Init /\ (about # "synchronous" => call.kind = "link")
    /\ N!Init

Next ==
    /\ UNCHANGED about
    /\ \/ about = "discovery" /\ D!Next /\ UNCHANGED <<rVars, pVars, yVars, nVars>>
       \/ about = "registration" /\ R!Next /\ UNCHANGED <<dVars, pVars, yVars, nVars>>
       \/ about = "dispatcher" /\ P!Next /\ UNCHANGED <<dVars, rVars, yVars, nVars>>
       \/ about = "synchronous" /\ Y!Next /\ UNCHANGED <<dVars, rVars, pVars, nVars>>
       \/ about = "life" /\ N!Next /\ UNCHANGED <<dVars, rVars, pVars, yVars>>

(* The event loops go on, timers fire, links and sends complete or fail,   *)
(* and a thread that was woken runs.                                       *)
Fairness ==
    /\ WF_dVars(about = "discovery" /\ (D!LoopWork \/ D!ScheduleStart))
    /\ WF_rVars(about = "registration" /\ R!LoopWork)
    /\ WF_pVars(about = "dispatcher" /\ P!LoopWork)
    /\ WF_yVars(about = "synchronous" /\ Y!LoopWork) /\ WF_yVars(about = "synchronous" /\ Y!Thread)
    /\ WF_nVars(about = "life" /\ N!LoopWork)

Spec == Init /\ [][Next]_vars /\ Fairness

-----------------------------------------------------------------------------

(* CalledBackOnce: each service calls the application back exactly once    *)
(* for what it accepted, with the outcome, and never for what it refused:  *)
(* a discovered node, a registration, a list of candidates, a blocking     *)
(* call, the end of a node and the requests that wait on its loop.         *)
CalledBackOnce ==
    D!ReportedOnce /\ R!RegisteredOnce /\ R!LinksOnce /\ P!CalledInOrder /\ Y!WaitedFor /\ N!LivesOnce

(* NoneDangling: a payload that messages share is freed with the last of   *)
(* them, and when a discovery service is freed nothing that is still       *)
(* queued, sent, linked or timed refers to it, but for the request to      *)
(* start its timer when its goodbye was refused at once.                   *)
NoneDangling == D!PayloadCounted /\ D!NothingDangles

(* AllFinish: whatever the application waits for comes to an end.          *)
AllFinish == /\ D!DestroyCompletes /\ R!RegistrationCompletes /\ P!ScheduledCallEnds
             /\ Y!CallReturns /\ N!StopsOnceTold

(* DispatchedOnce: every DPS_Dispatch that returned DPS_OK is one call.    *)
DispatchedOnce == P!DispatchedOnce

-----------------------------------------------------------------------------

Heard(kind, match, self, ackReq) == [kind |-> kind, match |-> match, self |-> self, ackReq |-> ackReq]
SomeMessages == {Heard("pub", TRUE, FALSE, TRUE), Heard("pub", FALSE, FALSE, TRUE),
                 Heard("pub", TRUE, TRUE, TRUE), Heard("ack", TRUE, FALSE, FALSE),
                 Heard("ack", FALSE, FALSE, FALSE), Heard("goodbye", FALSE, FALSE, FALSE),
                 Heard("bad", FALSE, FALSE, FALSE)}
SomeAnswers == {<<"other">>, <<"local", "other">>, <<"other", "other", "other">>}
=============================================================================
