------------------------------ MODULE Resolver ------------------------------
(***************************************************************************)
(* Address resolution (src/src/resolver.c): requests the application       *)
(* links to node->resolverList, the event loop hands to libuv and answers, *)
(* a second attempt with the other address family of a host, and the node  *)
(* that stops in between.                                                  *)
(***************************************************************************)
EXTENDS Integers, Sequences

CONSTANTS Requests,     \* requests of the application
          Local         \* those for a host that has another address family

VARIABLES resolverList, \* linked requests, the newest first
          async,        \* resolverAsync has been signalled
          lookup,       \* [Requests -> "none", "first", "second"]: where libuv is
          answer,       \* [Requests -> answers given to the callback, in order]
          nodeState,    \* "running"; "stopping" once DPS_DestroyNode has asked for it;
                        \* "draining" while StopNode runs the loop a last time, its
                        \* handles closed; "stopped" when node->loop is freed
          late          \* not in the code: requests linked while the node drains

resolverVars == <<resolverList, async, lookup, answer, nodeState, late>>

-----------------------------------------------------------------------------

Init ==
    /\ resolverList = <<>> /\ async = FALSE
    /\ lookup = [r \in Requests |-> "none"]
    /\ answer = [r \in Requests |-> <<>>]
    /\ nodeState = "running" /\ late = {}

Linked(r) == \E i \in 1 .. Len(resolverList) : resolverList[i] = r

(* DPS_ResolveAddress refuses a request only when the node has no loop.    *)
(* uv_async_send succeeds on a handle that is closed too, and then wakes   *)
(* nobody.                                                                 *)
ResolveAddress(r) ==
    /\ nodeState # "stopped"
    /\ ~Linked(r) /\ lookup[r] = "none" /\ answer[r] = <<>>
    /\ resolverList' = <<r>> \o resolverList
    /\ async' = (nodeState # "draining")
    /\ late' = late \cup IF nodeState = "draining" THEN {r} ELSE {}
    /\ UNCHANGED <<lookup, answer, nodeState>>

AsyncResolveAddressBug ==
    /\ async
    /\ resolverList # <<>>
    /\ async' = FALSE /\ resolverList' = Tail(resolverList)
    /\ \/ lookup' = [lookup EXCEPT ![Head(resolverList)] = "first"] /\ UNCHANGED answer
       \/ answer' = [answer EXCEPT ![Head(resolverList)] = Append(@, "null")]
          /\ UNCHANGED lookup
    /\ UNCHANGED <<nodeState, late>>

(* DPS_AsyncResolveAddress takes every linked request; one libuv refuses   *)
(* is answered with no address, and so is each once the node stops.        *)
AsyncResolveAddress ==
    /\ async /\ async' = FALSE
    /\ resolverList' = <<>>
    /\ \E refused \in SUBSET {r \in Requests : Linked(r)} :
           /\ nodeState # "running" => \A r \in Requests : Linked(r) => r \in refused
           /\ lookup' = [r \in Requests |-> IF Linked(r) /\ r \notin refused THEN "first"
                                            ELSE lookup[r]]
           /\ answer' = [r \in Requests |-> IF r \in refused THEN Append(answer[r], "null")
                                            ELSE answer[r]]
    /\ UNCHANGED <<nodeState, late>>

(* TryGetAddrInfoCB: the host has no address of the family asked for; the  *)
(* local hosts are tried again with the other one.                         *)
TryAgain(r) ==
    /\ lookup[r] = "first" /\ r \in Local
    /\ lookup' = [lookup EXCEPT ![r] = "second"]
    /\ UNCHANGED <<resolverList, async, answer, nodeState, late>>

(* GetAddrInfoCB: the last answer goes to the callback. *)
GetAddrInfoCB(r) ==
    /\ lookup[r] # "none"
    /\ lookup' = [lookup EXCEPT ![r] = "none"]
    /\ \E a \in {"address", "null"} : answer' = [answer EXCEPT ![r] = Append(@, a)]
    /\ UNCHANGED <<resolverList, async, nodeState, late>>

(* DPS_DestroyNode asks the loop to stop. *)
DestroyNode ==
    /\ nodeState = "running" /\ nodeState' = "stopping"
    /\ UNCHANGED <<resolverList, async, lookup, answer, late>>

(* StopNode: requests still linked are answered with no address, and the   *)
(* async is closed.                                                        *)
StopNode ==
    /\ nodeState = "stopping" /\ nodeState' = "draining"
    /\ answer' = [r \in Requests |-> IF Linked(r) THEN Append(answer[r], "null")
                                     ELSE answer[r]]
    /\ resolverList' = <<>> /\ async' = FALSE
    /\ UNCHANGED <<lookup, late>>

(* The loop ends when libuv has no request any more. *)
Drained ==
    /\ nodeState = "draining" /\ \A r \in Requests : lookup[r] = "none"
    /\ nodeState' = "stopped"
    /\ UNCHANGED <<resolverList, async, lookup, answer, late>>

LoopWork ==
    \/ AsyncResolveAddress \/ StopNode \/ Drained
    \/ \E r \in Requests : GetAddrInfoCB(r) \/ TryAgain(r)

Next == DestroyNode \/ LoopWork \/ \E r \in Requests : ResolveAddress(r)

-----------------------------------------------------------------------------

(* A request that was taken and has no answer yet. *)
Waits(r) == Linked(r) \/ lookup[r] # "none"

(* ResolvesOnce: a request is answered at most once, and until then it     *)
(* waits in one place, where somebody will find it.  A request without an  *)
(* answer outlives the node only if it was linked while the node drained:  *)
(* every other one is answered by its look-up, by a refusal of libuv or by *)
(* StopNode.                                                               *)
ResolvesOnce ==
    /\ \A r \in Requests :
           /\ Len(answer[r]) <= 1
           /\ Waits(r) => answer[r] = <<>> /\ ~(Linked(r) /\ lookup[r] # "none")
           /\ Linked(r) => async \/ r \in late
           /\ nodeState = "stopped" /\ Waits(r) => r \in late

(* EveryAnswer: a request that was taken before StopNode closes the async  *)
(* is answered in the end, also when the node stops first.                 *)
EveryAnswer == \A r \in Requests : Waits(r) /\ r \notin late ~> answer[r] # <<>>

(* NoneForgotten: "If an error status is returned the callback function    *)
(* will not be called" (dps.h): DPS_OK means that it will be.              *)
NoneForgotten == \A r \in Requests : Waits(r) ~> answer[r] # <<>>

=============================================================================
