---------------------------- MODULE Registration ----------------------------
(***************************************************************************)
(* The client of the registration service (src/src/registration.c).  A put *)
(* or a get links a node of its own to the service, publishes or           *)
(* subscribes, waits for an answer or a timeout, unlinks and frees what it *)
(* made; DPS_Registration_LinkTo then tries the addresses a get returned.  *)
(* Each of these waits is a callback of the event loop, and answers go on  *)
(* arriving while the request is taken apart.                              *)
(***************************************************************************)
EXTENDS Integers, Sequences, FiniteSets, SequencesExt

CONSTANTS Size,         \* the size of the registration list
          Answers,      \* the lists of addresses another node may have registered
          MaxAnswers,   \* bound: acknowledgements or publications received
          Candidates,   \* registrations to link to
          LocalOnes     \* the candidates with an address of the node itself

VARIABLES reg,          \* RegPut or RegGet
          flags,        \* DPS_Registration.flags of each candidate
          linkTo        \* the call of DPS_Registration_LinkTo: what it returned or reported

vars == <<reg, flags, linkTo>>

Init ==
    /\ \E op \in {"put", "get"} :
           reg = [op |-> op, st |-> "none", link |-> "none", obj |-> "none", onDestroyed |-> "none",
                  timer |-> "none", result |-> "none", status |-> "none", answers |-> 0,
                  list |-> <<>>, calls |-> 0, aborted |-> FALSE]
    /\ flags = [c \in Candidates |-> "UNTRIED"]
    /\ linkTo = [st |-> "none", calls |-> <<>>]

-----------------------------------------------------------------------------
(* DPS_Registration_Put and DPS_Registration_Get. *)

\* DestroyRegPut and DestroyRegGet: the node, the callback, the memory.
DestroyReg(r) == [r EXCEPT !.st = "done", !.calls = @ + 1]

\* uv_timer_stop and uv_close of the request's timer; libuv asserts that a handle is not
\* closed a second time.
CloseTimer(r, result) ==
    IF r.timer = "armed" THEN [r EXCEPT !.timer = "closing", !.result = result]
    ELSE [r EXCEPT !.aborted = TRUE]

\* RegPutCB and RegGetCB: the publication or subscription goes first.  One that was
\* destroyed already is not valid, and is not destroyed again.
RegCB(r) ==
    CASE r.obj = "listed" -> [r EXCEPT !.obj = "destroyed", !.onDestroyed = "end"]
      [] r.obj = "destroyed" -> r
      [] OTHER -> DestroyReg(r)

\* PutUnlink and GetUnlink: DPS_Unlink may find that the link is lost.
Unlink(r, accepted) ==
    IF r.link = "linked" /\ accepted THEN [r EXCEPT !.link = "unlinking"] ELSE RegCB(r)

Live == reg.st = "live" /\ ~reg.aborted /\ UNCHANGED <<flags, linkTo>>

\* The node is created and started, the payload of a put built and the link requested, or
\* the call is refused and the callback never called.
Begin(accepted) ==
    /\ reg.st = "none" /\ UNCHANGED <<flags, linkTo>>
    /\ reg' = IF accepted THEN [reg EXCEPT !.st = "live", !.link = "linking"]
              ELSE [reg EXCEPT !.st = "refused"]
Registration_Put(accepted) == reg.op = "put" /\ Begin(accepted)
Registration_Get(accepted) == reg.op = "get" /\ Begin(accepted)

\* What is made once the link is there; a link that failed has nothing to unlink.
Linked == [reg EXCEPT !.link = "linked", !.obj = "listed"]
NotLinked(unlinks) == Unlink([reg EXCEPT !.link = "none", !.status = "LINK"], unlinks)

\* What a put publishes may be refused.
OnLinkedPut(linked, published, unlinks) ==
    /\ Live /\ reg.op = "put" /\ reg.link = "linking"
    /\ reg' = IF ~linked THEN NotLinked(unlinks)
              ELSE IF published THEN [Linked EXCEPT !.timer = "armed", !.status = "OK"]
              ELSE Unlink([Linked EXCEPT !.status = "PUBLISH"], unlinks)
OnLinkedGet(linked, unlinks) ==
    /\ Live /\ reg.op = "get" /\ reg.link = "linking"
    /\ reg' = IF linked THEN [Linked EXCEPT !.timer = "armed", !.status = "OK"] ELSE NotLinked(unlinks)

\* OnPutAck
OnPutAck ==
    /\ Live /\ reg.op = "put" /\ reg.obj = "listed" /\ reg.timer # "none" /\ reg.answers < MaxAnswers
    /\ reg' = CloseTimer([reg EXCEPT !.answers = @ + 1], "OK")

\* An address whose port and interface are the node's own
IsLocalAddr(addr) == addr = "local"

\* One turn of OnPub's loop over the addresses of a registration.
Store(r, addr) ==
    IF r.onDestroyed = "stopped" THEN r
    ELSE IF Len(r.list) = Size THEN [r EXCEPT !.obj = "destroyed", !.onDestroyed = "stopped"]
    ELSE IF IsLocalAddr(addr) THEN r
    ELSE [r EXCEPT !.list = Append(@, addr)]
OnPub(addrs) ==
    /\ Live /\ reg.op = "get" /\ reg.obj = "listed" /\ reg.answers < MaxAnswers
    /\ reg' = FoldLeft(Store, [reg EXCEPT !.answers = @ + 1], addrs)

\* OnPutTimeout and OnGetTimeout
OnTimeout ==
    /\ Live /\ reg.timer = "armed"
    /\ reg' = CloseTimer(reg, IF reg.op = "put" THEN "TIMEOUT" ELSE "OK")

\* OnPutTimerClosedOK, OnPutTimerClosedTO, OnGetTimerClosed
TimerClosed(unlinks) ==
    /\ Live /\ reg.timer = "closing"
    /\ reg' = Unlink([reg EXCEPT !.timer = "closed", !.status = reg.result], unlinks)

\* OnPutUnlinkCB and OnGetUnlinkCB
OnUnlinked == Live /\ reg.link = "unlinking" /\ reg' = RegCB([reg EXCEPT !.link = "none"])

\* FreeTask: OnPubDestroyed and OnSubDestroyed, or OnSubStopped of a get whose list is full.
OnDestroyed ==
    /\ Live /\ reg.obj = "destroyed"
    /\ LET r == [reg EXCEPT !.obj = "gone"]
       IN  reg' = IF reg.onDestroyed = "end" THEN DestroyReg(r) ELSE CloseTimer(r, "OK")

-----------------------------------------------------------------------------
(* DPS_Registration_LinkTo. *)

Untried == {c \in Candidates : flags[c] = "UNTRIED"}

\* Candidates are taken at random until DPS_Link accepts one; the others it met failed.
TryCandidates(failed, chosen, last) ==
    /\ chosen \subseteq Untried \ (failed \cup LocalOnes)
    /\ chosen = {} => failed = Untried \ last
    /\ flags' = [c \in Candidates |-> IF c \in chosen THEN "TRYING"
                                      ELSE IF c \in failed \cup last THEN "FAILED" ELSE flags[c]]

LinkTo(failed, chosen) ==
    /\ linkTo.st = "none" /\ failed \subseteq Untried /\ UNCHANGED reg
    /\ TryCandidates(failed, chosen, {})
    /\ linkTo' = [linkTo EXCEPT !.st = IF chosen = {} THEN "refused" ELSE "live"]

\* OnLinked: another candidate is tried when this one failed.
OnCandidate(c, linked, failed, chosen) ==
    /\ flags[c] = "TRYING" /\ UNCHANGED reg
    /\ IF linked
       THEN failed = {} /\ chosen = {} /\ flags' = [flags EXCEPT ![c] = "LINKED"]
       ELSE failed \subseteq Untried /\ TryCandidates(failed, chosen, {c})
    /\ linkTo' = IF ~linked /\ chosen # {} THEN linkTo
                 ELSE [st |-> "done", calls |-> Append(linkTo.calls, IF linked THEN "OK" ELSE "FAILED")]

-----------------------------------------------------------------------------

LoopWork == \/ \E linked, published, unlinks \in BOOLEAN : OnLinkedPut(linked, published, unlinks)
            \/ \E linked, unlinks \in BOOLEAN : OnLinkedGet(linked, unlinks)
            \/ OnTimeout \/ OnUnlinked \/ OnDestroyed
            \/ \E unlinks \in BOOLEAN : TimerClosed(unlinks)
Linking == \E c \in Candidates, linked \in BOOLEAN, failed \in SUBSET Candidates,
              chosen \in {{}} \cup {{x} : x \in Candidates} : OnCandidate(c, linked, failed, chosen)
Next == \/ LoopWork \/ Linking \/ OnPutAck
        \/ \E accepted \in BOOLEAN : Registration_Put(accepted) \/ Registration_Get(accepted)
        \/ \E addrs \in Answers : OnPub(addrs)
        \/ \E failed \in SUBSET Candidates, chosen \in {{}} \cup {{x} : x \in Candidates} :
              LinkTo(failed, chosen)

\* The callback of a put or get that was accepted is called once, with nothing of the
\* request left to call back after it; a put succeeds when it was acknowledged and only
\* then, a get when its node was linked, and the list never holds more than its size nor
\* an address of the node itself.
RegisteredOnce ==
    /\ reg.calls = (IF reg.st = "done" THEN 1 ELSE 0)
    /\ reg.st = "done" => /\ reg.obj \in {"none", "gone"} /\ reg.timer \in {"none", "closed"}
                          /\ reg.link \notin {"linking", "unlinking"}
                          /\ (reg.status = "OK") = (IF reg.op = "put" THEN reg.answers > 0 ELSE reg.status # "LINK")
    /\ Len(reg.list) <= Size /\ ~Contains(reg.list, "local")

\* DPS_Registration_LinkTo reports once, a failure only when every candidate has failed,
\* and tries one candidate at a time.
LinksOnce ==
    /\ linkTo.calls # <<>> => /\ Len(linkTo.calls) = 1
                              /\ linkTo.calls = <<"OK">> => \E c \in Candidates : flags[c] = "LINKED"
    /\ linkTo.st = "refused" \/ linkTo.calls = <<"FAILED">> => \A c \in Candidates : flags[c] = "FAILED"
    /\ Cardinality({c \in Candidates : flags[c] \in {"TRYING", "LINKED"}}) <= 1
    /\ linkTo.st = "live" => \E c \in Candidates : flags[c] = "TRYING"

\* A put or get that was accepted completes, unless libuv's assertion stopped the program:
\* an acknowledgement that comes while the timer is closed, or a list that fills when the
\* timer has fired.
RegistrationCompletes == reg.st = "live" ~> (reg.st = "done" \/ reg.aborted)

\* No handle is closed twice.
ClosedOnce == ~reg.aborted
=============================================================================
