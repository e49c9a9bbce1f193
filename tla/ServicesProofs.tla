---------------------------- MODULE ServicesProofs ----------------------------
(***************************************************************************)
(* The services on a node (MCServices): an inductive invariant of each,    *)
(* and the theorems on all of them.  A loop of the source is a fold in the *)
(* model; an instance of FoldTheorems takes it apart, turn by turn.        *)
(***************************************************************************)
EXTENDS MCServices, FiniteSetTheorems, TLAPS

--------------------------------------------------------------------------------
(* The dispatcher. *)

DispatcherType ==
    [once : BOOLEAN, st : {"created", "open", "closing", "freed"}, busy : BOOLEAN, arg : Nat,
     async : BOOLEAN, timer : {"idle", "armed", "closing", "closed"}, count : Nat,
     accepted : SUBSET Nat, called : Seq(Nat)]

\* Data that is about to be used was accepted, and is not older than what was used before.
DispatcherInv ==
    LET d == dispatcher
    IN  /\ d \in DispatcherType
        /\ d.arg <= d.count
        /\ d.async \/ d.timer = "armed" => d.arg \in d.accepted
        /\ \A i \in DOMAIN d.called : d.called[i] \in d.accepted /\ d.called[i] <= d.arg
        /\ \A i \in 1 .. Len(d.called) - 1 : d.called[i] <= d.called[i + 1]

--------------------------------------------------------------------------------
(* Blocking calls. *)

Outcomes == Y!Statuses \cup {NULL, "REFUSED"}
\* The thread waits for an event that is there, and not signalled again.
Waits(signaled) == /\ call.at \in {"wait", "asleep"}
                   /\ event.st = "live" /\ event.signaled = signaled
                   /\ signaled => event.status = op.status
Answered == call.kind = "link" => call.addr = (op.status = "OK")
SynchronousInv ==
    /\ call \in [kind : Y!Kinds, at : {"start", "wait", "asleep", "destroy", "returned"},
                 ret : Outcomes, addr : BOOLEAN]
    /\ op \in [st : {"none", "resolving", "pending", "complete", "signalling", "done"}, status : Outcomes]
    /\ event \in [st : {"none", "live", "freed"}, signaled : BOOLEAN, status : Outcomes,
                  lock : {NULL, "loop"}]
    /\ faults = {}
    /\ event.lock = (IF op.st = "signalling" THEN "loop" ELSE NULL)
    /\ op.st \in {"complete", "signalling", "done"} => op.status \in Y!Statuses
    /\ op.st = "none" => \/ call.at = "start" /\ ~event.signaled
                         \/ call.at \in {"destroy", "returned"} /\ call.ret = "REFUSED"
    /\ op.st \in {"resolving", "pending", "complete"} => Waits(FALSE)
    /\ op.st = "signalling" => Waits(TRUE) /\ Answered
    /\ op.st = "done" => /\ Answered
                         /\ Waits(TRUE) \/ (call.at \in {"destroy", "returned"} /\ call.ret = op.status)

--------------------------------------------------------------------------------
(* The life of a node. *)

\* The requests that wait, none twice.
Queued == {queue[i] : i \in DOMAIN queue}
RequestsOf == IF current = NULL THEN Queued ELSE Queued \cup {current}
Waiting ==
    /\ queue \in Seq(Requests) /\ current \in Requests \cup {NULL}
    /\ due \subseteq Requests /\ runs \in [Requests -> Nat]
    /\ \A i, j \in DOMAIN queue : i # j => queue[i] # queue[j]
    /\ \A i \in DOMAIN queue : queue[i] # current
    /\ \A r \in Requests : /\ r \in RequestsOf => r \in due /\ runs[r] = 0
                           /\ r \in due /\ r \notin RequestsOf => runs[r] = 1
                           /\ r \notin due => runs[r] = 0
\* Who frees the node depends on whether its loop was told to.
Lifetime ==
    /\ node \in [state : {"CREATED", "RUNNING", "STOPPING", "STOPPED"}, async : BOOLEAN, stop : BOOLEAN,
                 onDestroyed : BOOLEAN, freed : Nat, called : Nat, ret : {NULL, "OK", "DESTROYED"}]
    /\ thread \in {"none", "running", "stopping", "draining", "ended"}
    /\ node.called = (IF thread = "ended" THEN 1 ELSE 0)
    /\ node.freed = (IF thread = "ended" \/ node.ret = "DESTROYED" THEN 1 ELSE 0)
    /\ node.state = "CREATED" => thread = "none"
    /\ node.state \in {"RUNNING", "STOPPING"} <=> thread = "running"
    /\ node.state = "STOPPING" <=> node.stop
    /\ node.ret = "OK" <=> node.state = "STOPPING" \/ thread \in {"stopping", "draining", "ended"}
    /\ node.onDestroyed <=> node.ret = "OK"
    /\ node.ret = "DESTROYED" => thread = "none"
    /\ thread \in {"none", "draining", "ended"} => queue = <<>> /\ current = NULL
NodeLifeInv == Waiting /\ Lifetime

--------------------------------------------------------------------------------
(* The registration client. *)

RegType ==
    [op : {"put", "get"}, st : {"none", "live", "refused", "done"},
     link : {"none", "linking", "linked", "unlinking"}, obj : {"none", "listed", "destroyed", "gone"},
     onDestroyed : {"none", "end", "stopped"}, timer : {"none", "armed", "closing", "closed"},
     result : {"none", "OK", "TIMEOUT"}, status : {"none", "LINK", "PUBLISH", "OK", "TIMEOUT"},
     answers : Nat, list : Seq(STRING), calls : Nat, aborted : BOOLEAN]

Fits(list) == /\ list \in Seq(STRING) /\ Len(list) <= Size
              /\ \A i \in 1 .. Len(list) : list[i] # "local"
\* What the request still waits for, in the order in which it gives it up.
Unfinished(r) ==
    /\ r.link = "linking" => r.obj = "none" /\ r.status = "none"
    /\ r.obj = "none" => r.link \in {"none", "linking"} /\ r.timer = "none"
    /\ r.link = "unlinking" => r.timer \in {"none", "closed"} /\ r.onDestroyed # "end"
    /\ r.onDestroyed = "end" => /\ r.obj \in {"destroyed", "gone"} /\ r.timer \in {"none", "closed"}
                                /\ r.link \notin {"linking", "unlinking"}
    /\ r.obj \in {"destroyed", "gone"} => r.onDestroyed \in {"end", "stopped"}
    /\ r.onDestroyed = "stopped" => r.op = "get" /\ r.obj \in {"destroyed", "gone"}
    /\ r.obj \in {"none", "listed"} => r.onDestroyed = "none"
    /\ r.st = "live" /\ r.obj = "gone" => r.onDestroyed = "stopped"
    /\ r.timer \in {"closing", "closed"} => r.result # "none"
\* The status says whether a put was acknowledged, or a get was linked.
Says(r) ==
    IF r.op = "put"
    THEN /\ r.link = "linking" => r.answers = 0
         /\ r.timer = "none" /\ r.link # "linking" => r.answers = 0 /\ r.status \in {"LINK", "PUBLISH"}
         /\ r.timer = "armed" => r.answers = 0
         /\ r.timer = "closing" => (r.result = "OK" <=> r.answers > 0)
         /\ r.timer = "closed" => (r.status = "OK" <=> r.answers > 0)
    ELSE /\ r.result \in {"none", "OK"}
         /\ r.link # "linking" => r.status \in {"LINK", "OK"}
Put(r) == /\ r \in RegType /\ Fits(r.list)
          /\ r.calls = (IF r.st = "done" THEN 1 ELSE 0)
          /\ r.st \in {"none", "refused"} => r.link = "none" /\ r.obj = "none" /\ r.timer = "none"
                                             /\ r.answers = 0 /\ r.status = "none"
                                             /\ r.onDestroyed = "none" /\ r.result = "none"
          /\ r.st \in {"live", "done"} /\ ~r.aborted => Unfinished(r) /\ Says(r)
          /\ r.st = "done" => /\ ~r.aborted /\ r.obj \in {"none", "gone"} /\ r.timer \in {"none", "closed"}
                              /\ r.link \notin {"linking", "unlinking"}

\* One candidate is tried at a time.
Trying == {c \in Candidates : flags[c] = "TRYING"}
Made == {c \in Candidates : flags[c] = "LINKED"}
LinkToInv ==
    /\ flags \in [Candidates -> {"UNTRIED", "TRYING", "FAILED", "LINKED"}]
    /\ \/ linkTo = [st |-> "none", calls |-> <<>>] /\ \A c \in Candidates : flags[c] = "UNTRIED"
       \/ linkTo = [st |-> "refused", calls |-> <<>>] /\ \A c \in Candidates : flags[c] = "FAILED"
       \/ linkTo = [st |-> "live", calls |-> <<>>] /\ Made = {} /\ \E c \in Candidates : Trying = {c}
       \/ linkTo = [st |-> "done", calls |-> <<"OK">>] /\ Trying = {} /\ \E c \in Candidates : Made = {c}
       \/ linkTo = [st |-> "done", calls |-> <<"FAILED">>] /\ \A c \in Candidates : flags[c] = "FAILED"
RegistrationInv == Put(reg) /\ LinkToInv

--------------------------------------------------------------------------------
(* The discovery service. *)

Message == [kind : {"hello", "goodbye", "ack"}, buf : D!Maybe(D!Buffers), n : Nat]
Request == [k : {"start", "destroy"}] \cup [k : {"ack"}, m : Discovered]
ServiceType ==
    [st : {"live", "freed"}, wants : BOOLEAN, handler : BOOLEAN,
     sub : {"created", "listed", "destroyed", "gone"}, pub : {"listed", "destroyed", "gone"},
     timer : {"none", "armed", "closing", "stopped"}, payload : D!Maybe(D!Buffers),
     publishes : 0 .. NumBuffers, hellos : Nat, destroying : BOOLEAN, destroyed : Nat,
     refused : BOOLEAN]
BufferType == [D!Buffers -> [refs : Int, st : {"unused", "live", "freed"}]]
RxEntry == [st : {"none", "received"}, ack : {"none", "requested", "timer", "done"},
            ackSvc : BOOLEAN, linking : BOOLEAN, linkSvc : BOOLEAN, sn : Seq(Nat)]
RxType == [Discovered -> RxEntry]
StateType ==
    [service : ServiceType, buffer : BufferType, sendQ : Seq(Message), sends : SUBSET Message,
     rx : RxType, requests : Seq(Request), signalled : SUBSET {"pubs", "free", "request"}]
Typed(t) == t \in StateType /\ IsFiniteSet(t.sends)

\* Some request, or some message, of a kind from a position on.
Asks(rs, j, what) == \E i \in DOMAIN rs : i > j /\ rs[i].k = what
Holds(q, k, what) == \E i \in DOMAIN q : i > k /\ q[i].kind = what
Sends(t, what) == \E x \in t.sends : x.kind = what

\* What was received: reported when no link is waited for.
Reported(v, m, e) ==
    /\ Len(e.sn) <= 1
    /\ e.st = "none" => e.sn = <<>> /\ ~e.linking
    /\ e.st = "received" => v.publishes > 0
    /\ e.linking => /\ e.sn = <<>> /\ m.kind # "bad"
                    /\ v.st = "live" => e.linkSvc = v.wants
    /\ e.st = "received" /\ ~e.linking /\ v.st = "live" =>
         Len(e.sn) = IF v.wants /\ m.kind # "bad" THEN 1 ELSE 0
\* Nothing is heard or sent before the service has published.
Begun(t) ==
    LET v == t.service
    IN  /\ v.publishes > 0 => v.handler = v.wants
        /\ v.publishes = 0 => v.sub # "listed" /\ v.hellos = 0 /\ v.timer # "armed" /\ ~Asks(t.requests, 0, "start")
Told(t) == Typed(t) /\ Begun(t) /\ \A m \in Discovered : Reported(t.service, m, t.rx[m])
ToldInv == Told(D!State) /\ dpass \in 0 .. 2 /\ (dapp \in {"payload", "schedule"} => dservice.publishes > 0)

--------------------------------------------------------------------------------
(* The dispatcher: one lemma per action. *)

LEMMA DispatcherInit == ASSUME P!Init PROVE DispatcherInv
BY DEF P!Init, DispatcherInv, DispatcherType

LEMMA DispatchKeeps == ASSUME DispatcherInv, P!Dispatch PROVE DispatcherInv'
<1> DEFINE d == dispatcher
           n == d.count + 1
<1>1. CASE d.busy
  <2>1. dispatcher' = [d EXCEPT !.count = n]
    BY <1>1 DEF P!Dispatch
  <2> QED BY <2>1 DEF DispatcherInv, DispatcherType
<1>2. CASE ~d.busy
  <2>1. dispatcher' = [d EXCEPT !.count = n, !.busy = TRUE, !.arg = n, !.async = TRUE,
                                !.st = "open", !.accepted = @ \cup {n}]
    BY <1>2 DEF P!Dispatch
  <2>2. /\ dispatcher' \in DispatcherType
        /\ dispatcher'.called = d.called /\ dispatcher'.arg = n /\ dispatcher'.count = n
        /\ dispatcher'.accepted = d.accepted \cup {n}
    <3>1. d \in DispatcherType /\ n \in Nat /\ d.accepted \cup {n} \in SUBSET Nat
      BY DEF DispatcherInv, DispatcherType
    <3> HIDE DEF n
    <3> QED BY <2>1, <3>1 DEF DispatcherType
  <2>3. \A i \in DOMAIN d.called : d.called[i] <= n
    <3>1. \A i \in DOMAIN d.called : d.called[i] \in Nat /\ d.called[i] <= d.arg
      BY DEF DispatcherInv, DispatcherType
    <3>2. d.arg \in Nat /\ d.count \in Nat /\ d.arg <= d.count
      BY DEF DispatcherInv, DispatcherType
    <3> QED BY <3>1, <3>2
  <2> QED BY <2>2, <2>3 DEF DispatcherInv, DispatcherType
<1> QED BY <1>1, <1>2

LEMMA DispatchTaskKeeps == ASSUME DispatcherInv, P!DispatchTask PROVE DispatcherInv'
BY DEF P!DispatchTask, DispatcherInv, DispatcherType

LEMMA DispatchTimeoutKeeps == ASSUME DispatcherInv, P!DispatchTimeout PROVE DispatcherInv'
<1> DEFINE d == dispatcher
           q == Append(d.called, d.arg)
<1>1. /\ d \in DispatcherType /\ d.called \in Seq(Nat) /\ d.arg \in Nat /\ d.arg \in d.accepted
      /\ \A i \in DOMAIN d.called : d.called[i] \in d.accepted /\ d.called[i] <= d.arg
      /\ \A i \in 1 .. Len(d.called) - 1 : d.called[i] <= d.called[i + 1]
  BY DEF DispatcherInv, DispatcherType, P!DispatchTimeout
<1>2. /\ dispatcher' \in DispatcherType /\ dispatcher'.called = q /\ dispatcher'.arg = d.arg
      /\ dispatcher'.accepted = d.accepted /\ dispatcher'.count = d.count
  <2>1. q \in Seq(Nat)
    BY <1>1
  <2> HIDE DEF q
  <2>2. dispatcher' \in
          {[d EXCEPT !.timer = "idle", !.busy = FALSE, !.called = q],
           [d EXCEPT !.timer = "closing", !.busy = FALSE, !.called = q, !.st = "closing"]}
    <3> DEFINE e == [d EXCEPT !.timer = "idle", !.busy = FALSE, !.called = q]
    <3>1. dispatcher' = IF d.once THEN P!Close(e) ELSE e
      BY DEF P!DispatchTimeout, q
    <3>2. P!Close(e) = [d EXCEPT !.timer = "closing", !.busy = FALSE, !.called = q, !.st = "closing"]
      BY <1>1 DEF P!Close, DispatcherType
    <3> QED BY <3>1, <3>2
  <2> HIDE DEF d
  <2>3. CASE dispatcher' = [d EXCEPT !.timer = "idle", !.busy = FALSE, !.called = q]
    BY <1>1, <2>1, <2>3 DEF DispatcherType
  <2>4. CASE dispatcher' = [d EXCEPT !.timer = "closing", !.busy = FALSE, !.called = q, !.st = "closing"]
    BY <1>1, <2>1, <2>4 DEF DispatcherType
  <2> QED BY <2>2, <2>3, <2>4
<1>3. /\ q \in Seq(Nat) /\ Len(q) = Len(d.called) + 1 /\ q[Len(d.called) + 1] = d.arg
      /\ \A i \in 1 .. Len(d.called) : q[i] = d.called[i]
  BY <1>1
<1> HIDE DEF q
<1>4. \A i \in DOMAIN q : q[i] \in d.accepted /\ q[i] <= d.arg
  <2> SUFFICES ASSUME NEW i \in DOMAIN q PROVE q[i] \in d.accepted /\ q[i] <= d.arg
    OBVIOUS
  <2>1. i \in 1 .. Len(d.called) \/ i = Len(d.called) + 1
    BY <1>1, <1>3, SMTT(40)
  <2> QED BY <1>1, <1>3, <2>1, SMTT(40)
<1>5. \A i \in 1 .. Len(q) - 1 : q[i] <= q[i + 1]
  <2> SUFFICES ASSUME NEW i \in 1 .. Len(q) - 1 PROVE q[i] <= q[i + 1]
    OBVIOUS
  <2>1. Len(d.called) \in Nat /\ i \in 1 .. Len(d.called)
    BY <1>1, <1>3
  <2>2. CASE i = Len(d.called)
    <3>1. q[i] <= d.arg /\ q[i + 1] = d.arg
      BY <1>3, <1>4, <2>2
    <3> QED BY <3>1
  <2>3. CASE i # Len(d.called)
    <3>1. i \in 1 .. Len(d.called) - 1 /\ i + 1 \in 1 .. Len(d.called)
      BY <2>1, <2>3
    <3> QED BY <1>1, <1>3, <2>1, <3>1
  <2> QED BY <2>2, <2>3
<1> QED BY <1>1, <1>2, <1>4, <1>5 DEF DispatcherInv

LEMMA DispatcherCloses ==
    ASSUME DispatcherInv, P!Destroy \/ P!TimerClosed \/ P!AsyncClosed PROVE DispatcherInv'
BY DEF P!Destroy, P!Close, P!TimerClosed, P!AsyncClosed, DispatcherInv, DispatcherType

LEMMA DispatcherStep == ASSUME DispatcherInv, P!Next PROVE DispatcherInv'
BY DispatchKeeps, DispatchTaskKeeps, DispatchTimeoutKeeps, DispatcherCloses DEF P!Next, P!LoopWork

LEMMA DispatcherStutter == ASSUME DispatcherInv, UNCHANGED pVars PROVE DispatcherInv'
BY DEF DispatcherInv, pVars

LEMMA DispatcherHolds == ASSUME DispatcherInv PROVE P!CalledInOrder
BY DEF DispatcherInv, P!CalledInOrder

--------------------------------------------------------------------------------
(* Blocking calls: one lemma per action. *)

LEMMA SynchronousInit == ASSUME Y!Init PROVE SynchronousInv
BY DEF Y!Init, SynchronousInv, Y!Kinds, Outcomes

LEMMA CallKeeps == ASSUME SynchronousInv, NEW accepted \in BOOLEAN, Y!Call(accepted) PROVE SynchronousInv'
<1>1. op.st = "none" /\ event.lock = NULL
  BY DEF SynchronousInv, Y!Call, Waits
<1>2. CASE accepted
  BY <1>1, <1>2 DEF Y!Call, Y!Started, SynchronousInv, Waits, Answered, Y!Kinds, Outcomes
<1>3. CASE ~accepted
  BY <1>1, <1>3 DEF Y!Call, SynchronousInv, Waits, Y!Kinds, Outcomes
<1> QED BY <1>2, <1>3

LEMMA OutcomeKeeps ==
    ASSUME SynchronousInv, NEW status,
           \/ status \in {NULL, "EXISTS", "UNRESOLVED"} /\ Y!OnResolve(status)
           \/ status \in Y!Statuses /\ (Y!Complete(status) \/ Y!OnRegistered(status))
    PROVE  SynchronousInv'
BY NullAssumption DEF Y!OnResolve, Y!Complete, Y!OnRegistered, SynchronousInv, Waits, Answered,
                      Outcomes, Y!Statuses

LEMMA SignalledKeeps == ASSUME SynchronousInv, Y!Signal PROVE SynchronousInv'
<1> DEFINE e == [event EXCEPT !.lock = "loop", !.status = op.status, !.signaled = TRUE]
           c == [call EXCEPT !.addr = call.kind = "link" /\ op.status = "OK"]
<1>1. /\ op.st = "complete" /\ op' = [op EXCEPT !.st = "signalling"]
      /\ event' = e /\ call' = c /\ event.st = "live" /\ faults' = {}
  BY DEF Y!Signal, Y!Uses, SynchronousInv, Waits
<1>2. /\ op \in [st : {"none", "resolving", "pending", "complete", "signalling", "done"}, status : Outcomes]
      /\ event \in [st : {"none", "live", "freed"}, signaled : BOOLEAN, status : Outcomes,
                    lock : {NULL, "loop"}]
      /\ call \in [kind : Y!Kinds, at : {"start", "wait", "asleep", "destroy", "returned"},
                   ret : Outcomes, addr : BOOLEAN]
      /\ op.status \in Y!Statuses /\ call.at \in {"wait", "asleep"}
  BY <1>1 DEF SynchronousInv, Waits
<1>3. /\ op'.st = "signalling" /\ op'.status = op.status
      /\ op' \in [st : {"none", "resolving", "pending", "complete", "signalling", "done"}, status : Outcomes]
  BY <1>1, <1>2
<1>4. /\ event' \in [st : {"none", "live", "freed"}, signaled : BOOLEAN, status : Outcomes,
                     lock : {NULL, "loop"}]
      /\ event'.st = "live" /\ event'.signaled = TRUE /\ event'.status = op.status /\ event'.lock = "loop"
  BY <1>1, <1>2
<1>5. /\ call' \in [kind : Y!Kinds, at : {"start", "wait", "asleep", "destroy", "returned"},
                    ret : Outcomes, addr : BOOLEAN]
      /\ call'.at = call.at /\ (call'.kind = "link" => call'.addr = (op.status = "OK"))
  BY <1>1, <1>2
<1> QED BY <1>1, <1>2, <1>3, <1>4, <1>5 DEF SynchronousInv, Waits, Answered

LEMMA UnlockKeeps == ASSUME SynchronousInv, Y!Unlock PROVE SynchronousInv'
BY NullAssumption DEF Y!Unlock, Y!Uses, SynchronousInv, Waits, Answered, Outcomes, Y!Statuses

LEMMA ThreadKeeps == ASSUME SynchronousInv, Y!Thread PROVE SynchronousInv'
<1>1. CASE Y!WaitForEvent
  <2>1. op.st # "none" /\ op.st # "signalling"
    BY <1>1, NullAssumption DEF Y!WaitForEvent, SynchronousInv
  <2>2. CASE event.signaled
    <3>1. op.st = "done"
      BY <1>1, <2>1, <2>2 DEF Y!WaitForEvent, SynchronousInv, Waits
    <3>2. event.status = op.status /\ op.status \in Y!Statuses /\ op.status \in Outcomes
      BY <1>1, <3>1 DEF Y!WaitForEvent, SynchronousInv, Waits
    <3>3. event' = [event EXCEPT !.signaled = FALSE] /\ call' = [call EXCEPT !.at = "destroy", !.ret = op.status]
          /\ UNCHANGED <<op, faults>>
      BY <1>1, <2>2, <3>2 DEF Y!WaitForEvent
    <3> QED BY <3>1, <3>2, <3>3 DEF SynchronousInv, Waits, Answered
  <2>3. CASE ~event.signaled
    BY <1>1, <2>1, <2>3 DEF Y!WaitForEvent, SynchronousInv, Waits, Answered
  <2> QED BY <2>2, <2>3
<1>2. CASE Y!Wake
  BY <1>2, NullAssumption DEF Y!Wake, SynchronousInv, Waits, Answered
<1>3. CASE Y!DestroyEvent
  BY <1>3, NullAssumption DEF Y!DestroyEvent, SynchronousInv, Waits, Answered
<1> QED BY <1>1, <1>2, <1>3 DEF Y!Thread

LEMMA SynchronousStep == ASSUME SynchronousInv, Y!Next PROVE SynchronousInv'
BY CallKeeps, OutcomeKeeps, SignalledKeeps, UnlockKeeps, ThreadKeeps DEF Y!Next, Y!LoopWork

LEMMA SynchronousStutter == ASSUME SynchronousInv, UNCHANGED yVars PROVE SynchronousInv'
BY DEF SynchronousInv, Waits, Answered, yVars

LEMMA SynchronousHolds == ASSUME SynchronousInv PROVE Y!WaitedFor
BY DEF SynchronousInv, Waits, Answered, Y!WaitedFor, Y!Statuses

--------------------------------------------------------------------------------
(* The life of a node: one lemma per action. *)

\* DPS_QueueRemove takes one item out of the queue.
LEMMA Removed ==
    ASSUME NEW S, NEW q \in Seq(S), NEW i \in DOMAIN q
    PROVE  LET p == N!RemoveAt(q, i)
           IN  /\ p \in Seq(S) /\ Len(p) = Len(q) - 1
               /\ \A j \in DOMAIN p : p[j] = IF j < i THEN q[j] ELSE q[j + 1]
<1> DEFINE a == SubSeq(q, 1, i - 1)
           b == SubSeq(q, i + 1, Len(q))
<1>1. /\ a \in Seq(S) /\ Len(a) = i - 1 /\ \A j \in 1 .. i - 1 : a[j] = q[j]
      /\ b \in Seq(S) /\ Len(b) = Len(q) - i /\ \A j \in 1 .. Len(q) - i : b[j] = q[i + j]
  OBVIOUS
<1>2. N!RemoveAt(q, i) = a \o b
  BY DEF N!RemoveAt
<1> HIDE DEF a, b
<1>3. i \in Nat /\ Len(q) \in Nat /\ 1 <= i /\ i <= Len(q)
  OBVIOUS
<1>4. a \o b \in Seq(S) /\ Len(a \o b) = Len(q) - 1
  BY <1>1, <1>3
<1>5. ASSUME NEW j \in DOMAIN (a \o b)
      PROVE  (a \o b)[j] = IF j < i THEN q[j] ELSE q[j + 1]
  <2>1. j \in 1 .. Len(q) - 1
    BY <1>4
  <2>2. CASE j < i
    <3>1. (a \o b)[j] = a[j]
      BY <1>1, <1>3, <2>1, <2>2
    <3> QED BY <1>1, <1>3, <2>1, <2>2, <3>1
  <2>3. CASE ~(j < i)
    <3>1. (a \o b)[j] = b[j - (i - 1)]
      BY <1>1, <1>3, <2>1, <2>3
    <3>2. j - (i - 1) \in 1 .. Len(q) - i /\ i + (j - (i - 1)) = j + 1
      BY <1>3, <2>1, <2>3
    <3>3. b[j - (i - 1)] = q[i + (j - (i - 1))]
      BY <1>1, <3>2
    <3> QED BY <2>3, <3>1, <3>2, <3>3
  <2> QED BY <2>2, <2>3
<1> QED BY <1>2, <1>4, <1>5

LEMMA NodeLifeInit == ASSUME N!Init PROVE NodeLifeInv
<1>1. Lifetime
  BY NullAssumption DEF N!Init, Lifetime
<1>2. Waiting
  BY DEF N!Init, Waiting, RequestsOf, Queued
<1> QED BY <1>1, <1>2 DEF NodeLifeInv

\* What leaves the requests alone.
LEMMA WaitingStays ==
    ASSUME Waiting, UNCHANGED <<queue, current, due, runs>> PROVE Waiting'
BY DEF Waiting, RequestsOf, Queued

LEMMA StartNodeKeeps == ASSUME NodeLifeInv, NEW ok \in BOOLEAN, N!StartNode(ok) PROVE NodeLifeInv'
<1>1. Waiting'
  BY WaitingStays DEF NodeLifeInv, N!StartNode
<1>2. Lifetime'
  BY NullAssumption DEF NodeLifeInv, Lifetime, N!StartNode
<1> QED BY <1>1, <1>2 DEF NodeLifeInv

LEMMA ScheduleKeeps == ASSUME NodeLifeInv, NEW r \in Requests, N!Schedule(r) PROVE NodeLifeInv'
<1> DEFINE q == Append(queue, r)
           n == Len(queue) + 1
<1>1. /\ queue \in Seq(Requests) /\ n \in Nat /\ q \in Seq(Requests) /\ Len(q) = n
      /\ q[n] = r /\ \A i \in 1 .. Len(queue) : q[i] = queue[i]
  BY DEF NodeLifeInv, Waiting
<1>2. /\ queue' = q /\ due' = due \cup {r} /\ UNCHANGED <<thread, current, runs>> /\ r \notin due
      /\ node' = [node EXCEPT !.async = TRUE]
  BY DEF N!Schedule
<1> HIDE DEF q
<1>3. r \notin RequestsOf /\ runs[r] = 0
  BY <1>2 DEF NodeLifeInv, Waiting
<1>4. \A i \in DOMAIN q : i = n \/ (i \in DOMAIN queue /\ q[i] = queue[i] /\ i # n)
  BY <1>1
<1>5. Queued' = Queued \cup {r}
  <2>1. Queued' = {q[i] : i \in DOMAIN q}
    BY <1>2 DEF Queued
  <2>2. \A i \in DOMAIN queue : i \in DOMAIN q /\ q[i] = queue[i]
    BY <1>1
  <2>3. n \in DOMAIN q
    BY <1>1
  <2> QED BY <1>1, <1>4, <2>1, <2>2, <2>3 DEF Queued
<1>6. RequestsOf' = RequestsOf \cup {r}
  BY <1>2, <1>5 DEF RequestsOf
<1>7. Waiting'
  <2>1. r # current
    BY <1>3, NullAssumption DEF RequestsOf
  <2>2. \A i \in DOMAIN queue : queue[i] # r
    BY <1>3 DEF RequestsOf, Queued
  <2>3. \A i, j \in DOMAIN q : i # j => q[i] # q[j]
    BY <1>1, <1>4, <2>2, SMTT(40) DEF NodeLifeInv, Waiting
  <2>4. \A i \in DOMAIN q : q[i] # current
    BY <1>1, <1>4, <2>1 DEF NodeLifeInv, Waiting
  <2> QED BY <1>1, <1>2, <1>3, <1>6, <2>3, <2>4 DEF NodeLifeInv, Waiting
<1>8. Lifetime'
  <2>1. thread \notin {"none", "draining", "ended"}
    BY NullAssumption DEF N!Schedule, NodeLifeInv, Lifetime
  <2> QED BY <1>2, <2>1 DEF NodeLifeInv, Lifetime
<1> QED BY <1>7, <1>8 DEF NodeLifeInv

LEMMA CancelKeeps == ASSUME NodeLifeInv, NEW r \in Requests, N!Cancel(r) PROVE NodeLifeInv'
<1> DEFINE q == queue'
<1>1. PICK i \in DOMAIN queue : queue[i] = r /\ queue' = N!RemoveAt(queue, i)
  BY DEF N!Cancel
<1>2. /\ due' = due \ {r} /\ UNCHANGED <<node, thread, current, runs>> /\ node.state = "RUNNING"
  BY DEF N!Cancel
<1>3. /\ queue \in Seq(Requests) /\ q \in Seq(Requests) /\ Len(q) = Len(queue) - 1
      /\ \A j \in DOMAIN q : q[j] = IF j < i THEN queue[j] ELSE queue[j + 1]
  BY <1>1, Removed DEF NodeLifeInv, Waiting
<1> HIDE DEF q
<1> DEFINE from(j) == IF j < i THEN j ELSE j + 1
<1>4. \A j \in DOMAIN q : from(j) \in DOMAIN queue /\ from(j) # i /\ q[j] = queue[from(j)]
  BY <1>3
<1>5. \A j, h \in DOMAIN q : j # h => from(j) # from(h)
  BY <1>3
<1>6. \A h \in DOMAIN queue : h # i => \E j \in DOMAIN q : h = from(j)
  <2> SUFFICES ASSUME NEW h \in DOMAIN queue, h # i PROVE \E j \in DOMAIN q : h = from(j)
    OBVIOUS
  <2>1. CASE h < i
    <3>1. h \in DOMAIN q /\ from(h) = h
      BY <1>3, <2>1
    <3> QED BY <3>1
  <2>2. CASE ~(h < i)
    <3>1. h - 1 \in DOMAIN q /\ from(h - 1) = h
      BY <1>3, <2>2
    <3> QED BY <3>1
  <2> QED BY <2>1, <2>2
<1> HIDE DEF from
<1>7. \A j, h \in DOMAIN queue : j # h => queue[j] # queue[h]
  BY DEF NodeLifeInv, Waiting
<1>8. Queued' = Queued \ {r}
  <2>1. Queued' = {q[j] : j \in DOMAIN q}
    BY DEF Queued, q
  <2>2. ASSUME NEW j \in DOMAIN q PROVE q[j] \in Queued \ {r}
    <3>1. from(j) \in DOMAIN queue /\ q[j] = queue[from(j)] /\ queue[from(j)] # queue[i]
      BY <1>4, <1>7
    <3> QED BY <1>1, <3>1 DEF Queued
  <2>3. ASSUME NEW x \in Queued \ {r} PROVE x \in {q[j] : j \in DOMAIN q}
    <3>1. PICK h \in DOMAIN queue : x = queue[h] /\ h # i
      BY <1>1 DEF Queued
    <3>2. PICK j \in DOMAIN q : h = from(j)
      BY <1>6, <3>1
    <3> QED BY <1>4, <3>1, <3>2
  <2> QED BY <2>1, <2>2, <2>3
<1>9. r # current
  BY <1>1 DEF NodeLifeInv, Waiting
<1>10. RequestsOf' = RequestsOf \ {r}
  BY <1>2, <1>8, <1>9 DEF RequestsOf
<1>11. r \in RequestsOf
  BY <1>1 DEF RequestsOf, Queued
<1>12. Waiting'
  <2>1. \A j, h \in DOMAIN q : j # h => q[j] # q[h]
    BY <1>4, <1>5, <1>7
  <2>2. \A j \in DOMAIN q : q[j] # current
    BY <1>4 DEF NodeLifeInv, Waiting
  <2> QED BY <1>2, <1>3, <1>10, <1>11, <2>1, <2>2 DEF NodeLifeInv, Waiting, q
<1>13. Lifetime'
  <2>1. thread = "running"
    BY <1>2 DEF NodeLifeInv, Lifetime
  <2> QED BY <1>2, <2>1 DEF NodeLifeInv, Lifetime
<1> QED BY <1>12, <1>13 DEF NodeLifeInv

LEMMA TakeKeeps == ASSUME NodeLifeInv, N!Take PROVE NodeLifeInv'
<1>1. /\ current = NULL /\ queue # <<>> /\ current' = Head(queue) /\ queue' = Tail(queue)
      /\ UNCHANGED <<node, thread, due, runs>> /\ thread \in {"running", "stopping"}
  BY DEF N!Take
<1> DEFINE q == Tail(queue)
           h == Head(queue)
<1>2. /\ queue \in Seq(Requests) /\ q \in Seq(Requests) /\ Len(q) = Len(queue) - 1 /\ Len(queue) > 0
      /\ h \in Requests /\ h = queue[1] /\ \A i \in DOMAIN q : q[i] = queue[i + 1]
  BY <1>1 DEF NodeLifeInv, Waiting
<1> HIDE DEF q, h
<1>3. \A i, j \in DOMAIN queue : i # j => queue[i] # queue[j]
  BY DEF NodeLifeInv, Waiting
<1>4. \A i \in DOMAIN q : i + 1 \in DOMAIN queue /\ i + 1 # 1 /\ 1 \in DOMAIN queue
  BY <1>2
<1>5. \A i, j \in DOMAIN q : i # j => i + 1 # j + 1
  BY <1>2
<1>6. Queued = {q[i] : i \in DOMAIN q} \cup {h}
  <2>1. \A i \in DOMAIN queue : i = 1 \/ (i - 1 \in DOMAIN q /\ q[i - 1] = queue[i])
    BY <1>2
  <2>2. 1 \in DOMAIN queue
    BY <1>2
  <2>3. \A x \in Queued : x \in {q[i] : i \in DOMAIN q} \cup {h}
    BY <1>2, <2>1 DEF Queued
  <2>4. \A i \in DOMAIN q : q[i] \in Queued
    BY <1>2, <1>4 DEF Queued
  <2>5. h \in Queued
    BY <1>2, <2>2 DEF Queued
  <2> QED BY <2>3, <2>4, <2>5
<1>7. Queued' = {q[i] : i \in DOMAIN q}
  BY <1>1 DEF Queued, q
<1>8. RequestsOf' = RequestsOf
  BY <1>1, <1>2, <1>6, <1>7, NullAssumption DEF RequestsOf, h
<1>9. Waiting'
  <2>1. \A i, j \in DOMAIN q : i # j => q[i] # q[j]
    BY <1>2, <1>3, <1>4, <1>5
  <2>2. \A i \in DOMAIN q : q[i] # h
    BY <1>2, <1>3, <1>4
  <2> QED BY <1>1, <1>2, <1>8, <2>1, <2>2 DEF NodeLifeInv, Waiting, q, h
<1>10. Lifetime'
  BY <1>1 DEF NodeLifeInv, Lifetime
<1> QED BY <1>9, <1>10 DEF NodeLifeInv

LEMMA ReturnKeeps == ASSUME NodeLifeInv, N!Return PROVE NodeLifeInv'
<1>1. /\ current # NULL /\ current' = NULL /\ runs' = [runs EXCEPT ![current] = @ + 1]
      /\ node' = [node EXCEPT !.async = @ /\ (queue # <<>> \/ thread # "running")]
      /\ UNCHANGED <<thread, queue, due>>
  BY DEF N!Return
<1>2. current \in Requests /\ current \in RequestsOf /\ runs \in [Requests -> Nat]
  BY <1>1 DEF NodeLifeInv, Waiting, RequestsOf
<1>3. Queued' = Queued /\ current \notin Queued
  BY <1>1 DEF Queued, NodeLifeInv, Waiting
<1>4. RequestsOf' = RequestsOf \ {current}
  BY <1>1, <1>3 DEF RequestsOf
<1>5. Waiting'
  <2>1. runs' \in [Requests -> Nat] /\ runs'[current] = 1
        /\ \A r \in Requests \ {current} : runs'[r] = runs[r]
    BY <1>1, <1>2 DEF NodeLifeInv, Waiting
  <2>2. current \in due
    BY <1>2 DEF NodeLifeInv, Waiting
  <2>3. \A i \in DOMAIN queue : queue[i] # NULL
    BY NullAssumption DEF NodeLifeInv, Waiting
  <2> QED BY <1>1, <1>2, <1>4, <2>1, <2>2, <2>3 DEF NodeLifeInv, Waiting
<1>6. Lifetime'
  <2>1. node' \in [state : {"CREATED", "RUNNING", "STOPPING", "STOPPED"}, async : BOOLEAN, stop : BOOLEAN,
                   onDestroyed : BOOLEAN, freed : Nat, called : Nat, ret : {NULL, "OK", "DESTROYED"}]
    <3> DEFINE b == node.async /\ (queue # <<>> \/ thread # "running")
    <3>1. b \in BOOLEAN
      OBVIOUS
    <3>2. node' = [node EXCEPT !.async = b]
      BY <1>1
    <3> HIDE DEF b
    <3> QED BY <3>1, <3>2 DEF NodeLifeInv, Lifetime
  <2> QED BY <1>1, <2>1 DEF NodeLifeInv, Lifetime
<1> QED BY <1>5, <1>6 DEF NodeLifeInv

LEMMA NodeEndsKeeps ==
    ASSUME NodeLifeInv, N!DestroyNode \/ N!StopNodeTask \/ N!Drain \/ N!NodeEnds PROVE NodeLifeInv'
<1>1. Waiting'
  BY WaitingStays DEF NodeLifeInv, N!DestroyNode, N!StopNodeTask, N!Drain, N!NodeEnds
<1>2. CASE N!DestroyNode
  <2>1. Lifetime /\ node.freed = 0 /\ node.ret = NULL /\ node.state # "STOPPING"
        /\ UNCHANGED <<thread, queue, current>>
    BY <1>2 DEF NodeLifeInv, N!DestroyNode
  <2>2. CASE node.state = "RUNNING"
    <3>1. node' = [node EXCEPT !.state = "STOPPING", !.onDestroyed = TRUE, !.stop = TRUE, !.ret = "OK"]
      BY <1>2, <2>2 DEF N!DestroyNode
    <3>2. thread = "running"
      BY <2>1, <2>2 DEF Lifetime
    <3>3. Lifetime'
      BY <2>1, <3>1, <3>2, NullAssumption DEF Lifetime
    <3> QED BY <1>1, <3>3 DEF NodeLifeInv
  <2>3. CASE node.state # "RUNNING"
    <3>1. node' = [node EXCEPT !.freed = 1, !.ret = "DESTROYED"]
      BY <1>2, <2>1, <2>3 DEF N!DestroyNode
    <3>2. thread = "none" /\ ~node.onDestroyed
      BY <2>1, <2>3, NullAssumption DEF Lifetime
    <3>3. Lifetime'
      BY <2>1, <2>3, <3>1, <3>2, NullAssumption DEF Lifetime
    <3> QED BY <1>1, <3>3 DEF NodeLifeInv
  <2> QED BY <2>2, <2>3
<1>3. CASE N!StopNodeTask
  BY <1>1, <1>3, NullAssumption DEF NodeLifeInv, Lifetime, N!StopNodeTask
<1>4. CASE N!Drain
  <2>1. Lifetime /\ thread = "stopping" /\ thread' = "draining" /\ queue = <<>> /\ current = NULL
        /\ UNCHANGED <<node, queue, current>>
    BY <1>4 DEF NodeLifeInv, N!Drain
  <2>2. Lifetime'
    BY <2>1, NullAssumption DEF Lifetime
  <2> QED BY <1>1, <2>2 DEF NodeLifeInv
<1>5. CASE N!NodeEnds
  <2>1. Lifetime /\ thread = "draining" /\ thread' = "ended" /\ UNCHANGED <<queue, current>>
    BY <1>5 DEF NodeLifeInv, N!NodeEnds
  <2>2. node.onDestroyed /\ node.called = 0 /\ node.freed = 0 /\ node.ret = "OK"
    BY <2>1, NullAssumption DEF Lifetime
  <2>3. node' = [node EXCEPT !.called = 1, !.freed = 1]
    BY <1>5, <2>2 DEF N!NodeEnds
  <2>4. Lifetime'
    BY <2>1, <2>2, <2>3, NullAssumption DEF Lifetime
  <2> QED BY <1>1, <2>4 DEF NodeLifeInv
<1> QED BY <1>2, <1>3, <1>4, <1>5

LEMMA NodeLifeStep == ASSUME NodeLifeInv, N!Next PROVE NodeLifeInv'
BY StartNodeKeeps, ScheduleKeeps, CancelKeeps, TakeKeeps, ReturnKeeps, NodeEndsKeeps DEF N!Next, N!LoopWork

LEMMA NodeLifeStutter == ASSUME NodeLifeInv, UNCHANGED nVars PROVE NodeLifeInv'
BY WaitingStays DEF NodeLifeInv, Lifetime, nVars

LEMMA NodeLifeHolds == ASSUME NodeLifeInv PROVE N!LivesOnce
<1>1. \A r \in Requests : runs[r] <= 1
  <2>1. \A r \in Requests : runs[r] \in {0, 1}
    BY DEF NodeLifeInv, Waiting
  <2> QED BY <2>1
<1>2. thread = "ended" => RequestsOf = {}
  BY DEF NodeLifeInv, Lifetime, RequestsOf, Queued
<1>3. thread = "ended" => \A r \in due : runs[r] = 1
  BY <1>2 DEF NodeLifeInv, Waiting
<1> QED BY <1>1, <1>3 DEF NodeLifeInv, Lifetime, N!LivesOnce

--------------------------------------------------------------------------------
(* The registration client: its functions, then one lemma per action. *)

\* What a request is before a callback goes on with it.
LiveReg(r) == r \in RegType /\ Fits(r.list) /\ r.st = "live" /\ ~r.aborted /\ r.calls = 0

\* Once it stopped at an assertion of libuv a request goes no further.
LEMMA AbortedPut ==
    ASSUME NEW r, LiveReg(r) PROVE Put([r EXCEPT !.aborted = TRUE])
BY DEF LiveReg, Put, RegType, Fits

\* A request goes on as long as its parts fit together.
LEMMA LivePut == ASSUME NEW r, LiveReg(r), Unfinished(r), Says(r) PROVE Put(r)
BY DEF LiveReg, Put

LEMMA RegCBKeeps ==
    ASSUME NEW r, LiveReg(r), Unfinished(r), Says(r),
           r.timer \in {"none", "closed"}, r.link \in {"none", "linked"}
    PROVE  Put(R!RegCB(r))
<1>1. CASE r.obj = "listed"
  <2> DEFINE d == [r EXCEPT !.obj = "destroyed", !.onDestroyed = "end"]
  <2>1. R!RegCB(r) = d
    BY <1>1 DEF R!RegCB
  <2>2. LiveReg(d)
    BY DEF LiveReg, RegType
  <2>3. Unfinished(d) /\ Says(d)
    BY <1>1 DEF LiveReg, RegType, Unfinished, Says
  <2> QED BY <2>1, <2>2, <2>3, LivePut
<1>2. CASE r.obj = "destroyed"
  <2>1. R!RegCB(r) = r
    BY <1>2 DEF R!RegCB
  <2> QED BY <2>1, LivePut
<1>3. CASE r.obj \in {"none", "gone"}
  <2> DEFINE d == [r EXCEPT !.st = "done", !.calls = 1]
  <2>1. R!RegCB(r) = d
    BY <1>3 DEF R!RegCB, R!DestroyReg, LiveReg, RegType
  <2>2. d \in RegType /\ Fits(d.list) /\ d.st = "done" /\ ~d.aborted /\ d.calls = 1
    BY DEF LiveReg, RegType
  <2>3. Unfinished(d) /\ Says(d) /\ d.obj = r.obj /\ d.timer = r.timer /\ d.link = r.link
    BY <1>3 DEF LiveReg, RegType, Unfinished, Says
  <2> HIDE DEF d
  <2> QED BY <1>3, <2>1, <2>2, <2>3 DEF Put
<1> QED BY <1>1, <1>2, <1>3 DEF LiveReg, RegType

LEMMA UnlinkKeeps ==
    ASSUME NEW r, NEW accepted \in BOOLEAN, LiveReg(r), Unfinished(r), Says(r),
           r.timer \in {"none", "closed"}, r.link \in {"none", "linked"}, r.onDestroyed # "end"
    PROVE  Put(R!Unlink(r, accepted))
<1>1. CASE r.link = "linked" /\ accepted
  <2> DEFINE d == [r EXCEPT !.link = "unlinking"]
  <2>1. R!Unlink(r, accepted) = d
    BY <1>1 DEF R!Unlink
  <2>2. LiveReg(d)
    BY DEF LiveReg, RegType
  <2>3. Unfinished(d) /\ Says(d)
    BY <1>1 DEF LiveReg, RegType, Unfinished, Says
  <2> QED BY <2>1, <2>2, <2>3, LivePut
<1>2. CASE ~(r.link = "linked" /\ accepted)
  <2>1. R!Unlink(r, accepted) = R!RegCB(r)
    BY <1>2 DEF R!Unlink
  <2> QED BY <2>1, RegCBKeeps
<1> QED BY <1>1, <1>2

LEMMA RegInit == ASSUME R!Init PROVE RegistrationInv
<1>1. Put(reg)
  BY SizesAssumption DEF R!Init, Put, RegType, Fits
<1>2. LinkToInv
  BY DEF R!Init, LinkToInv
<1> QED BY <1>1, <1>2 DEF RegistrationInv

LEMMA BeginKeeps == ASSUME Put(reg), NEW accepted \in BOOLEAN, R!Begin(accepted) PROVE Put(reg')
BY DEF R!Begin, Put, RegType, Fits, Unfinished, Says

\* A request whose callback runs.
LEMMA LiveIs == ASSUME Put(reg), R!Live PROVE LiveReg(reg) /\ Unfinished(reg) /\ Says(reg)
BY DEF R!Live, Put, LiveReg

LEMMA NotLinkedKeeps ==
    ASSUME Put(reg), R!Live, reg.link = "linking", NEW unlinks \in BOOLEAN
    PROVE  Put(R!NotLinked(unlinks))
<1> DEFINE r == [reg EXCEPT !.link = "none", !.status = "LINK"]
<1>1. LiveReg(reg) /\ Unfinished(reg) /\ Says(reg)
  BY LiveIs
<1>2. LiveReg(r)
  BY <1>1 DEF LiveReg, RegType
<1>3. Unfinished(r) /\ Says(r) /\ r.timer = "none" /\ r.link = "none" /\ r.onDestroyed # "end"
  BY <1>1 DEF LiveReg, RegType, Unfinished, Says
<1> HIDE DEF r
<1>4. Put(R!Unlink(r, unlinks))
  BY <1>2, <1>3, UnlinkKeeps
<1> QED BY <1>4 DEF r, R!NotLinked

LEMMA OnLinkedKeeps ==
    ASSUME Put(reg), NEW linked \in BOOLEAN, NEW published \in BOOLEAN, NEW unlinks \in BOOLEAN,
           R!OnLinkedPut(linked, published, unlinks) \/ R!OnLinkedGet(linked, unlinks)
    PROVE  Put(reg')
<1>1. R!Live /\ reg.link = "linking"
  BY DEF R!OnLinkedPut, R!OnLinkedGet
<1>2. LiveReg(reg) /\ Unfinished(reg) /\ Says(reg)
  BY <1>1, LiveIs
<1>3. CASE ~linked
  <2>1. reg' = R!NotLinked(unlinks)
    BY <1>3 DEF R!OnLinkedPut, R!OnLinkedGet
  <2> QED BY <1>1, <2>1, NotLinkedKeeps
<1>4. CASE linked /\ reg' = [R!Linked EXCEPT !.timer = "armed", !.status = "OK"]
  <2> DEFINE d == [reg EXCEPT !.link = "linked", !.obj = "listed", !.timer = "armed", !.status = "OK"]
  <2>1. reg' = d
    BY <1>2, <1>4 DEF R!Linked, LiveReg, RegType
  <2>2. LiveReg(d)
    BY <1>2, ZenonT(40) DEF LiveReg, RegType
  <2>3. Unfinished(d) /\ Says(d)
    BY <1>1, <1>2 DEF LiveReg, RegType, Unfinished, Says
  <2> QED BY <2>1, <2>2, <2>3, LivePut
<1>5. CASE linked /\ reg.op = "put" /\ reg' = R!Unlink([R!Linked EXCEPT !.status = "PUBLISH"], unlinks)
  <2> DEFINE d == [reg EXCEPT !.link = "linked", !.obj = "listed", !.status = "PUBLISH"]
  <2>1. [R!Linked EXCEPT !.status = "PUBLISH"] = d
    BY <1>2 DEF R!Linked, LiveReg, RegType
  <2>2. LiveReg(d)
    BY <1>2 DEF LiveReg, RegType
  <2>3. Unfinished(d) /\ Says(d) /\ d.timer = "none" /\ d.link = "linked" /\ d.onDestroyed # "end"
    BY <1>1, <1>2, <1>5 DEF LiveReg, RegType, Unfinished, Says
  <2> HIDE DEF d
  <2> QED BY <1>5, <2>1, <2>2, <2>3, UnlinkKeeps
<1> QED BY <1>3, <1>4, <1>5 DEF R!OnLinkedPut, R!OnLinkedGet

LEMMA CloseTimerKeeps ==
    ASSUME NEW r, NEW result \in {"OK", "TIMEOUT"}, LiveReg(r), Unfinished(r),
           r.timer = "armed" =>
             IF r.op = "put" THEN result = "OK" <=> r.answers > 0
             ELSE result = "OK" /\ r.result \in {"none", "OK"} /\ (r.link # "linking" => r.status \in {"LINK", "OK"})
    PROVE  Put(R!CloseTimer(r, result))
<1>1. CASE r.timer = "armed"
  <2> DEFINE d == [r EXCEPT !.timer = "closing", !.result = result]
  <2>1. R!CloseTimer(r, result) = d
    BY <1>1 DEF R!CloseTimer
  <2>2. LiveReg(d)
    BY DEF LiveReg, RegType
  <2>3. Unfinished(d) /\ Says(d)
    BY <1>1 DEF LiveReg, RegType, Unfinished, Says
  <2> QED BY <2>1, <2>2, <2>3, LivePut
<1>2. CASE r.timer # "armed"
  BY <1>2, AbortedPut DEF R!CloseTimer
<1> QED BY <1>1, <1>2

LEMMA OnPutAckKeeps == ASSUME Put(reg), R!OnPutAck PROVE Put(reg')
<1> DEFINE r == [reg EXCEPT !.answers = @ + 1]
<1>1. LiveReg(reg) /\ Unfinished(reg) /\ Says(reg) /\ reg.op = "put"
  BY LiveIs DEF R!OnPutAck
<1>2. LiveReg(r) /\ Unfinished(r) /\ r.op = "put" /\ r.answers > 0
  <2>1. LiveReg(r) /\ r.answers > 0 /\ r.op = "put"
    BY <1>1 DEF LiveReg, RegType
  <2>2. Unfinished(r)
    BY <1>1 DEF LiveReg, RegType, Unfinished
  <2> QED BY <2>1, <2>2
<1> HIDE DEF r
<1>3. Put(R!CloseTimer(r, "OK"))
  BY <1>2, CloseTimerKeeps
<1> QED BY <1>3 DEF R!OnPutAck, r

LEMMA OnTimeoutKeeps == ASSUME Put(reg), R!OnTimeout PROVE Put(reg')
<1>1. LiveReg(reg) /\ Unfinished(reg) /\ Says(reg) /\ reg.timer = "armed"
  BY LiveIs DEF R!OnTimeout
<1>2. CASE reg.op = "put"
  <2>1. reg.answers = 0
    BY <1>1, <1>2 DEF Says
  <2> QED BY <1>1, <1>2, <2>1, CloseTimerKeeps DEF R!OnTimeout
<1>3. CASE reg.op # "put"
  BY <1>1, <1>3, CloseTimerKeeps DEF R!OnTimeout, Says
<1> QED BY <1>2, <1>3

LEMMA RegTimerClosedKeeps == ASSUME Put(reg), NEW unlinks \in BOOLEAN, R!TimerClosed(unlinks) PROVE Put(reg')
<1> DEFINE r == [reg EXCEPT !.timer = "closed", !.status = reg.result]
<1>1. LiveReg(reg) /\ Unfinished(reg) /\ Says(reg) /\ reg.timer = "closing"
  BY LiveIs DEF R!TimerClosed
<1>2. reg.link = "linked" \/ reg.link = "none"
  BY <1>1 DEF LiveReg, RegType, Unfinished
<1>3. LiveReg(r)
  BY <1>1 DEF LiveReg, RegType, Unfinished
<1>4. Unfinished(r) /\ r.timer = "closed" /\ r.link = reg.link /\ r.onDestroyed # "end"
  BY <1>1 DEF LiveReg, RegType, Unfinished
<1>5. Says(r)
  BY <1>1 DEF LiveReg, RegType, Unfinished, Says
<1> HIDE DEF r
<1>6. Put(R!Unlink(r, unlinks))
  BY <1>2, <1>3, <1>4, <1>5, UnlinkKeeps
<1> QED BY <1>6 DEF R!TimerClosed, r

LEMMA OnUnlinkedKeeps == ASSUME Put(reg), R!OnUnlinked PROVE Put(reg')
<1> DEFINE r == [reg EXCEPT !.link = "none"]
<1>1. LiveReg(reg) /\ Unfinished(reg) /\ Says(reg) /\ reg.link = "unlinking"
  BY LiveIs DEF R!OnUnlinked
<1>2. LiveReg(r)
  BY <1>1 DEF LiveReg, RegType
<1>3. Unfinished(r) /\ Says(r) /\ r.timer \in {"none", "closed"} /\ r.link = "none"
  BY <1>1 DEF LiveReg, RegType, Unfinished, Says
<1> HIDE DEF r
<1>4. Put(R!RegCB(r))
  BY <1>2, <1>3, RegCBKeeps
<1> QED BY <1>4 DEF R!OnUnlinked, r

LEMMA OnDestroyedKeeps == ASSUME Put(reg), R!OnDestroyed PROVE Put(reg')
<1> DEFINE r == [reg EXCEPT !.obj = "gone"]
<1>1. LiveReg(reg) /\ Unfinished(reg) /\ Says(reg) /\ reg.obj = "destroyed"
  BY LiveIs DEF R!OnDestroyed
<1>2. LiveReg(r)
  BY <1>1 DEF LiveReg, RegType
<1>3. CASE reg.onDestroyed = "end"
  <2> DEFINE d == [reg EXCEPT !.obj = "gone", !.st = "done", !.calls = 1]
  <2>1. reg' = d
    <3>1. reg' = R!DestroyReg(r)
      BY <1>3 DEF R!OnDestroyed
    <3> HIDE DEF r
    <3>2. r.calls = 0 /\ r \in RegType
      BY <1>2 DEF LiveReg
    <3>3. R!DestroyReg(r) = [r EXCEPT !.st = "done", !.calls = 1]
      BY <3>2 DEF R!DestroyReg, RegType
    <3>4. [r EXCEPT !.st = "done", !.calls = 1] = d
      BY <1>1 DEF LiveReg, RegType, r
    <3> QED BY <3>1, <3>3, <3>4
  <2>2. d \in RegType /\ Fits(d.list) /\ d.st = "done" /\ ~d.aborted /\ d.calls = 1
    BY <1>1 DEF LiveReg, RegType
  <2>3. Unfinished(d) /\ Says(d) /\ d.obj = "gone" /\ d.timer \in {"none", "closed"}
        /\ d.link \notin {"linking", "unlinking"}
    BY <1>1, <1>3 DEF LiveReg, RegType, Unfinished, Says
  <2> HIDE DEF d
  <2> QED BY <2>1, <2>2, <2>3 DEF Put
<1>4. CASE reg.onDestroyed # "end"
  <2>1. reg' = R!CloseTimer(r, "OK") /\ reg.onDestroyed = "stopped" /\ reg.op = "get"
    BY <1>1, <1>4 DEF R!OnDestroyed, Unfinished
  <2>2. Unfinished(r) /\ r.op = "get" /\ r.result \in {"none", "OK"}
        /\ (r.link # "linking" => r.status \in {"LINK", "OK"})
    BY <1>1, <2>1 DEF LiveReg, RegType, Unfinished, Says
  <2> HIDE DEF r
  <2> QED BY <1>2, <2>1, <2>2, CloseTimerKeeps
<1> QED BY <1>3, <1>4

\* The loop of OnPub over the addresses of a registration.
StoreLoop == INSTANCE FoldTheorems WITH Op <- R!Store
GetReg == {r \in RegType : /\ LiveReg(r) /\ Unfinished(r) /\ Says(r) /\ r.op = "get"
                           /\ r.obj = "listed" \/ r.onDestroyed = "stopped"}

LEMMA StoreKeeps == ASSUME NEW r \in GetReg, NEW addr \in STRING PROVE R!Store(r, addr) \in GetReg
<1>1. /\ r \in RegType /\ LiveReg(r) /\ Unfinished(r) /\ Says(r) /\ r.op = "get"
      /\ r.obj = "listed" \/ r.onDestroyed = "stopped"
  BY DEF GetReg
<1>2. CASE r.onDestroyed = "stopped"
  BY <1>2 DEF R!Store
<1>3. CASE r.onDestroyed # "stopped" /\ Len(r.list) = Size
  <2> DEFINE d == [r EXCEPT !.obj = "destroyed", !.onDestroyed = "stopped"]
  <2>1. R!Store(r, addr) = d
    BY <1>3 DEF R!Store
  <2>2. LiveReg(d)
    BY <1>1 DEF LiveReg, RegType
  <2>3. Unfinished(d) /\ Says(d) /\ d.op = "get" /\ d.onDestroyed = "stopped"
    BY <1>1, <1>3 DEF LiveReg, RegType, Unfinished, Says
  <2> HIDE DEF d
  <2> QED BY <2>1, <2>2, <2>3 DEF GetReg, LiveReg
<1>4. CASE r.onDestroyed # "stopped" /\ Len(r.list) # Size /\ addr = "local"
  BY <1>4 DEF R!Store, R!IsLocalAddr
<1>5. CASE r.onDestroyed # "stopped" /\ Len(r.list) # Size /\ addr # "local"
  <2> DEFINE q == Append(r.list, addr)
             d == [r EXCEPT !.list = q]
  <2>1. R!Store(r, addr) = d
    BY <1>1, <1>5 DEF R!Store, R!IsLocalAddr, RegType
  <2>2. Fits(q)
    <3>1. Fits(r.list)
      BY <1>1 DEF LiveReg
    <3>2. q \in Seq(STRING) /\ Len(q) = Len(r.list) + 1 /\ q[Len(r.list) + 1] = addr
          /\ \A i \in 1 .. Len(r.list) : q[i] = r.list[i]
      BY <3>1 DEF Fits
    <3> HIDE DEF q
    <3>3. Len(q) <= Size
      BY <1>5, <3>1, <3>2, SizesAssumption DEF Fits
    <3>4. \A i \in 1 .. Len(q) : i = Len(r.list) + 1 \/ i \in 1 .. Len(r.list)
      BY <3>1, <3>2 DEF Fits
    <3> QED BY <1>5, <3>1, <3>2, <3>3, <3>4 DEF Fits
  <2>3. q \in Seq(STRING)
    BY <2>2 DEF Fits
  <2> HIDE DEF q
  <2>4. LiveReg(d)
    BY <1>1, <2>2, <2>3 DEF LiveReg, RegType
  <2>5. Unfinished(d) /\ Says(d) /\ d.op = "get" /\ d.obj = r.obj /\ d.onDestroyed = r.onDestroyed
    BY <1>1, <1>5 DEF LiveReg, RegType, Unfinished, Says
  <2> HIDE DEF d
  <2> QED BY <1>1, <2>1, <2>4, <2>5 DEF GetReg, LiveReg
<1> QED BY <1>2, <1>3, <1>4, <1>5

LEMMA OnPubKeeps == ASSUME Put(reg), NEW addrs \in Answers, R!OnPub(addrs) PROVE Put(reg')
<1> DEFINE r == [reg EXCEPT !.answers = @ + 1]
<1>1. LiveReg(reg) /\ Unfinished(reg) /\ Says(reg) /\ reg.op = "get" /\ reg.obj = "listed"
  BY LiveIs DEF R!OnPub
<1>2. r \in GetReg
  <2>1. LiveReg(r)
    BY <1>1 DEF LiveReg, RegType
  <2>2. Unfinished(r) /\ Says(r) /\ r.op = "get" /\ r.obj = "listed"
    BY <1>1 DEF LiveReg, RegType, Unfinished, Says
  <2> HIDE DEF r
  <2> QED BY <2>1, <2>2 DEF GetReg, LiveReg
<1>3. reg' = StoreLoop!Fold(r, addrs)
  BY Zenon DEF R!OnPub, R!FoldLeft, R!MapThenFoldSet, R!Max, StoreLoop!Fold, StoreLoop!Stepped,
               StoreLoop!Steps, StoreLoop!Top
<1> HIDE DEF r
<1>4. addrs \in Seq(STRING)
  BY AnswersAssumption
<1>5. \A d \in GetReg, addr \in STRING : R!Store(d, addr) \in GetReg
  BY StoreKeeps
<1>6. reg' \in GetReg
  BY <1>2, <1>3, <1>4, <1>5, StoreLoop!FoldStays
<1> QED BY <1>6, LivePut DEF GetReg

--------------------------------------------------------------------------------
(* DPS_Registration_LinkTo. *)

\* What flags and the call become when candidates are tried after last failed.
LEMMA TryKeeps ==
    ASSUME flags \in [Candidates -> {"UNTRIED", "TRYING", "FAILED", "LINKED"}],
           NEW last \in SUBSET Candidates, NEW failed, NEW chosen,
           failed \subseteq R!Untried, chosen = {} \/ \E c \in Candidates : chosen = {c},
           R!TryCandidates(failed, chosen, last), Made = {}, Trying = last
    PROVE  /\ flags' \in [Candidates -> {"UNTRIED", "TRYING", "FAILED", "LINKED"}]
           /\ Trying' = chosen /\ Made' = {}
           /\ chosen = {} => \A c \in Candidates : flags'[c] = "FAILED"
<1>1. flags' = [c \in Candidates |-> IF c \in chosen THEN "TRYING"
                                     ELSE IF c \in failed \cup last THEN "FAILED" ELSE flags[c]]
  BY DEF R!TryCandidates
<1>2. chosen \subseteq Candidates /\ chosen \cap last = {} /\ chosen \cap failed = {}
  BY DEF R!TryCandidates, R!Untried, Trying
<1>3. flags' \in [Candidates -> {"UNTRIED", "TRYING", "FAILED", "LINKED"}]
  BY <1>1
<1>4. Trying' = chosen
  <2>1. Trying' = {c \in Candidates : flags'[c] = "TRYING"}
    BY DEF Trying
  <2>2. \A c \in Candidates : flags'[c] = "TRYING" <=> c \in chosen
    BY <1>1 DEF Trying
  <2> QED BY <1>2, <2>1, <2>2
<1>5. Made' = {}
  <2>1. Made' = {c \in Candidates : flags'[c] = "LINKED"}
    BY DEF Made
  <2>2. \A c \in Candidates : flags'[c] # "LINKED"
    BY <1>1 DEF Made
  <2> QED BY <2>1, <2>2
<1>6. ASSUME chosen = {}, NEW c \in Candidates PROVE flags'[c] = "FAILED"
  <2>1. failed = R!Untried \ last
    BY <1>6 DEF R!TryCandidates
  <2>2. flags[c] # "LINKED" /\ (flags[c] = "TRYING" => c \in last) /\ (flags[c] = "UNTRIED" => c \in R!Untried)
    BY DEF Made, Trying, R!Untried
  <2> QED BY <1>1, <1>6, <2>1, <2>2
<1> QED BY <1>3, <1>4, <1>5, <1>6

LEMMA LinkToKeeps ==
    ASSUME LinkToInv, NEW failed, NEW chosen, chosen = {} \/ \E c \in Candidates : chosen = {c},
           R!LinkTo(failed, chosen)
    PROVE  LinkToInv'
<1>1. linkTo = [st |-> "none", calls |-> <<>>] /\ \A c \in Candidates : flags[c] = "UNTRIED"
  BY DEF LinkToInv, R!LinkTo
<1>2. Made = {} /\ Trying = {}
  BY <1>1 DEF Made, Trying
<1>3. /\ flags' \in [Candidates -> {"UNTRIED", "TRYING", "FAILED", "LINKED"}]
      /\ Trying' = chosen /\ Made' = {}
      /\ chosen = {} => \A c \in Candidates : flags'[c] = "FAILED"
  BY <1>2, TryKeeps DEF LinkToInv, R!LinkTo
<1>4. linkTo' = [st |-> IF chosen = {} THEN "refused" ELSE "live", calls |-> <<>>]
  BY <1>1 DEF R!LinkTo
<1>5. CASE chosen = {}
  BY <1>3, <1>4, <1>5 DEF LinkToInv
<1>6. CASE chosen # {}
  BY <1>3, <1>4, <1>6 DEF LinkToInv
<1> QED BY <1>5, <1>6

LEMMA OnCandidateKeeps ==
    ASSUME LinkToInv, NEW c \in Candidates, NEW linked \in BOOLEAN, NEW failed, NEW chosen,
           chosen = {} \/ \E d \in Candidates : chosen = {d}, R!OnCandidate(c, linked, failed, chosen)
    PROVE  LinkToInv'
<1>1. c \in Trying /\ flags \in [Candidates -> {"UNTRIED", "TRYING", "FAILED", "LINKED"}]
  BY DEF R!OnCandidate, Trying, LinkToInv
<1>2. linkTo = [st |-> "live", calls |-> <<>>] /\ Made = {} /\ Trying = {c}
  BY <1>1 DEF LinkToInv, Trying
<1>3. CASE linked
  <2>1. flags' = [flags EXCEPT ![c] = "LINKED"] /\ linkTo' = [st |-> "done", calls |-> <<"OK">>]
    BY <1>2, <1>3 DEF R!OnCandidate
  <2>2. Trying' = {}
    <3>1. \A d \in Candidates : flags'[d] # "TRYING"
      BY <1>1, <1>2, <2>1 DEF Trying
    <3> QED BY <3>1 DEF Trying
  <2>3. Made' = {c}
    <3>1. \A d \in Candidates : flags'[d] = "LINKED" <=> d = c
      BY <1>1, <1>2, <2>1 DEF Made
    <3> QED BY <3>1 DEF Made
  <2>4. flags' \in [Candidates -> {"UNTRIED", "TRYING", "FAILED", "LINKED"}]
    BY <1>1, <2>1
  <2> QED BY <2>1, <2>2, <2>3, <2>4 DEF LinkToInv
<1>4. CASE ~linked
  <2>1. R!TryCandidates(failed, chosen, {c}) /\ failed \subseteq R!Untried
    BY <1>4 DEF R!OnCandidate
  <2>2. /\ flags' \in [Candidates -> {"UNTRIED", "TRYING", "FAILED", "LINKED"}]
        /\ Trying' = chosen /\ Made' = {}
        /\ chosen = {} => \A d \in Candidates : flags'[d] = "FAILED"
    BY <1>1, <1>2, <2>1, TryKeeps
  <2>3. CASE chosen = {}
    <3>1. linkTo' = [st |-> "done", calls |-> <<"FAILED">>]
      BY <1>2, <1>4, <2>3 DEF R!OnCandidate
    <3> QED BY <2>2, <2>3, <3>1 DEF LinkToInv
  <2>4. CASE chosen # {}
    <3>1. linkTo' = [st |-> "live", calls |-> <<>>]
      BY <1>2, <1>4, <2>4 DEF R!OnCandidate
    <3> QED BY <2>2, <2>4, <3>1 DEF LinkToInv
  <2> QED BY <2>3, <2>4
<1> QED BY <1>3, <1>4

LEMMA RegistrationStep == ASSUME RegistrationInv, R!Next PROVE RegistrationInv'
<1>1. Put(reg) /\ LinkToInv
  BY DEF RegistrationInv
<1>2. ASSUME UNCHANGED <<flags, linkTo>> PROVE LinkToInv'
  BY <1>1, <1>2 DEF LinkToInv, Trying, Made
<1>3. ASSUME R!LoopWork PROVE RegistrationInv'
  <2>1. UNCHANGED <<flags, linkTo>>
    BY <1>3 DEF R!LoopWork, R!OnLinkedPut, R!OnLinkedGet, R!OnTimeout, R!OnUnlinked, R!OnDestroyed,
                R!TimerClosed, R!Live
  <2>2. Put(reg')
    BY <1>1, <1>3, OnLinkedKeeps, OnTimeoutKeeps, OnUnlinkedKeeps, OnDestroyedKeeps, RegTimerClosedKeeps
       DEF R!LoopWork
  <2> QED BY <1>2, <2>1, <2>2 DEF RegistrationInv
<1>4. ASSUME R!OnPutAck \/ (\E addrs \in Answers : R!OnPub(addrs))
             \/ (\E accepted \in BOOLEAN : R!Begin(accepted))
      PROVE  RegistrationInv'
  <2>1. UNCHANGED <<flags, linkTo>>
    BY <1>4 DEF R!OnPutAck, R!OnPub, R!Live, R!Begin
  <2>2. Put(reg')
    BY <1>1, <1>4, OnPutAckKeeps, OnPubKeeps, BeginKeeps
  <2> QED BY <1>2, <2>1, <2>2 DEF RegistrationInv
<1>5. \A chosen \in {{}} \cup {{x} : x \in Candidates} : chosen = {} \/ \E c \in Candidates : chosen = {c}
  OBVIOUS
<1>6. ASSUME R!Linking PROVE RegistrationInv'
  <2>1. LinkToInv' /\ reg' = reg
    BY <1>1, <1>5, <1>6, OnCandidateKeeps DEF R!Linking, R!OnCandidate
  <2> QED BY <1>1, <2>1 DEF RegistrationInv
<1>7. ASSUME NEW failed \in SUBSET Candidates, NEW chosen \in {{}} \cup {{x} : x \in Candidates},
             R!LinkTo(failed, chosen)
      PROVE  RegistrationInv'
  <2>1. LinkToInv' /\ reg' = reg
    BY <1>1, <1>5, <1>7, LinkToKeeps DEF R!LinkTo
  <2> QED BY <1>1, <2>1 DEF RegistrationInv
<1> QED BY <1>3, <1>4, <1>6, <1>7 DEF R!Next, R!Registration_Put, R!Registration_Get

LEMMA RegistrationStutter == ASSUME RegistrationInv, UNCHANGED rVars PROVE RegistrationInv'
BY DEF RegistrationInv, LinkToInv, Trying, Made, rVars

\* An instance has a Cardinality of its own.
LEMMA SameCardinality == \A S : R!Cardinality(S) = Cardinality(S) /\ D!Cardinality(S) = Cardinality(S)
BY Zenon DEF R!Cardinality, D!Cardinality, Cardinality

LEMMA RegistrationHolds == ASSUME RegistrationInv PROVE R!RegisteredOnce /\ R!LinksOnce
<1>1. Put(reg) /\ LinkToInv
  BY DEF RegistrationInv
<1>2. R!RegisteredOnce
  <2>1. Len(reg.list) <= Size /\ ~R!Contains(reg.list, "local")
    BY <1>1 DEF Put, Fits, R!Contains
  <2>2. ASSUME reg.st = "done"
        PROVE  (reg.status = "OK") = (IF reg.op = "put" THEN reg.answers > 0 ELSE reg.status # "LINK")
    <3>1. Says(reg) /\ Unfinished(reg) /\ reg \in RegType /\ reg.timer \in {"none", "closed"}
          /\ reg.link \notin {"linking", "unlinking"}
      BY <1>1, <2>2 DEF Put
    <3> QED BY <3>1 DEF Says
  <2> QED BY <1>1, <2>1, <2>2 DEF Put, R!RegisteredOnce
<1>3. R!LinksOnce
  <2> DEFINE T == {c \in Candidates : flags[c] \in {"TRYING", "LINKED"}}
  <2>1. T = Trying \cup Made
    BY DEF Trying, Made
  <2>2. T = {} \/ \E c \in Candidates : T = {c}
    BY <1>1, <2>1 DEF LinkToInv, Trying, Made
  <2>7. R!Cardinality(T) = Cardinality(T)
    BY SameCardinality
  <2>3. Cardinality(T) <= 1
    <3>1. CASE T = {}
      BY <3>1, FS_EmptySet
    <3>2. CASE \E c \in Candidates : T = {c}
      BY <3>2, FS_Singleton
    <3> QED BY <2>2, <3>1, <3>2
  <2> HIDE DEF T
  <2>4. linkTo.calls # <<>> => /\ Len(linkTo.calls) = 1
                               /\ linkTo.calls = <<"OK">> => \E c \in Candidates : flags[c] = "LINKED"
    BY <1>1 DEF LinkToInv, Made
  <2>5. linkTo.st = "refused" \/ linkTo.calls = <<"FAILED">> => \A c \in Candidates : flags[c] = "FAILED"
    BY <1>1 DEF LinkToInv
  <2>6. linkTo.st = "live" => \E c \in Candidates : flags[c] = "TRYING"
    BY <1>1 DEF LinkToInv, Trying
  <2>8. R!Cardinality({c \in Candidates : flags[c] \in {"TRYING", "LINKED"}}) <= 1
    BY <2>3, <2>7 DEF T
  <2> QED BY <2>4, <2>5, <2>6, <2>8 DEF R!LinksOnce
<1> QED BY <1>2, <1>3

--------------------------------------------------------------------------------
(* The discovery service: what its functions leave alone. *)

\* What taking the service apart, sending and counting references keep of state t.
Kept(t, u) ==
    /\ Typed(u)
    /\ u.service.wants = t.service.wants /\ u.service.handler = t.service.handler
    /\ u.service.publishes = t.service.publishes /\ u.service.hellos = t.service.hellos
    /\ u.service.sub = "listed" => t.service.sub = "listed"
    /\ u.service.timer = "armed" => t.service.timer = "armed"
    /\ u.service.st = "live" => t.service.st = "live"
    /\ u.requests = t.requests
    /\ \A m \in Discovered :
         /\ u.rx[m].st = t.rx[m].st /\ u.rx[m].linking = t.rx[m].linking /\ u.rx[m].sn = t.rx[m].sn
         /\ u.service.st = "live" => u.rx[m].linkSvc = t.rx[m].linkSvc

LEMMA KeptTrans == ASSUME NEW t, NEW u, NEW v, Kept(t, u), Kept(u, v) PROVE Kept(t, v)
BY DEF Kept

LEMMA KeptTyped == ASSUME NEW t, NEW u, Kept(t, u) PROVE Typed(u)
BY DEF Kept

LEMMA KeptTold == ASSUME NEW t, NEW u, Told(t), Kept(t, u) PROVE Told(u)
<1>1. Typed(u)
  BY DEF Kept
<1>2. Begun(u)
  BY DEF Told, Begun, Kept
<1>3. ASSUME NEW m \in Discovered PROVE Reported(u.service, m, u.rx[m])
  BY DEF Told, Reported, Kept
<1> QED BY <1>1, <1>2, <1>3 DEF Told

LEMMA KeptSelf == ASSUME NEW t, Typed(t) PROVE Kept(t, t)
BY DEF Kept

\* The parts of a state.
LEMMA Parts ==
    ASSUME NEW t, Typed(t)
    PROVE  /\ t.service \in ServiceType /\ t.buffer \in BufferType /\ t.sendQ \in Seq(Message)
           /\ t.sends \in SUBSET Message /\ IsFiniteSet(t.sends) /\ t.rx \in RxType
           /\ t.requests \in Seq(Request) /\ t.signalled \in SUBSET {"pubs", "free", "request"}
           /\ t = [service |-> t.service, buffer |-> t.buffer, sendQ |-> t.sendQ, sends |-> t.sends,
                   rx |-> t.rx, requests |-> t.requests, signalled |-> t.signalled]
BY DEF Typed, StateType

LEMMA SignalKeeps ==
    ASSUME NEW t, Typed(t), NEW a \in {"pubs", "free", "request"} PROVE Kept(t, D!Signal(t, a))
<1> DEFINE u == [t EXCEPT !.signalled = t.signalled \cup {a}]
<1>1. D!Signal(t, a) = u
  BY DEF D!Signal
<1>2. u \in StateType /\ u.sends = t.sends /\ u.service = t.service /\ u.rx = t.rx /\ u.requests = t.requests
  BY DEF Typed, StateType
<1> HIDE DEF u
<1> QED BY <1>1, <1>2 DEF Kept, Typed

LEMMA BufferKeeps ==
    ASSUME NEW t, Typed(t), NEW f \in BufferType PROVE Kept(t, [t EXCEPT !.buffer = f])
<1> DEFINE u == [t EXCEPT !.buffer = f]
<1>2. u \in StateType /\ u.sends = t.sends /\ u.service = t.service /\ u.rx = t.rx /\ u.requests = t.requests
  BY DEF Typed, StateType
<1> HIDE DEF u
<1>3. Kept(t, u)
  BY <1>2 DEF Kept, Typed
<1> QED BY <1>3 DEF u

LEMMA DecRefKeeps ==
    ASSUME NEW t, Typed(t), NEW b \in D!Maybe(D!Buffers) PROVE Kept(t, D!SharedBufferDecRef(t, b))
<1>1. CASE b = NULL
  BY <1>1, KeptSelf DEF D!SharedBufferDecRef
<1>2. CASE b # NULL
  <2> DEFINE e == t.buffer[b]
             f == [t.buffer EXCEPT ![b] = [refs |-> e.refs - 1, st |-> IF e.refs = 1 THEN "freed" ELSE e.st]]
  <2>1. b \in D!Buffers
    BY <1>2 DEF D!Maybe
  <2>2. t.buffer \in BufferType
    BY DEF Typed, StateType
  <2>3. f \in BufferType
    BY <2>1, <2>2 DEF BufferType
  <2>4. D!SharedBufferDecRef(t, b) = [t EXCEPT !.buffer = f]
    BY <1>2, <2>1, <2>2 DEF D!SharedBufferDecRef, Typed, StateType, BufferType
  <2> HIDE DEF f
  <2> QED BY <2>3, <2>4, BufferKeeps
<1> QED BY <1>1, <1>2

LEMMA IncRefKeeps ==
    ASSUME NEW t, Typed(t), NEW b \in D!Maybe(D!Buffers) PROVE Kept(t, D!SharedBufferIncRef(t, b))
<1>1. CASE b = NULL
  BY <1>1, KeptSelf DEF D!SharedBufferIncRef
<1>2. CASE b # NULL
  <2> DEFINE f == [t.buffer EXCEPT ![b].refs = @ + 1]
  <2>1. b \in D!Buffers
    BY <1>2 DEF D!Maybe
  <2>2. t.buffer \in BufferType
    BY DEF Typed, StateType
  <2>3. f \in BufferType
    BY <2>1, <2>2 DEF BufferType
  <2>4. D!SharedBufferIncRef(t, b) = [t EXCEPT !.buffer = f]
    BY <1>2, <2>1, <2>2 DEF D!SharedBufferIncRef, Typed, StateType, BufferType
  <2> HIDE DEF f
  <2> QED BY <2>3, <2>4, BufferKeeps
<1> QED BY <1>1, <1>2

LEMMA ServiceKeeps ==
    ASSUME NEW t, Typed(t), NEW v \in ServiceType,
           v.wants = t.service.wants, v.handler = t.service.handler,
           v.publishes = t.service.publishes, v.hellos = t.service.hellos,
           v.sub = "listed" => t.service.sub = "listed",
           v.timer = "armed" => t.service.timer = "armed",
           v.st = "live" => t.service.st = "live"
    PROVE  Kept(t, [t EXCEPT !.service = v])
<1> DEFINE u == [t EXCEPT !.service = v]
<1>1. u \in StateType /\ u.sends = t.sends /\ u.service = v /\ u.rx = t.rx /\ u.requests = t.requests
  BY DEF Typed, StateType
<1> HIDE DEF u
<1>2. Kept(t, u)
  BY <1>1 DEF Kept, Typed
<1> QED BY <1>2 DEF u

LEMMA QueueKeeps ==
    ASSUME NEW t, Typed(t), NEW q \in Seq(Message) PROVE Kept(t, [t EXCEPT !.sendQ = q])
<1> DEFINE u == [t EXCEPT !.sendQ = q]
<1>1. u \in StateType /\ u.sends = t.sends /\ u.service = t.service /\ u.rx = t.rx /\ u.requests = t.requests
  BY DEF Typed, StateType
<1> HIDE DEF u
<1>2. Kept(t, u)
  BY <1>1 DEF Kept, Typed
<1> QED BY <1>2 DEF u

LEMMA SendsKeep ==
    ASSUME NEW t, Typed(t), NEW S \in SUBSET Message, IsFiniteSet(S) PROVE Kept(t, [t EXCEPT !.sends = S])
<1> DEFINE u == [t EXCEPT !.sends = S]
<1>1. u \in StateType /\ u.sends = S /\ u.service = t.service /\ u.rx = t.rx /\ u.requests = t.requests
  BY DEF Typed, StateType
<1> HIDE DEF u
<1>2. Kept(t, u)
  BY <1>1 DEF Kept, Typed
<1> QED BY <1>2 DEF u

\* What Forget leaves of the service, and of a message that was received.
GoneService(e) == [e EXCEPT !.st = "freed", !.destroyed = e.destroyed + 1, !.payload = NULL]
Cut(e) == [e EXCEPT !.ackSvc = FALSE, !.linkSvc = FALSE]

LEMMA GoneServiceIs ==
    ASSUME NEW e \in ServiceType
    PROVE  /\ GoneService(e).st = "freed" /\ GoneService(e).destroyed = e.destroyed + 1
           /\ GoneService(e).payload = NULL /\ GoneService(e).wants = e.wants
           /\ GoneService(e).handler = e.handler /\ GoneService(e).sub = e.sub /\ GoneService(e).pub = e.pub
           /\ GoneService(e).timer = e.timer /\ GoneService(e).publishes = e.publishes
           /\ GoneService(e).hellos = e.hellos /\ GoneService(e).destroying = e.destroying
           /\ GoneService(e).refused = e.refused
BY DEF ServiceType, GoneService

LEMMA GoneServiceType == ASSUME NEW e \in ServiceType PROVE GoneService(e) \in ServiceType
<1>1. NULL \in D!Maybe(D!Buffers)
  BY DEF D!Maybe
<1>2. e.destroyed + 1 \in Nat
  BY DEF ServiceType
<1> QED BY <1>1, <1>2 DEF ServiceType, GoneService

LEMMA CutIs ==
    ASSUME NEW e \in RxEntry
    PROVE  /\ Cut(e) \in RxEntry /\ Cut(e).st = e.st /\ Cut(e).linking = e.linking /\ Cut(e).sn = e.sn
           /\ Cut(e).ack = e.ack /\ ~Cut(e).ackSvc /\ ~Cut(e).linkSvc
BY DEF RxEntry, Cut

LEMMA ForgetKeeps == ASSUME NEW t, Typed(t) PROVE Kept(t, D!Forget(t))
<1> DEFINE u == D!SharedBufferDecRef(t, t.service.payload)
           v == GoneService(u.service)
           r == [m \in Discovered |-> Cut(u.rx[m])]
           w == [u EXCEPT !.service = v, !.rx = r]
<1>1. t.service.payload \in D!Maybe(D!Buffers)
  BY Parts DEF ServiceType
<1>2. Kept(t, u)
  BY <1>1, DecRefKeeps
<1> HIDE DEF u
<1>3. Typed(u)
  BY <1>2, KeptTyped
<1>9. u.service \in ServiceType /\ u.rx \in RxType
  BY <1>3, Parts
<1>4. v \in ServiceType /\ v.wants = u.service.wants /\ v.handler = u.service.handler
      /\ v.publishes = u.service.publishes /\ v.hellos = u.service.hellos
      /\ v.sub = u.service.sub /\ v.timer = u.service.timer /\ v.st = "freed"
  BY <1>9, GoneServiceIs, GoneServiceType
<1>5. r \in RxType /\ \A m \in Discovered :
         r[m].st = u.rx[m].st /\ r[m].linking = u.rx[m].linking /\ r[m].sn = u.rx[m].sn
  <2>1. \A m \in Discovered : u.rx[m] \in RxEntry
    BY <1>9 DEF RxType
  <2>2. \A m \in Discovered : Cut(u.rx[m]) \in RxEntry /\ Cut(u.rx[m]).st = u.rx[m].st
           /\ Cut(u.rx[m]).linking = u.rx[m].linking /\ Cut(u.rx[m]).sn = u.rx[m].sn
    <3>1. \A e \in RxEntry : /\ Cut(e) \in RxEntry /\ Cut(e).st = e.st
                             /\ Cut(e).linking = e.linking /\ Cut(e).sn = e.sn
      BY CutIs
    <3> QED BY <2>1, <3>1, Zenon
  <2> QED BY <2>2 DEF RxType
<1> HIDE DEF v, r
<1>6. w \in StateType /\ w.sends = u.sends /\ w.service = v /\ w.rx = r /\ w.requests = u.requests
  BY <1>3, <1>4, <1>5 DEF Typed, StateType
<1>7. D!Forget(t) = w
  <2>1. D!Forget(t) = [u EXCEPT !.service.st = "freed", !.service.destroyed = u.service.destroyed + 1,
                                !.service.payload = NULL, !.rx = r]
    BY Zenon DEF D!Forget, u, r, Cut
  <2>4. u.service \in ServiceType /\ u \in StateType
    BY <1>3, <1>9 DEF Typed
  <2> QED BY <2>1, <2>4 DEF v, GoneService, StateType
<1> HIDE DEF w
<1>8. Kept(u, w)
  BY <1>3, <1>4, <1>5, <1>6 DEF Kept, Typed
<1> QED BY <1>2, <1>7, <1>8, KeptTrans

\* One turn of the loop that gives up what the queue holds.
Dropped(v, x) == D!SharedBufferDecRef(v, x.buf)
F == INSTANCE FoldTheorems WITH Op <- Dropped
Freed(t) == [t EXCEPT !.service.pub = "destroyed"]
Emptied(t) == [Freed(t) EXCEPT !.sendQ = <<>>]

LEMMA FreePubIs ==
    ASSUME NEW t
    PROVE  D!FreePub(t) = IF D!PubRefs(Freed(t)) # 0 THEN Freed(t)
                          ELSE D!Signal(F!Fold(Emptied(t), t.sendQ), "free")
BY Zenon DEF D!FreePub, D!FoldLeft, D!MapThenFoldSet, D!Max, F!Fold, F!Stepped, F!Steps, F!Top,
             Dropped, Freed, Emptied

LEMMA FreedKeeps == ASSUME NEW t, Typed(t) PROVE Kept(t, Freed(t))
<1> DEFINE v == [t.service EXCEPT !.pub = "destroyed"]
<1>1. v \in ServiceType /\ v.wants = t.service.wants /\ v.handler = t.service.handler
      /\ v.publishes = t.service.publishes /\ v.hellos = t.service.hellos
      /\ v.sub = t.service.sub /\ v.timer = t.service.timer /\ v.st = t.service.st
  BY Parts DEF ServiceType
<1>2. Freed(t) = [t EXCEPT !.service = v]
  BY DEF Freed
<1> HIDE DEF v
<1> QED BY <1>1, <1>2, ServiceKeeps

LEMMA FreePubKeeps == ASSUME NEW t, Typed(t) PROVE Kept(t, D!FreePub(t))
<1> DEFINE S == {u \in StateType : Kept(t, u)}
           w == F!Fold(Emptied(t), t.sendQ)
<1>1. Kept(t, Freed(t)) /\ Typed(Freed(t))
  BY FreedKeeps DEF Kept
<1>2. Kept(t, Emptied(t))
  <2>1. Kept(Freed(t), Emptied(t))
    <3>1. <<>> \in Seq(Message)
      OBVIOUS
    <3>2. Kept(Freed(t), [Freed(t) EXCEPT !.sendQ = <<>>])
      BY <1>1, <3>1, QueueKeeps
    <3> QED BY <3>2 DEF Emptied
  <2> QED BY <1>1, <2>1, KeptTrans
<1>3. Emptied(t) \in S
  BY <1>2 DEF Kept, Typed
<1>4. ASSUME NEW u \in S, NEW x \in Message PROVE Dropped(u, x) \in S
  <2>1. x.buf \in D!Maybe(D!Buffers)
    BY DEF Message
  <2>2. Kept(u, Dropped(u, x))
    BY <2>1, DecRefKeeps DEF Dropped, Kept
  <2> QED BY <2>2, KeptTrans DEF Kept, Typed
<1> HIDE DEF S
<1>5. t.sendQ \in Seq(Message)
  BY Parts
<1>6. w \in S
  BY <1>3, <1>4, <1>5, F!FoldStays
<1>7. Kept(t, w)
  BY <1>6 DEF S
<1> HIDE DEF w
<1>8. Kept(t, D!Signal(w, "free"))
  <2>1. Kept(w, D!Signal(w, "free"))
    BY <1>7, KeptTyped, SignalKeeps
  <2> QED BY <1>7, <2>1, KeptTrans
<1> QED BY <1>1, <1>8, FreePubIs DEF w

LEMMA DestroyKeeps == ASSUME NEW t, Typed(t) PROVE Kept(t, D!Destroy(t))
<1> DEFINE v == [t.service EXCEPT !.timer = "closing"]
           s == [t.service EXCEPT !.sub = "destroyed"]
<1>1. Kept(t, [t EXCEPT !.service = v])
  <2>1. v \in ServiceType /\ v.wants = t.service.wants /\ v.handler = t.service.handler
        /\ v.publishes = t.service.publishes /\ v.hellos = t.service.hellos
        /\ v.sub = t.service.sub /\ v.timer = "closing" /\ v.st = t.service.st
    BY Parts DEF ServiceType
  <2> HIDE DEF v
  <2> QED BY <2>1, ServiceKeeps
<1>2. Kept(t, D!Signal([t EXCEPT !.service = s], "free"))
  <2>1. s \in ServiceType /\ s.wants = t.service.wants /\ s.handler = t.service.handler
        /\ s.publishes = t.service.publishes /\ s.hellos = t.service.hellos
        /\ s.sub = "destroyed" /\ s.timer = t.service.timer /\ s.st = t.service.st
    BY Parts DEF ServiceType
  <2> HIDE DEF s
  <2>2. Kept(t, [t EXCEPT !.service = s])
    BY <2>1, ServiceKeeps
  <2> DEFINE u == [t EXCEPT !.service = s]
  <2> HIDE DEF u
  <2>3. Kept(u, D!Signal(u, "free")) /\ Kept(t, u)
    BY <2>2, KeptTyped, SignalKeeps DEF u
  <2>4. Kept(t, D!Signal(u, "free"))
    BY <2>3, KeptTrans
  <2> QED BY <2>4 DEF u
<1> QED BY <1>1, <1>2, KeptSelf, FreePubKeeps, ForgetKeeps DEF D!Destroy

LEMMA PublishedKeeps == ASSUME NEW t, Typed(t), NEW x \in Message PROVE Kept(t, D!Published(t, x))
<1>1. x.buf \in D!Maybe(D!Buffers)
  BY DEF Message
<1> QED BY <1>1, DestroyKeeps, DecRefKeeps DEF D!Published

LEMMA FreeSubsKeep == ASSUME NEW t, Typed(t) PROVE Kept(t, D!FreeSubs(t))
<1> DEFINE s == [t.service EXCEPT !.sub = "gone"]
<1>1. s \in ServiceType /\ s.wants = t.service.wants /\ s.handler = t.service.handler
      /\ s.publishes = t.service.publishes /\ s.hellos = t.service.hellos
      /\ s.sub = "gone" /\ s.timer = t.service.timer /\ s.st = t.service.st
  BY Parts DEF ServiceType
<1> HIDE DEF s
<1>2. Kept(t, [t EXCEPT !.service = s])
  BY <1>1, ServiceKeeps
<1>3. Kept(t, D!Destroy([t EXCEPT !.service = s]))
  <2> DEFINE u == [t EXCEPT !.service = s]
  <2> HIDE DEF u
  <2>3. Kept(u, D!Destroy(u)) /\ Kept(t, u)
    BY <1>2, KeptTyped, DestroyKeeps DEF u
  <2>4. Kept(t, D!Destroy(u))
    BY <2>3, KeptTrans
  <2> QED BY <2>4 DEF u
<1> QED BY <1>3, KeptSelf DEF D!FreeSubs, s

LEMMA FreePubsKeep == ASSUME NEW t, Typed(t) PROVE Kept(t, D!FreePubs(t))
<1> DEFINE s == [t.service EXCEPT !.pub = "gone"]
<1>1. s \in ServiceType /\ s.wants = t.service.wants /\ s.handler = t.service.handler
      /\ s.publishes = t.service.publishes /\ s.hellos = t.service.hellos
      /\ s.sub = t.service.sub /\ s.timer = t.service.timer /\ s.st = t.service.st
  BY Parts DEF ServiceType
<1> HIDE DEF s
<1>2. Kept(t, [t EXCEPT !.service = s])
  BY <1>1, ServiceKeeps
<1>3. Kept(t, D!Destroy([t EXCEPT !.service = s]))
  <2> DEFINE u == [t EXCEPT !.service = s]
  <2> HIDE DEF u
  <2>3. Kept(u, D!Destroy(u)) /\ Kept(t, u)
    BY <1>2, KeptTyped, DestroyKeeps DEF u
  <2>4. Kept(t, D!Destroy(u))
    BY <2>3, KeptTrans
  <2> QED BY <2>4 DEF u
<1> QED BY <1>3, KeptSelf DEF D!FreePubs, s

\* What is counted of a set or a queue.
LEMMA Image ==
    ASSUME NEW S, IsFiniteSet(S), NEW f, f = [x \in S |-> f[x]]
    PROVE  IsFiniteSet({f[x] : x \in S}) /\ Cardinality({f[x] : x \in S}) <= Cardinality(S)
<1> DEFINE T == {f[x] : x \in S}
<1>1. f \in Surjection(S, T)
  BY DEF Surjection
<1> HIDE DEF T
<1>2. IsFiniteSet(T) /\ Cardinality(T) <= Cardinality(S)
  BY <1>1, FS_Surjection
<1> QED BY <1>2 DEF T

LEMMA QueueSet ==
    ASSUME NEW E, NEW q \in Seq(E)
    PROVE  /\ D!ToSet(q) \in SUBSET E /\ IsFiniteSet(D!ToSet(q)) /\ Cardinality(D!ToSet(q)) <= Len(q)
           /\ \A i \in DOMAIN q : q[i] \in D!ToSet(q)
           /\ \A x \in D!ToSet(q) : \E i \in DOMAIN q : x = q[i]
<1>1. q = [i \in 1 .. Len(q) |-> q[i]] /\ Len(q) \in Nat /\ DOMAIN q = 1 .. Len(q)
  OBVIOUS
<1>2. IsFiniteSet(1 .. Len(q)) /\ Cardinality(1 .. Len(q)) = Len(q)
  <2>1. 1 \in Int /\ Len(q) \in Int /\ (IF 1 > Len(q) THEN 0 ELSE Len(q) - 1 + 1) = Len(q)
    BY <1>1
  <2> QED BY <2>1, FS_Interval
<1>3. IsFiniteSet({q[i] : i \in 1 .. Len(q)}) /\ Cardinality({q[i] : i \in 1 .. Len(q)}) <= Len(q)
  BY <1>1, <1>2, Image
<1>4. D!ToSet(q) = {q[i] : i \in 1 .. Len(q)}
  BY <1>1 DEF D!ToSet
<1> QED BY <1>1, <1>3, <1>4

\* There is always a number that no message has.
LEMMA TagFresh ==
    ASSUME NEW t, Typed(t)
    PROVE  D!Tag(t) \in Nat /\ \A x \in t.sends \cup D!ToSet(t.sendQ) : x.n # D!Tag(t)
<1> DEFINE S == t.sends \cup D!ToSet(t.sendQ)
           k == Cardinality(t.sends) + Len(t.sendQ)
           f == [x \in S |-> x.n]
           T == {f[x] : x \in S}
<1>1. /\ IsFiniteSet(t.sends) /\ t.sendQ \in Seq(Message) /\ Len(t.sendQ) \in Nat
      /\ Cardinality(t.sends) \in Nat
  BY Parts, FS_CardinalityType
<1>2. /\ IsFiniteSet(D!ToSet(t.sendQ)) /\ Cardinality(D!ToSet(t.sendQ)) <= Len(t.sendQ)
      /\ Cardinality(D!ToSet(t.sendQ)) \in Nat
  BY <1>1, QueueSet, FS_CardinalityType
<1>3. IsFiniteSet(S) /\ Cardinality(S) <= k /\ Cardinality(S) \in Nat /\ k \in Nat
  <2>1. IsFiniteSet(S) /\ IsFiniteSet(t.sends \cap D!ToSet(t.sendQ))
        /\ Cardinality(S) = Cardinality(t.sends) + Cardinality(D!ToSet(t.sendQ))
                            - Cardinality(t.sends \cap D!ToSet(t.sendQ))
    BY <1>1, <1>2, FS_Union, FS_Intersection
  <2>2. Cardinality(t.sends \cap D!ToSet(t.sendQ)) \in Nat /\ Cardinality(S) \in Nat
    BY <2>1, FS_CardinalityType
  <2> QED BY <1>1, <1>2, <2>1, <2>2
<1> HIDE DEF S, k
<1>4. f = [x \in S |-> f[x]]
  OBVIOUS
<1> HIDE DEF f
<1>5. IsFiniteSet(T) /\ Cardinality(T) <= Cardinality(S)
  BY <1>3, <1>4, Image
<1> HIDE DEF T
<1>6. Cardinality(T) \in Nat
  BY <1>5, FS_CardinalityType
<1>7. \E n \in 1 .. k + 1 : n \notin T
  <2> SUFFICES ASSUME \A n \in 1 .. k + 1 : n \in T PROVE FALSE
    OBVIOUS
  <2>1. (1 .. k + 1) \in SUBSET T
    OBVIOUS
  <2>2. Cardinality(1 .. k + 1) <= Cardinality(T)
    BY <1>5, <2>1, FS_Subset
  <2>3. Cardinality(1 .. k + 1) = k + 1
    BY <1>3, FS_Interval
  <2> QED BY <1>3, <1>5, <1>6, <2>2, <2>3
<1>8. \E n \in 1 .. k + 1 : \A x \in S : x.n # n
  <2>1. \A x \in S : x.n \in T
    BY DEF T, f
  <2> QED BY <1>7, <2>1
<1>9. D!Tag(t) = CHOOSE n \in 1 .. k + 1 : \A x \in S : x.n # n
  BY Zenon, SameCardinality DEF D!Tag, k, S
<1>10. D!Tag(t) \in 1 .. k + 1 /\ \A x \in S : x.n # D!Tag(t)
  BY <1>8, <1>9, Zenon
<1> QED BY <1>3, <1>10 DEF S

LEMMA MessageType ==
    ASSUME NEW t, Typed(t), NEW kind \in {"hello", "goodbye", "ack"}, NEW b \in D!Maybe(D!Buffers)
    PROVE  /\ D!Message(t, kind, b) \in Message /\ D!Message(t, kind, b).kind = kind
           /\ D!Message(t, kind, b).buf = b /\ D!Message(t, kind, b).n = D!Tag(t)
<1>1. D!Tag(t) \in Nat
  BY TagFresh
<1> HIDE DEF D!Tag
<1> QED BY <1>1 DEF D!Message, Message

--------------------------------------------------------------------------------
(* The discovery service reports what it discovers once. *)

\* A step that takes the service apart, sends or gives up payloads.
LEMMA StateTyped == ASSUME ToldInv PROVE Typed(D!State) /\ Told(D!State)
BY DEF ToldInv, Told

LEMMA Lost == ASSUME NEW t, Typed(t), NEW a PROVE Kept(t, [t EXCEPT !.signalled = @ \ {a}])
<1> DEFINE u == [t EXCEPT !.signalled = t.signalled \ {a}]
<1>1. u \in StateType /\ u.sends = t.sends /\ u.service = t.service /\ u.rx = t.rx /\ u.requests = t.requests
  BY DEF Typed, StateType
<1> HIDE DEF u
<1>2. Kept(t, u)
  BY <1>1 DEF Kept, Typed
<1> QED BY <1>2 DEF u

\* What Refuse notes before the publication's callback is called.
Noted(t, x) == [t EXCEPT !.service.refused = @ \/ x.kind = "goodbye"]

LEMMA NotedIs ==
    ASSUME NEW t, Typed(t), NEW x \in Message
    PROVE  /\ Typed(Noted(t, x)) /\ Kept(t, Noted(t, x))
           /\ Noted(t, x) = [t EXCEPT !.service = [t.service EXCEPT !.refused = @ \/ x.kind = "goodbye"]]
           /\ Noted(t, x).service = [t.service EXCEPT !.refused = @ \/ x.kind = "goodbye"]
           /\ Noted(t, x).service \in ServiceType
           /\ Noted(t, x).service.refused = (t.service.refused \/ x.kind = "goodbye")
<1> DEFINE v == [t.service EXCEPT !.refused = @ \/ x.kind = "goodbye"]
<1>1. t.service \in ServiceType
  BY Parts
<1>2. /\ v \in ServiceType /\ v.wants = t.service.wants /\ v.handler = t.service.handler
      /\ v.publishes = t.service.publishes /\ v.hellos = t.service.hellos /\ v.sub = t.service.sub
      /\ v.timer = t.service.timer /\ v.st = t.service.st
      /\ v.refused = (t.service.refused \/ x.kind = "goodbye")
  BY <1>1 DEF ServiceType
<1>3. Noted(t, x) = [t EXCEPT !.service = v]
  BY Zenon DEF Noted
<1>4. [t EXCEPT !.service = v].service = v
  BY DEF Typed, StateType
<1> HIDE DEF v
<1>5. Kept(t, [t EXCEPT !.service = v])
  BY <1>2, ServiceKeeps
<1>6. Typed([t EXCEPT !.service = v])
  BY <1>5, KeptTyped
<1> QED BY <1>2, <1>3, <1>4, <1>5, <1>6 DEF v

LEMMA MulticastKeeps ==
    ASSUME NEW t, Typed(t), NEW r \in [msg : Message, refused : BOOLEAN] PROVE Kept(t, D!Multicast(t, r))
<1>1. r.msg \in Message
  OBVIOUS
<1>2. CASE r.refused
  <2> DEFINE n == Noted(t, r.msg)
  <2>1. Kept(t, n) /\ Typed(n)
    BY <1>1, NotedIs
  <2>2. D!Multicast(t, r) = D!Published(n, r.msg)
    BY <1>2 DEF D!Multicast, D!Refuse, Noted
  <2> HIDE DEF n
  <2>3. Kept(n, D!Published(n, r.msg))
    BY <1>1, <2>1, PublishedKeeps
  <2> QED BY <2>1, <2>2, <2>3, KeptTrans
<1>3. CASE ~r.refused
  <2> DEFINE S == t.sends \cup {r.msg}
  <2>1. S \in SUBSET Message /\ IsFiniteSet(S)
    <3>1. t.sends \in SUBSET Message /\ IsFiniteSet(t.sends)
      BY Parts
    <3>2. IsFiniteSet(t.sends \cup {r.msg})
      BY <3>1, FS_AddElement
    <3> QED BY <1>1, <3>1, <3>2
  <2>2. D!Multicast(t, r) = [t EXCEPT !.sends = S]
    BY <1>3 DEF D!Multicast
  <2> HIDE DEF S
  <2> QED BY <2>1, <2>2, SendsKeep
<1> QED BY <1>2, <1>3

M == INSTANCE FoldTheorems WITH Op <- D!Multicast
\* What the queue holds, and what of it is refused.
Outgoing(q, refused) == [i \in DOMAIN q |-> [msg |-> q[i], refused |-> i \in refused]]
Taken == [D!State EXCEPT !.sendQ = <<>>, !.signalled = @ \ {"pubs"}]

LEMMA SendPubsIs ==
    ASSUME D!SendPubs
    PROVE  /\ "pubs" \in dsignalled /\ D!Visit("pubs")
           /\ \E refused \in SUBSET DOMAIN dsendQ :
                /\ \A i \in refused : dsendQ[i].kind \in Refusable
                /\ D!Becomes(M!Fold(Taken, Outgoing(dsendQ, refused)))
BY Zenon DEF D!SendPubs, D!FoldLeft, D!MapThenFoldSet, D!Max, M!Fold, M!Stepped, M!Steps, M!Top,
             Outgoing, Taken

LEMMA OutgoingType ==
    ASSUME NEW q \in Seq(Message), NEW refused
    PROVE  /\ Outgoing(q, refused) \in Seq([msg : Message, refused : BOOLEAN])
           /\ Len(Outgoing(q, refused)) = Len(q)
           /\ \A i \in DOMAIN q : /\ Outgoing(q, refused)[i].msg = q[i]
                                  /\ Outgoing(q, refused)[i].refused = (i \in refused)
<1>1. DOMAIN q = 1 .. Len(q) /\ Len(q) \in Nat
  OBVIOUS
<1>2. Outgoing(q, refused) = [i \in 1 .. Len(q) |-> [msg |-> q[i], refused |-> i \in refused]]
  BY <1>1 DEF Outgoing
<1>3. \A i \in 1 .. Len(q) : [msg |-> q[i], refused |-> i \in refused] \in [msg : Message, refused : BOOLEAN]
  BY <1>1
<1> QED BY <1>1, <1>2, <1>3

LEMMA BecomesTold ==
    ASSUME NEW t, Told(t), t.service.publishes = dservice.publishes, D!Becomes(t)
    PROVE  Told(D!State') /\ dservice'.publishes = dservice.publishes
<1>1. Typed(t)
  BY DEF Told
<1>2. D!State' = t
  BY <1>1, Parts DEF D!State, D!Becomes
<1>3. dservice' = t.service
  BY DEF D!Becomes
<1> QED BY <1>2, <1>3

LEMMA BecomesKept ==
    ASSUME NEW t, Told(D!State), Kept(D!State, t), D!Becomes(t)
    PROVE  Told(D!State') /\ dservice'.publishes = dservice.publishes
<1>1. Told(t)
  BY KeptTold
<1>2. t.service.publishes = dservice.publishes
  BY DEF Kept, D!State
<1> QED BY <1>1, <1>2, BecomesTold

LEMMA SendPubsKeeps == ASSUME ToldInv, D!SendPubs PROVE Told(D!State') /\ dservice'.publishes = dservice.publishes
<1> DEFINE S == {u \in StateType : Kept(D!State, u)}
<1>1. Typed(D!State) /\ Told(D!State)
  BY StateTyped
<1>2. PICK refused \in SUBSET DOMAIN dsendQ : D!Becomes(M!Fold(Taken, Outgoing(dsendQ, refused)))
  BY SendPubsIs
<1> DEFINE w == M!Fold(Taken, Outgoing(dsendQ, refused))
<1>3. Taken \in S
  <2> DEFINE u == [D!State EXCEPT !.sendQ = <<>>]
  <2>1. <<>> \in Seq(Message)
    OBVIOUS
  <2>2. Kept(D!State, u)
    BY <1>1, <2>1, QueueKeeps
  <2>3. Taken = [u EXCEPT !.signalled = @ \ {"pubs"}]
    BY DEF Taken, D!State
  <2> HIDE DEF u
  <2>4. Kept(u, Taken)
    BY <2>2, <2>3, KeptTyped, Lost
  <2>5. Kept(D!State, Taken) /\ Typed(Taken)
    BY <2>2, <2>4, KeptTrans, KeptTyped
  <2> QED BY <2>5 DEF Typed
<1>4. ASSUME NEW u \in S, NEW r \in [msg : Message, refused : BOOLEAN] PROVE D!Multicast(u, r) \in S
  <2>1. Kept(D!State, u) /\ Typed(u)
    BY KeptTyped
  <2>2. Kept(u, D!Multicast(u, r))
    BY <2>1, MulticastKeeps
  <2>3. Kept(D!State, D!Multicast(u, r)) /\ Typed(D!Multicast(u, r))
    BY <2>1, <2>2, KeptTrans, KeptTyped
  <2> QED BY <2>3 DEF Typed
<1> HIDE DEF S
<1>5. Outgoing(dsendQ, refused) \in Seq([msg : Message, refused : BOOLEAN])
  <2>1. dsendQ \in Seq(Message)
    BY <1>1, Parts DEF D!State
  <2> QED BY <2>1, OutgoingType
<1>6. w \in S
  BY <1>3, <1>4, <1>5, M!FoldStays
<1>7. Kept(D!State, w)
  BY <1>6 DEF S
<1> HIDE DEF w
<1> QED BY <1>1, <1>2, <1>7, BecomesKept DEF w

LEMMA FreeTaskKeeps == ASSUME ToldInv, D!FreeTask PROVE Told(D!State') /\ dservice'.publishes = dservice.publishes
<1> DEFINE t == [D!State EXCEPT !.signalled = @ \ {"free"}]
           u == D!FreeSubs(t)
           w == D!FreePubs(u)
<1>1. Typed(D!State) /\ Told(D!State)
  BY StateTyped
<1>2. Kept(D!State, t) /\ Typed(t)
  BY <1>1, Lost, KeptTyped
<1> HIDE DEF t
<1>3. Kept(t, u) /\ Typed(u)
  BY <1>2, FreeSubsKeep, KeptTyped
<1> HIDE DEF u
<1>4. Kept(u, w)
  BY <1>3, FreePubsKeep
<1>5. Kept(D!State, u)
  BY <1>2, <1>3, KeptTrans
<1>6. Kept(D!State, w)
  BY <1>4, <1>5, KeptTrans
<1>8. D!Becomes(w)
  BY Zenon DEF D!FreeTask, t, u, w
<1> QED BY <1>1, <1>6, <1>8, BecomesKept

\* What became of a message, all others being as they should.
ToldBut(t, m) ==
    Typed(t) /\ Begun(t) /\ \A x \in Discovered : x # m => Reported(t.service, x, t.rx[x])

LEMMA RxTold ==
    ASSUME NEW t, NEW m \in Discovered, ToldBut(t, m), NEW e \in RxEntry
    PROVE  /\ ToldBut([t EXCEPT !.rx[m] = e], m) /\ [t EXCEPT !.rx[m] = e].service = t.service
           /\ [t EXCEPT !.rx[m] = e].rx[m] = e
           /\ Reported(t.service, m, e) => Told([t EXCEPT !.rx[m] = e])
<1> DEFINE f == [t.rx EXCEPT ![m] = e]
           u == [t EXCEPT !.rx = f]
<1>1. Typed(t) /\ t.rx \in RxType
  BY Parts DEF ToldBut
<1>2. f \in RxType /\ f[m] = e /\ \A x \in Discovered : x # m => f[x] = t.rx[x]
  BY <1>1 DEF RxType
<1>3. u = [t EXCEPT !.rx[m] = e]
  BY Zenon
<1> HIDE DEF f
<1>4. u \in StateType /\ u.sends = t.sends /\ u.service = t.service /\ u.requests = t.requests /\ u.rx = f
  BY <1>1, <1>2 DEF Typed, StateType
<1> HIDE DEF u
<1>5. Typed(u) /\ Begun(u)
  BY <1>1, <1>4 DEF Typed, ToldBut, Begun
<1>6. ASSUME NEW x \in Discovered, x # m PROVE Reported(u.service, x, u.rx[x])
  <2>1. Reported(t.service, x, t.rx[x])
    BY <1>6 DEF ToldBut
  <2> QED BY <1>2, <1>4, <1>6, <2>1
<1>7. ToldBut(u, m) /\ u.service = t.service /\ u.rx[m] = e
  BY <1>2, <1>4, <1>5, <1>6 DEF ToldBut
<1>8. Reported(t.service, m, e) => Told(u)
  BY <1>7 DEF ToldBut, Told
<1> QED BY <1>3, <1>7, <1>8

LEMMA ToldBoth ==
    ASSUME NEW t, NEW m \in Discovered
    PROVE  Told(t) <=> ToldBut(t, m) /\ Reported(t.service, m, t.rx[m])
BY DEF Told, ToldBut

LEMMA WithRequests ==
    ASSUME NEW t, Typed(t), NEW q \in Seq(Request)
    PROVE  LET u == [t EXCEPT !.requests = q]
           IN  /\ u \in StateType /\ u.sends = t.sends /\ u.service = t.service /\ u.rx = t.rx
               /\ u.requests = q /\ u.buffer = t.buffer /\ u.sendQ = t.sendQ /\ u.signalled = t.signalled
BY DEF Typed, StateType

LEMMA WithService ==
    ASSUME NEW t, Typed(t), NEW v \in ServiceType
    PROVE  LET u == [t EXCEPT !.service = v]
           IN  /\ u \in StateType /\ u.sends = t.sends /\ u.service = v /\ u.rx = t.rx
               /\ u.requests = t.requests /\ u.buffer = t.buffer /\ u.sendQ = t.sendQ /\ u.signalled = t.signalled
BY DEF Typed, StateType

X == INSTANCE FoldTheorems WITH Op <- D!Run
Ran == [D!State EXCEPT !.requests = <<>>, !.signalled = @ \ {"request"}]

LEMMA RunRequestsIs ==
    ASSUME D!RunRequests
    PROVE  "request" \in dsignalled /\ D!Visit("request") /\ D!Becomes(X!Fold(Ran, drequests))
BY Zenon DEF D!RunRequests, D!FoldLeft, D!MapThenFoldSet, D!Max, X!Fold, X!Stepped, X!Steps, X!Top, Ran

LEMMA StartTimerTold ==
    ASSUME NEW t, Told(t), t.service.publishes > 0
    PROVE  Told(D!StartTimer(t)) /\ D!StartTimer(t).service.publishes = t.service.publishes
<1>1. CASE t.service.timer = "closing" \/ t.service.st = "freed"
  BY <1>1 DEF D!StartTimer
<1>2. CASE ~(t.service.timer = "closing" \/ t.service.st = "freed")
  <2> DEFINE v == [t.service EXCEPT !.timer = "armed"]
             u == [t EXCEPT !.service = v]
  <2>1. Typed(t) /\ t.service \in ServiceType
    BY Parts DEF Told
  <2>2. /\ v \in ServiceType /\ v.wants = t.service.wants /\ v.handler = t.service.handler
        /\ v.publishes = t.service.publishes /\ v.hellos = t.service.hellos /\ v.sub = t.service.sub
        /\ v.st = t.service.st
    BY <2>1 DEF ServiceType
  <2>3. D!StartTimer(t) = u
    BY <1>2 DEF D!StartTimer
  <2> HIDE DEF v
  <2>4. u \in StateType /\ u.sends = t.sends /\ u.service = v /\ u.rx = t.rx /\ u.requests = t.requests
    BY <2>1, <2>2 DEF Typed, StateType
  <2> HIDE DEF u
  <2>5. Typed(u) /\ Begun(u)
    BY <2>1, <2>2, <2>4 DEF Typed, Told, Begun, ServiceType
  <2>6. ASSUME NEW m \in Discovered PROVE Reported(u.service, m, u.rx[m])
    <3>1. Reported(t.service, m, t.rx[m])
      BY DEF Told
    <3> HIDE DEF v
    <3> QED BY <2>2, <2>4, <3>1 DEF Reported
  <2> QED BY <2>2, <2>3, <2>4, <2>5, <2>6 DEF Told
<1> QED BY <1>1, <1>2

\* The parts of what became of a message, one of them replaced.
WithAck(e, a) == [e EXCEPT !.ack = a]
LEMMA WithAckIs ==
    ASSUME NEW e \in RxEntry, NEW a \in {"none", "requested", "timer", "done"}
    PROVE  /\ WithAck(e, a) \in RxEntry /\ WithAck(e, a).st = e.st /\ WithAck(e, a).linking = e.linking
           /\ WithAck(e, a).sn = e.sn /\ WithAck(e, a).ack = a /\ WithAck(e, a).ackSvc = e.ackSvc
           /\ WithAck(e, a).linkSvc = e.linkSvc
BY DEF RxEntry, WithAck

LEMMA DelayAckTold ==
    ASSUME NEW t, Told(t), NEW m \in Discovered
    PROVE  Told(D!DelayAck(t, m)) /\ D!DelayAck(t, m).service = t.service
<1> DEFINE a == IF t.rx[m].ackSvc THEN "timer" ELSE "done"
           e == WithAck(t.rx[m], a)
<1>1. Typed(t) /\ t.rx \in RxType /\ t.rx[m] \in RxEntry /\ Reported(t.service, m, t.rx[m])
  BY Parts DEF Told, RxType
<1>2. a \in {"none", "requested", "timer", "done"}
  OBVIOUS
<1>3. D!DelayAck(t, m) = [t EXCEPT !.rx[m] = e]
  BY <1>1 DEF D!DelayAck, WithAck, Typed, StateType, RxType
<1> HIDE DEF a
<1>4. /\ e \in RxEntry /\ e.st = t.rx[m].st /\ e.linking = t.rx[m].linking /\ e.sn = t.rx[m].sn
      /\ e.linkSvc = t.rx[m].linkSvc
  BY <1>1, <1>2, WithAckIs
<1> HIDE DEF e
<1>5. Reported(t.service, m, e)
  BY <1>1, <1>4 DEF Reported
<1> QED BY <1>3, <1>4, <1>5, RxTold, ToldBoth

LEMMA RunTold ==
    ASSUME NEW t, Told(t), NEW r \in Request, r.k = "start" => t.service.publishes > 0
    PROVE  Told(D!Run(t, r)) /\ D!Run(t, r).service.publishes = t.service.publishes
<1>1. CASE r.k = "start"
  BY <1>1, StartTimerTold DEF D!Run
<1>2. CASE r.k = "ack"
  <2>1. r.m \in Discovered
    BY <1>2 DEF Request
  <2> QED BY <1>2, <2>1, DelayAckTold DEF D!Run
<1>3. CASE r.k = "destroy"
  <2>1. Kept(t, D!Destroy(t))
    BY DestroyKeeps DEF Told
  <2>2. Told(D!Destroy(t))
    BY <2>1, KeptTold
  <2> QED BY <1>3, <2>1, <2>2 DEF D!Run, Kept
<1> QED BY <1>1, <1>2, <1>3 DEF Request

LEMMA RunRequestsKeeps == ASSUME ToldInv, D!RunRequests PROVE Told(D!State') /\ dservice'.publishes = dservice.publishes
<1> DEFINE p == dservice.publishes
           E == {r \in Request : r.k = "start" => p > 0}
           S == {u \in StateType : Told(u) /\ u.service.publishes = p}
           w == X!Fold(Ran, drequests)
<1>1. Typed(D!State) /\ Told(D!State)
  BY StateTyped
<1>2. drequests \in Seq(E)
  <2>1. drequests \in Seq(Request)
    BY <1>1, Parts DEF D!State
  <2>2. \A i \in DOMAIN drequests : drequests[i] \in E
    <3> SUFFICES ASSUME NEW i \in DOMAIN drequests PROVE drequests[i] \in E
      OBVIOUS
    <3>1. drequests[i] \in Request /\ i > 0
      BY <2>1
    <3>2. p \in Nat
      BY <1>1, Parts, SizesAssumption DEF D!State, ServiceType
    <3>3. p = 0 => ~Asks(drequests, 0, "start")
      BY <1>1 DEF Told, Begun, D!State
    <3> QED BY <3>1, <3>2, <3>3 DEF Asks
  <2> HIDE DEF E
  <2> QED BY <2>1, <2>2
<1>3. Ran \in S
  <2> DEFINE u == [D!State EXCEPT !.requests = <<>>]
  <2>1. u \in StateType /\ u.sends = dsends /\ u.service = dservice /\ u.rx = drx /\ u.requests = <<>>
    <3>1. <<>> \in Seq(Request)
      OBVIOUS
    <3>2. u \in StateType /\ u.sends = D!State.sends /\ u.service = D!State.service /\ u.rx = D!State.rx
          /\ u.requests = <<>>
      BY <1>1, <3>1, WithRequests
    <3> QED BY <3>2 DEF D!State
  <2>2. Ran = [u EXCEPT !.signalled = @ \ {"request"}]
    BY DEF Ran, D!State
  <2> HIDE DEF u
  <2>3. Typed(u) /\ Begun(u) /\ \A m \in Discovered : Reported(u.service, m, u.rx[m])
    BY <1>1, <2>1 DEF Typed, Told, Begun, Asks, D!State
  <2>4. Told(u)
    BY <2>3 DEF Told
  <2>5. Kept(u, Ran)
    BY <2>2, <2>3, Lost
  <2>6. Told(Ran)
    BY <2>4, <2>5, KeptTold
  <2> QED BY <2>1, <2>5, <2>6 DEF Kept, Typed
<1>4. ASSUME NEW u \in S, NEW r \in E PROVE D!Run(u, r) \in S
  <2>1. Told(D!Run(u, r)) /\ D!Run(u, r).service.publishes = p
    BY RunTold
  <2> QED BY <2>1 DEF Told, Typed
<1> HIDE DEF S, E
<1>5. w \in S
  BY <1>2, <1>3, <1>4, X!FoldStays
<1>6. Told(w) /\ w.service.publishes = dservice.publishes
  BY <1>5 DEF S
<1> HIDE DEF w
<1> QED BY <1>6, RunRequestsIs, BecomesTold DEF w

LEMMA KeptBut ==
    ASSUME NEW t, NEW u, NEW m \in Discovered, ToldBut(t, m), Kept(t, u) PROVE ToldBut(u, m)
<1>1. Typed(u) /\ Begun(u)
  BY DEF ToldBut, Begun, Kept
<1>2. ASSUME NEW x \in Discovered, x # m PROVE Reported(u.service, x, u.rx[x])
  BY <1>2 DEF ToldBut, Reported, Kept
<1> QED BY <1>1, <1>2 DEF ToldBut

\* A message that was received and not yet reported.
Arriving(t, m) ==
    /\ ToldBut(t, m) /\ t.service.publishes > 0
    /\ t.rx[m].st = "received" /\ t.rx[m].sn = <<>> /\ ~t.rx[m].linking

LEMMA ArrivingKept ==
    ASSUME NEW t, NEW u, NEW m \in Discovered, Arriving(t, m), Kept(t, u) PROVE Arriving(u, m)
<1>1. ToldBut(u, m)
  BY KeptBut DEF Arriving
<1> QED BY <1>1 DEF Arriving, Kept

Answer(e, sn) == [e EXCEPT !.sn = Append(e.sn, sn)]
Awaited(e, h) == [e EXCEPT !.linking = TRUE, !.linkSvc = h]
Over(e) == [e EXCEPT !.linking = FALSE, !.linkSvc = FALSE]
Arrived(e) == [e EXCEPT !.st = "received"]
Asked(e) == [e EXCEPT !.ack = "requested", !.ackSvc = TRUE]
Acked(e) == [e EXCEPT !.ack = "done", !.ackSvc = FALSE]

LEMMA AnswerIs ==
    ASSUME NEW e \in RxEntry, NEW sn \in Nat
    PROVE  /\ Answer(e, sn) \in RxEntry /\ Answer(e, sn).st = e.st /\ Answer(e, sn).linking = e.linking
           /\ Answer(e, sn).sn = Append(e.sn, sn) /\ Answer(e, sn).linkSvc = e.linkSvc
           /\ Answer(e, sn).ackSvc = e.ackSvc
<1> DEFINE q == Append(e.sn, sn)
<1>1. q \in Seq(Nat)
  BY DEF RxEntry
<1>2. Answer(e, sn) = [e EXCEPT !.sn = q]
  BY DEF Answer
<1> HIDE DEF q
<1>3. /\ [e EXCEPT !.sn = q] \in RxEntry /\ [e EXCEPT !.sn = q].st = e.st
      /\ [e EXCEPT !.sn = q].linking = e.linking /\ [e EXCEPT !.sn = q].sn = q
      /\ [e EXCEPT !.sn = q].linkSvc = e.linkSvc /\ [e EXCEPT !.sn = q].ackSvc = e.ackSvc
  BY <1>1 DEF RxEntry
<1> QED BY <1>2, <1>3 DEF q

LEMMA AwaitedIs ==
    ASSUME NEW e \in RxEntry, NEW h \in BOOLEAN
    PROVE  /\ Awaited(e, h) \in RxEntry /\ Awaited(e, h).st = e.st /\ Awaited(e, h).linking
           /\ Awaited(e, h).sn = e.sn /\ Awaited(e, h).linkSvc = h /\ Awaited(e, h).ackSvc = e.ackSvc
BY DEF RxEntry, Awaited

LEMMA EntryAlso ==
    ASSUME NEW e \in RxEntry
    PROVE  /\ Over(e) \in RxEntry /\ Over(e).st = e.st /\ ~Over(e).linking /\ Over(e).sn = e.sn
           /\ ~Over(e).linkSvc /\ Over(e).ackSvc = e.ackSvc
           /\ Arrived(e) \in RxEntry /\ Arrived(e).st = "received" /\ Arrived(e).linking = e.linking
           /\ Arrived(e).sn = e.sn /\ Arrived(e).linkSvc = e.linkSvc /\ Arrived(e).ackSvc = e.ackSvc
BY DEF RxEntry, Over, Arrived

LEMMA EntryAcks ==
    ASSUME NEW e \in RxEntry
    PROVE  /\ Asked(e) \in RxEntry /\ Asked(e).st = e.st /\ Asked(e).linking = e.linking
           /\ Asked(e).sn = e.sn /\ Asked(e).linkSvc = e.linkSvc /\ Asked(e).ackSvc
           /\ Acked(e) \in RxEntry /\ Acked(e).st = e.st /\ Acked(e).linking = e.linking
           /\ Acked(e).sn = e.sn /\ Acked(e).linkSvc = e.linkSvc /\ ~Acked(e).ackSvc
BY DEF RxEntry, Asked, Acked

LEMMA RxOf == ASSUME NEW t, Typed(t), NEW m \in Discovered PROVE t.rx[m] \in RxEntry
BY Parts DEF RxType

LEMMA CallHandlerTold ==
    ASSUME NEW t, NEW m \in Discovered, Arriving(t, m), m.kind # "bad", NEW sn \in Nat
    PROVE  Told(D!CallHandler(t, m, sn)) /\ D!CallHandler(t, m, sn).service = t.service
<1>1. Typed(t) /\ t.rx[m] \in RxEntry /\ ToldBut(t, m) /\ t.service.handler = t.service.wants
  BY RxOf DEF Arriving, ToldBut, Begun
<1>2. CASE t.service.handler
  <2> DEFINE e == Answer(t.rx[m], sn)
  <2>1. D!CallHandler(t, m, sn) = [t EXCEPT !.rx[m] = e]
    BY <1>1, <1>2 DEF D!CallHandler, Answer, Typed, StateType, RxType
  <2>2. e \in RxEntry /\ e.st = "received" /\ ~e.linking /\ e.sn = Append(<<>>, sn)
    BY <1>1, AnswerIs, ZenonT(40) DEF Arriving
  <2> HIDE DEF e
  <2>3. Len(e.sn) = 1
    BY <2>2
  <2>4. Reported(t.service, m, e)
    BY <1>1, <1>2, <2>2, <2>3 DEF Reported, Arriving
  <2> QED BY <1>1, <2>1, <2>2, <2>4, RxTold
<1>3. CASE ~t.service.handler
  <2>1. Reported(t.service, m, t.rx[m])
    BY <1>1, <1>3 DEF Reported, Arriving
  <2> QED BY <1>1, <1>3, <2>1, ToldBoth DEF D!CallHandler
<1> QED BY <1>2, <1>3

LEMMA LinkingTold ==
    ASSUME NEW t, NEW m \in Discovered, Arriving(t, m), m.kind # "bad"
    PROVE  Told(D!Linking(t, m)) /\ D!Linking(t, m).service = t.service
<1>1. Typed(t) /\ t.rx[m] \in RxEntry /\ ToldBut(t, m) /\ t.service.handler = t.service.wants
      /\ t.service.handler \in BOOLEAN
  BY RxOf, Parts DEF Arriving, ToldBut, Begun, ServiceType
<1> DEFINE e == Awaited(t.rx[m], t.service.handler)
<1>2. D!Linking(t, m) = [t EXCEPT !.rx[m] = e]
  BY <1>1 DEF D!Linking, Awaited, Typed, StateType, RxType
<1>3. e \in RxEntry /\ e.st = "received" /\ e.linking /\ e.sn = <<>> /\ e.linkSvc = t.service.handler
  BY <1>1, AwaitedIs DEF Arriving
<1> HIDE DEF e
<1>4. Reported(t.service, m, e)
  BY <1>1, <1>3 DEF Reported, Arriving
<1> QED BY <1>1, <1>2, <1>3, <1>4, RxTold

LEMMA AckPublicationKeeps ==
    ASSUME NEW t, Typed(t), NEW sent \in BOOLEAN PROVE Kept(t, D!AckPublication(t, sent))
<1>1. CASE ~sent
  BY <1>1, KeptSelf DEF D!AckPublication
<1>2. CASE sent
  <2> DEFINE b == t.service.payload
             m == D!Message(t, "ack", b)
             u == D!EncodeDiscoveryPayload(t)
             S == u.sends \cup {m}
  <2>1. b \in D!Maybe(D!Buffers)
    BY Parts DEF ServiceType
  <2>2. m \in Message
    BY <2>1, MessageType
  <2>3. Kept(t, u) /\ Typed(u)
    BY <2>1, IncRefKeeps, KeptTyped DEF D!EncodeDiscoveryPayload
  <2> HIDE DEF m, u
  <2>4. u.sends \in SUBSET Message /\ IsFiniteSet(u.sends)
    BY <2>3, Parts
  <2>5. S \in SUBSET Message /\ IsFiniteSet(S)
    BY <2>2, <2>4, FS_AddElement
  <2>6. D!AckPublication(t, sent) = [u EXCEPT !.sends = S]
    BY <1>2, Zenon DEF D!AckPublication, m, u
  <2> HIDE DEF S
  <2>7. Kept(u, [u EXCEPT !.sends = S])
    BY <2>3, <2>5, SendsKeep
  <2> QED BY <2>3, <2>6, <2>7, KeptTrans
<1> QED BY <1>1, <1>2

LEMMA ScheduleAckArrives ==
    ASSUME NEW t, NEW m \in Discovered, Arriving(t, m)
    PROVE  Arriving(D!ScheduleAck(t, m), m) /\ D!ScheduleAck(t, m).service.publishes = t.service.publishes
<1> DEFINE e == Asked(t.rx[m])
           r == [k |-> "ack", m |-> m]
           u == [t EXCEPT !.rx[m] = e]
           v == [u EXCEPT !.requests = Append(u.requests, r)]
<1>1. Typed(t) /\ t.rx[m] \in RxEntry /\ ToldBut(t, m)
  BY RxOf DEF Arriving, ToldBut
<1>2. u = [t EXCEPT !.rx[m].ack = "requested", !.rx[m].ackSvc = TRUE]
  BY <1>1 DEF Asked, Typed, StateType, RxType
<1>3. D!ScheduleAck(t, m) = D!Signal(v, "request")
  BY <1>2, Zenon DEF D!ScheduleAck, D!Schedule, v
<1>4. e \in RxEntry /\ e.st = "received" /\ ~e.linking /\ e.sn = <<>>
  BY <1>1, EntryAcks DEF Arriving
<1> HIDE DEF e
<1>5. ToldBut(u, m) /\ u.service = t.service /\ u.rx[m] = e
  BY <1>1, <1>4, RxTold
<1> HIDE DEF u
<1>6. Typed(u) /\ u.requests \in Seq(Request)
  BY <1>5, Parts DEF ToldBut
<1>7. Append(u.requests, r) \in Seq(Request) /\ \A i \in DOMAIN Append(u.requests, r) :
         Append(u.requests, r)[i].k = "start" => i \in DOMAIN u.requests /\ u.requests[i].k = "start"
  BY <1>6 DEF Request
<1> DEFINE q == Append(u.requests, r)
<1>13. v = [u EXCEPT !.requests = q] /\ q \in Seq(Request)
  BY <1>7
<1> HIDE DEF r, q, v
<1>8. /\ v \in StateType /\ v.sends = u.sends /\ v.service = u.service /\ v.rx = u.rx
      /\ v.requests = q
  BY <1>6, <1>13, WithRequests
<1>9. Typed(v) /\ Begun(v)
  BY <1>5, <1>6, <1>7, <1>8 DEF Typed, ToldBut, Begun, Asks, q
<1>10. ToldBut(v, m)
  BY <1>5, <1>8, <1>9 DEF ToldBut
<1>11. Arriving(v, m)
  BY <1>4, <1>5, <1>8, <1>10 DEF Arriving
<1>12. Kept(v, D!Signal(v, "request"))
  BY <1>9, SignalKeeps
<1>14. D!Signal(v, "request").service.publishes = t.service.publishes
  BY <1>5, <1>8, <1>12 DEF Kept
<1> QED BY <1>3, <1>11, <1>12, <1>14, ArrivingKept

LEMMA ReceiveKeeps ==
    ASSUME ToldInv, NEW m \in Discovered, NEW linked \in BOOLEAN, NEW sent \in BOOLEAN,
           D!Receive(m, linked, sent)
    PROVE  Told(D!State') /\ dservice'.publishes = dservice.publishes
<1> DEFINE t == [D!State EXCEPT !.rx[m].st = "received"]
           e == Arrived(drx[m])
           ack == IF m.ackReq THEN D!AckPublication(t, sent) ELSE t
           later == IF m.ackReq THEN D!ScheduleAck(t, m) ELSE t
<1>1. Typed(D!State) /\ Told(D!State) /\ ToldBut(D!State, m) /\ drx[m] \in RxEntry
  BY StateTyped, ToldBoth, RxOf DEF D!State
<1>2. t = [D!State EXCEPT !.rx[m] = e]
  BY <1>1 DEF Arrived, D!State, Typed, StateType, RxType
<1>3. dservice.publishes > 0
  <2>1. dservice.sub = "listed" \/ dservice.hellos > 0
    BY DEF D!Receive
  <2>2. dservice.publishes \in Nat
    BY <1>1, Parts, SizesAssumption DEF D!State, ServiceType
  <2> QED BY <1>1, <2>1, <2>2 DEF Told, Begun, D!State
<1>4. drx[m].st = "none" /\ drx[m].sn = <<>> /\ ~drx[m].linking
  <2>1. Reported(dservice, m, drx[m])
    BY <1>1 DEF Told, D!State
  <2> QED BY <2>1 DEF D!Receive, Reported
<1>5. e \in RxEntry /\ e.st = "received" /\ e.sn = <<>> /\ ~e.linking
  BY <1>1, <1>4, EntryAlso
<1> HIDE DEF e
<1>7. D!Becomes(IF ~D!DecodeDiscoveryPayload(m) THEN t
                ELSE IF m.kind = "ack" THEN D!OnAck(t, m, linked) ELSE D!OnPub(t, m, linked, sent))
  BY Zenon DEF D!Receive, t
<1> HIDE DEF t
<1>6. Arriving(t, m) /\ t.service.publishes = dservice.publishes
  <2>1. ToldBut(t, m) /\ t.service = D!State.service /\ t.rx[m] = e
    BY <1>1, <1>2, <1>5, RxTold
  <2> QED BY <1>3, <1>5, <2>1 DEF Arriving, D!State
<1>8. Typed(t)
  BY <1>6 DEF Arriving, ToldBut
<1>9. CASE m.kind = "bad"
  <2>1. Reported(t.service, m, t.rx[m])
    BY <1>6, <1>9 DEF Arriving, Reported
  <2>2. Told(t)
    BY <1>6, <2>1, ToldBoth DEF Arriving
  <2>3. D!Becomes(t)
    BY <1>7, <1>9 DEF D!DecodeDiscoveryPayload
  <2> QED BY <1>6, <2>2, <2>3, BecomesTold
<1>10. CASE m.kind # "bad"
  <2> DEFINE Good(u) == Told(u) /\ u.service.publishes = dservice.publishes
  <2>1. Arriving(ack, m) /\ ack.service.publishes = dservice.publishes
    <3>1. Kept(t, D!AckPublication(t, sent))
      BY <1>8, AckPublicationKeeps
    <3>2. Arriving(D!AckPublication(t, sent), m)
      BY <1>6, <3>1, ArrivingKept
    <3> QED BY <1>6, <3>1, <3>2 DEF Kept
  <2>2. Arriving(later, m) /\ later.service.publishes = dservice.publishes
    BY <1>6, ScheduleAckArrives
  <2> HIDE DEF ack, later
  <2>3. Good(D!OnAck(t, m, linked))
    <3>1. Good(D!CallHandler(t, m, 1)) /\ Good(D!Linking(t, m))
      BY <1>6, <1>10, CallHandlerTold, LinkingTold
    <3> QED BY <3>1, Zenon DEF D!OnAck
  <2>4. Good(D!OnPub(t, m, linked, sent))
    <3>1. Good(D!CallHandler(t, m, 1)) /\ Good(D!CallHandler(ack, m, 1)) /\ Good(D!Linking(ack, m))
          /\ Good(D!CallHandler(later, m, 1))
      BY <1>6, <1>10, <2>1, <2>2, CallHandlerTold, LinkingTold
    <3> HIDE DEF Good
    <3> QED BY <3>1, Zenon DEF D!OnPub, ack, later
  <2>5. D!Becomes(IF m.kind = "ack" THEN D!OnAck(t, m, linked) ELSE D!OnPub(t, m, linked, sent))
    BY <1>7, <1>10 DEF D!DecodeDiscoveryPayload
  <2> QED BY <2>3, <2>4, <2>5, BecomesTold
<1> QED BY <1>9, <1>10

LEMMA LinkCbKeeps == ASSUME ToldInv, NEW m \in Discovered, D!LinkCb(m)
  PROVE Told(D!State') /\ dservice'.publishes = dservice.publishes
<1> DEFINE t == [D!State EXCEPT !.rx[m].linking = FALSE, !.rx[m].linkSvc = FALSE]
           e == Over(drx[m])
<1>1. Typed(D!State) /\ Told(D!State) /\ ToldBut(D!State, m) /\ drx[m] \in RxEntry
      /\ Reported(dservice, m, drx[m])
  BY StateTyped, ToldBoth, RxOf DEF D!State
<1>2. t = [D!State EXCEPT !.rx[m] = e]
  BY <1>1 DEF Over, D!State, Typed, StateType, RxType
<1>3. D!Becomes(IF drx[m].linkSvc THEN D!CallHandler(t, m, D!CopyPublication(m)) ELSE t)
  BY Zenon DEF D!LinkCb, t
<1> HIDE DEF t
<1>4. drx[m].linking /\ drx[m].st = "received" /\ drx[m].sn = <<>> /\ m.kind # "bad"
      /\ (dservice.st = "live" => drx[m].linkSvc = dservice.wants) /\ dservice.publishes > 0
  BY <1>1 DEF D!LinkCb, Reported, RxEntry
<1>5. e \in RxEntry /\ e.st = "received" /\ e.sn = <<>> /\ ~e.linking
  BY <1>1, <1>4, EntryAlso
<1> HIDE DEF e
<1>6. ToldBut(t, m) /\ t.service = dservice /\ t.rx[m] = e
  <2>1. ToldBut(t, m) /\ t.service = D!State.service /\ t.rx[m] = e
    BY <1>1, <1>2, <1>5, RxTold
  <2> QED BY <2>1 DEF D!State
<1>7. CASE drx[m].linkSvc
  <2>1. Arriving(t, m) /\ D!CopyPublication(m) \in Nat
    BY <1>4, <1>5, <1>6 DEF Arriving, D!CopyPublication
  <2>2. Told(D!CallHandler(t, m, D!CopyPublication(m)))
        /\ D!CallHandler(t, m, D!CopyPublication(m)).service = t.service
    BY <1>4, <2>1, CallHandlerTold
  <2> QED BY <1>3, <1>6, <1>7, <2>2, BecomesTold
<1>8. CASE ~drx[m].linkSvc
  <2>1. Reported(t.service, m, t.rx[m])
    BY <1>4, <1>5, <1>6, <1>8 DEF Reported
  <2>2. Told(t)
    BY <1>6, <2>1, ToldBoth
  <2> QED BY <1>3, <1>6, <1>8, <2>2, BecomesTold
<1> QED BY <1>7, <1>8

LEMMA AckTimerKeeps ==
    ASSUME ToldInv, NEW m \in Discovered, NEW sent \in BOOLEAN, D!AckTimerOnTimeout(m, sent)
    PROVE  Told(D!State') /\ dservice'.publishes = dservice.publishes
<1> DEFINE t == [D!State EXCEPT !.rx[m].ack = "done", !.rx[m].ackSvc = FALSE]
           e == Acked(drx[m])
           w == IF drx[m].ackSvc THEN D!AckPublication(t, sent) ELSE t
<1>1. Typed(D!State) /\ Told(D!State) /\ ToldBut(D!State, m) /\ drx[m] \in RxEntry
      /\ Reported(dservice, m, drx[m])
  BY StateTyped, ToldBoth, RxOf DEF D!State
<1>2. t = [D!State EXCEPT !.rx[m] = e]
  BY <1>1 DEF Acked, D!State, Typed, StateType, RxType
<1>3. D!Becomes(w)
  BY Zenon DEF D!AckTimerOnTimeout, t, w
<1> HIDE DEF t
<1>4. e \in RxEntry /\ e.st = drx[m].st /\ e.linking = drx[m].linking /\ e.sn = drx[m].sn
      /\ e.linkSvc = drx[m].linkSvc
  BY <1>1, EntryAcks
<1> HIDE DEF e
<1>5. Reported(dservice, m, e)
  BY <1>1, <1>4 DEF Reported
<1>6. Told(t) /\ t.service = dservice
  <2>1. D!State.service = dservice
    BY DEF D!State
  <2> QED BY <1>1, <1>2, <1>4, <1>5, <2>1, RxTold
<1>7. Told(w) /\ w.service.publishes = dservice.publishes
  <2>1. Typed(t)
    BY <1>6 DEF Told
  <2>2. Kept(t, w)
    BY <2>1, AckPublicationKeeps, KeptSelf
  <2> HIDE DEF w
  <2>3. Told(w)
    BY <1>6, <2>2, KeptTold
  <2> QED BY <1>6, <2>2, <2>3 DEF Kept
<1> HIDE DEF w
<1> QED BY <1>3, <1>7, BecomesTold

LEMMA ServiceIs == ASSUME NEW e \in ServiceType
  PROVE  /\ e.wants \in BOOLEAN /\ e.handler \in BOOLEAN /\ e.publishes \in Nat /\ e.publishes <= NumBuffers
         /\ e.payload \in D!Maybe(D!Buffers) /\ e.hellos \in Nat /\ e.destroyed \in Nat /\ e.destroying \in BOOLEAN
BY SizesAssumption DEF ServiceType

LEMMA TimerClosedKeeps == ASSUME ToldInv, D!TimerClosed
    PROVE  Told(D!State') /\ dservice'.publishes = dservice.publishes
<1> DEFINE v == [dservice EXCEPT !.timer = "none"]
           t == [D!State EXCEPT !.service = v]
<1>1. Typed(D!State) /\ Told(D!State) /\ dservice \in ServiceType
  BY StateTyped, Parts DEF D!State
<1>2. v \in ServiceType /\ v.wants = dservice.wants /\ v.handler = dservice.handler
      /\ v.publishes = dservice.publishes /\ v.hellos = dservice.hellos
      /\ v.sub = dservice.sub /\ v.timer = "none" /\ v.st = dservice.st
  BY <1>1 DEF ServiceType
<1>3. D!Becomes(D!Destroy(t))
  <2>1. t = [D!State EXCEPT !.service.timer = "none"]
    BY DEF D!State
  <2> HIDE DEF t
  <2> QED BY <2>1, Zenon DEF D!TimerClosed
<1> HIDE DEF v
<1>4. Kept(D!State, t)
  BY <1>1, <1>2, ServiceKeeps DEF D!State
<1> HIDE DEF t
<1>5. Kept(t, D!Destroy(t))
  BY <1>4, DestroyKeeps, KeptTyped
<1>6. Kept(D!State, D!Destroy(t))
  BY <1>4, <1>5, KeptTrans
<1> QED BY <1>1, <1>3, <1>6, BecomesKept

LEMMA SendCompleteKeeps ==
    ASSUME ToldInv, NEW x \in dsends, D!SendComplete(x)
    PROVE  Told(D!State') /\ dservice'.publishes = dservice.publishes
<1> DEFINE S == dsends \ {x}
           t == [D!State EXCEPT !.sends = S]
           u == IF x.kind = "ack" THEN D!SharedBufferDecRef(t, x.buf) ELSE D!Published(t, x)
           w == IF x.kind # "ack" /\ u.service.pub = "destroyed" THEN D!FreePub(u) ELSE u
<1>1. Typed(D!State) /\ Told(D!State) /\ dsends \in SUBSET Message /\ IsFiniteSet(dsends)
  BY StateTyped, Parts DEF D!State
<1>2. D!Becomes(w)
  <2>1. t = [D!State EXCEPT !.sends = @ \ {x}]
    BY DEF D!State
  <2> HIDE DEF t
  <2> QED BY <2>1, Zenon DEF D!SendComplete, u, w
<1>3. S \in SUBSET Message /\ IsFiniteSet(S) /\ x \in Message /\ x.buf \in D!Maybe(D!Buffers)
  BY <1>1, FS_RemoveElement DEF Message
<1> HIDE DEF S
<1>4. Kept(D!State, t) /\ Typed(t)
  BY <1>1, <1>3, SendsKeep, KeptTyped
<1> HIDE DEF t
<1>5. Kept(t, u) /\ Typed(u)
  BY <1>3, <1>4, DecRefKeeps, PublishedKeeps, KeptTyped
<1> HIDE DEF u
<1>6. Kept(u, w)
  BY <1>5, FreePubKeeps, KeptSelf
<1> HIDE DEF w
<1>7. Kept(D!State, u)
  BY <1>4, <1>5, KeptTrans
<1>8. Kept(D!State, w)
  BY <1>6, <1>7, KeptTrans
<1> QED BY <1>1, <1>2, <1>8, BecomesKept

LEMMA HelloKeeps == ASSUME ToldInv, D!PublishTimerOnTimeout
    PROVE  Told(D!State') /\ dservice'.publishes = dservice.publishes
<1> DEFINE v == [dservice EXCEPT !.hellos = dservice.hellos + 1]
           t == [D!State EXCEPT !.service = v]
           b == dservice.payload
           u == D!EncodeDiscoveryPayload(t)
           m == D!Message(t, "hello", b)
           q == Append(u.sendQ, m)
           d == D!SharedBufferDecRef(u, b)
           s == [d.service EXCEPT !.timer = "stopped"]
<1>1. Typed(D!State) /\ Told(D!State) /\ dservice \in ServiceType /\ dservice.timer = "armed"
  BY StateTyped, Parts DEF D!State, D!PublishTimerOnTimeout
<1>2. /\ v \in ServiceType /\ v.wants = dservice.wants /\ v.handler = dservice.handler
      /\ v.publishes = dservice.publishes /\ v.hellos = dservice.hellos + 1
      /\ v.sub = dservice.sub /\ v.timer = dservice.timer /\ v.st = dservice.st /\ v.payload = b
  <2>1. dservice.hellos + 1 \in Nat
    BY <1>1, ServiceIs
  <2> QED BY <1>1, <2>1 DEF ServiceType
<1>3. IF dservice.pub = "listed" THEN D!Becomes(D!Signal([u EXCEPT !.sendQ = q], "pubs"))
      ELSE D!Becomes([d EXCEPT !.service = s])
  <2>1. t = [D!State EXCEPT !.service.hellos = @ + 1]
    BY DEF D!State
  <2> HIDE DEF t
  <2>2. IF dservice.pub = "listed"
        THEN D!Becomes(D!Signal([u EXCEPT !.sendQ = Append(@, m)], "pubs"))
        ELSE D!Becomes([d EXCEPT !.service.timer = "stopped"])
    BY <2>1, Zenon DEF D!PublishTimerOnTimeout, u, m, d
  <2>3. [u EXCEPT !.sendQ = Append(@, m)] = [u EXCEPT !.sendQ = q]
    BY DEF q
  <2>4. [d EXCEPT !.service.timer = "stopped"] = [d EXCEPT !.service = s]
    BY DEF s
  <2> HIDE DEF u, q, d, s, m
  <2> QED BY <2>2, <2>3, <2>4
<1> HIDE DEF v
<1>4. Told(t) /\ t.service = v
  <2>1. t \in StateType /\ t.sends = dsends /\ t.service = v /\ t.rx = drx /\ t.requests = drequests
    <3>1. t \in StateType /\ t.sends = D!State.sends /\ t.service = v /\ t.rx = D!State.rx
          /\ t.requests = D!State.requests
      BY <1>1, <1>2, WithService
    <3> QED BY <3>1 DEF D!State
  <2> HIDE DEF t
  <2>2. Typed(t) /\ Begun(t)
    BY <1>1, <1>2, <2>1 DEF Typed, Told, Begun, D!State
  <2>3. ASSUME NEW x \in Discovered PROVE Reported(t.service, x, t.rx[x])
    <3>1. Reported(dservice, x, drx[x])
      BY <1>1 DEF Told, D!State
    <3> QED BY <1>2, <2>1, <3>1 DEF Reported
  <2> QED BY <2>1, <2>2, <2>3 DEF Told
<1> HIDE DEF t
<1>5. Typed(t) /\ b \in D!Maybe(D!Buffers)
  BY <1>1, <1>4, ServiceIs DEF Told
<1>6. m \in Message
  BY <1>5, MessageType
<1>7. Kept(t, u) /\ Typed(u)
  <2>1. u = D!SharedBufferIncRef(t, b)
    BY <1>2, <1>4 DEF D!EncodeDiscoveryPayload
  <2> QED BY <1>5, <2>1, IncRefKeeps, KeptTyped
<1> HIDE DEF u, m
<1> DEFINE Good(x) == Told(x) /\ x.service.publishes = dservice.publishes
<1>11. ASSUME NEW x, NEW y, Good(x), Kept(x, y) PROVE Good(y)
  BY <1>11, KeptTold DEF Kept
<1>12. Good(t)
  BY <1>2, <1>4
<1> HIDE DEF Good
<1>8. Good(u)
  BY <1>7, <1>11, <1>12
<1>9. Good(D!Signal([u EXCEPT !.sendQ = q], "pubs"))
  <2>1. q \in Seq(Message)
    BY <1>6, <1>7, Parts
  <2> HIDE DEF q
  <2> DEFINE w == [u EXCEPT !.sendQ = q]
  <2>2. Kept(u, w) /\ Typed(w)
    BY <1>7, <2>1, QueueKeeps, KeptTyped
  <2> HIDE DEF w
  <2>3. Good(w) /\ Kept(w, D!Signal(w, "pubs"))
    BY <1>8, <1>11, <2>2, SignalKeeps
  <2>4. Good(D!Signal(w, "pubs"))
    BY <1>11, <2>3
  <2> QED BY <2>4 DEF w
<1>10. Good([d EXCEPT !.service = s])
  <2>1. Kept(u, d) /\ Typed(d)
    BY <1>5, <1>7, DecRefKeeps, KeptTyped
  <2> HIDE DEF d
  <2>2. d.service \in ServiceType
    BY <2>1, Parts
  <2>3. s \in ServiceType /\ s.wants = d.service.wants /\ s.handler = d.service.handler
        /\ s.publishes = d.service.publishes /\ s.hellos = d.service.hellos
        /\ s.sub = d.service.sub /\ s.timer = "stopped" /\ s.st = d.service.st
    BY <2>2 DEF ServiceType
  <2> HIDE DEF s
  <2>4. Kept(d, [d EXCEPT !.service = s])
    BY <2>1, <2>3, ServiceKeeps
  <2>5. Good(d)
    BY <1>8, <1>11, <2>1
  <2> QED BY <1>11, <2>4, <2>5
<1> HIDE DEF q, d, s
<1> QED BY <1>3, <1>9, <1>10, BecomesTold DEF Good

LEMMA BecomesState == ASSUME NEW t, Told(t), D!Becomes(t) PROVE Told(D!State')
<1>1. Typed(t)
  BY DEF Told
<1>2. D!State' = t
  BY <1>1, Parts DEF D!State, D!Becomes
<1> QED BY <1>2

LEMMA SubscribeKeeps == ASSUME ToldInv, D!Subscribe PROVE Told(D!State')
<1> DEFINE v == [dservice EXCEPT !.handler = dservice.wants, !.sub = "listed",
                                 !.publishes = dservice.publishes + 1]
           t == [D!State EXCEPT !.service = v]
<1>1. Typed(D!State) /\ Told(D!State) /\ dservice \in ServiceType /\ dservice.publishes < NumBuffers
  BY StateTyped, Parts DEF D!State, D!Subscribe
<1>2. /\ v \in ServiceType /\ v.wants = dservice.wants /\ v.handler = dservice.wants
      /\ v.publishes = dservice.publishes + 1 /\ v.hellos = dservice.hellos
      /\ v.sub = "listed" /\ v.timer = dservice.timer /\ v.st = dservice.st
  <2>1. dservice.wants \in BOOLEAN /\ dservice.publishes + 1 \in 0 .. NumBuffers
    BY <1>1, SizesAssumption DEF ServiceType
  <2> QED BY <1>1, <2>1 DEF ServiceType
<1>3. /\ dservice' = v /\ dbuffer' = dbuffer /\ dsendQ' = dsendQ /\ dsends' = dsends /\ drx' = drx
      /\ drequests' = drequests /\ dsignalled' = dsignalled
  BY DEF D!Subscribe
<1> HIDE DEF v
<1>4. t \in StateType /\ t.sends = dsends /\ t.service = v /\ t.rx = drx /\ t.requests = drequests
  <2>1. t \in StateType /\ t.sends = D!State.sends /\ t.service = v /\ t.rx = D!State.rx
        /\ t.requests = D!State.requests
    BY <1>1, <1>2, WithService
  <2> QED BY <2>1 DEF D!State
<1>5. D!Becomes(t)
  BY <1>3 DEF D!Becomes, D!State
<1> HIDE DEF t
<1>6. Typed(t) /\ Begun(t)
  <2>1. dservice.publishes \in Nat
    BY <1>1, ServiceIs
  <2> QED BY <1>1, <1>2, <1>4, <2>1 DEF Typed, Told, Begun, D!State
<1>7. ASSUME NEW x \in Discovered PROVE Reported(t.service, x, t.rx[x])
  <2>1. Reported(dservice, x, drx[x])
    BY <1>1 DEF Told, D!State
  <2>2. dservice.publishes \in Nat
    BY <1>1, ServiceIs
  <2> QED BY <1>2, <1>4, <2>1, <2>2 DEF Reported
<1>8. Told(t)
  BY <1>6, <1>7 DEF Told
<1> QED BY <1>5, <1>8, BecomesState

LEMMA ReplacePayloadKeeps ==
    ASSUME ToldInv, NEW b \in D!Maybe(D!Buffers), D!ReplacePayload(b) PROVE Told(D!State')
<1> DEFINE d == D!SharedBufferDecRef(D!State, dservice.payload)
           v == [d.service EXCEPT !.payload = b]
           t == [d EXCEPT !.service = v]
           f == [t.buffer EXCEPT ![b] = [refs |-> 1, st |-> "live"]]
           w == [t EXCEPT !.buffer = f]
<1>1. Typed(D!State) /\ Told(D!State) /\ dservice \in ServiceType
  BY StateTyped, Parts DEF D!State
<1>2. Kept(D!State, d) /\ Typed(d)
  BY <1>1, ServiceIs, DecRefKeeps, KeptTyped
<1>3. D!Becomes(IF b = NULL THEN t ELSE w)
  <2>1. [d EXCEPT !.service.payload = b] = t
    BY Zenon
  <2>2. [t EXCEPT !.buffer[b] = [refs |-> 1, st |-> "live"]] = w
    BY Zenon
  <2>3. d = D!SharedBufferDecRef(D!State, dservice.payload)
    OBVIOUS
  <2> HIDE DEF d, t, w
  <2>4. LET r == [d EXCEPT !.service.payload = b]
        IN  D!Becomes(IF b = NULL THEN r ELSE [r EXCEPT !.buffer[b] = [refs |-> 1, st |-> "live"]])
    BY <2>3, Zenon DEF D!ReplacePayload
  <2> QED BY <2>1, <2>2, <2>4, Zenon
<1> HIDE DEF d
<1>4. d.service \in ServiceType
  BY <1>2, Parts
<1>5. v \in ServiceType /\ v.wants = d.service.wants /\ v.handler = d.service.handler
      /\ v.publishes = d.service.publishes /\ v.hellos = d.service.hellos
      /\ v.sub = d.service.sub /\ v.timer = d.service.timer /\ v.st = d.service.st
  BY <1>4 DEF ServiceType
<1> HIDE DEF v
<1>6. Kept(d, t) /\ Typed(t)
  BY <1>2, <1>5, ServiceKeeps, KeptTyped
<1> HIDE DEF t
<1>7. Told(t)
  BY <1>1, <1>2, <1>6, KeptTold
<1>8. ASSUME b # NULL PROVE Told(w)
  <2>1. b \in D!Buffers /\ t.buffer \in BufferType
    BY <1>6, <1>8, Parts DEF D!Maybe
  <2>2. f \in BufferType
    BY <2>1 DEF BufferType
  <2> HIDE DEF f
  <2>3. Kept(t, w)
    BY <1>6, <2>2, BufferKeeps
  <2> QED BY <1>7, <2>3, KeptTold
<1> HIDE DEF w
<1> QED BY <1>3, <1>7, <1>8, BecomesState

\* A request is put on the queue of the node.
LEMMA ScheduleTold ==
    ASSUME NEW t, Told(t), NEW r \in Request, r.k = "start" => t.service.publishes > 0
    PROVE  Told(D!Schedule(t, r))
<1> DEFINE q == Append(t.requests, r)
           v == [t EXCEPT !.requests = q]
<1>1. Typed(t) /\ t.requests \in Seq(Request)
  BY Parts DEF Told
<1>2. q \in Seq(Request) /\ \A i \in DOMAIN q :
         q[i].k = "start" => t.service.publishes > 0 \/ (i \in DOMAIN t.requests /\ t.requests[i].k = "start")
  BY <1>1
<1>3. D!Schedule(t, r) = D!Signal(v, "request")
  BY DEF D!Schedule
<1> HIDE DEF q
<1>4. v \in StateType /\ v.sends = t.sends /\ v.service = t.service /\ v.rx = t.rx /\ v.requests = q
  BY <1>1, <1>2, WithRequests
<1> HIDE DEF v
<1>5. Typed(v) /\ Begun(v)
  <2>1. t.service.publishes \in Nat
    BY <1>1, Parts, ServiceIs
  <2> QED BY <1>1, <1>2, <1>4, <2>1 DEF Typed, Told, Begun, Asks
<1>6. Told(v)
  BY <1>4, <1>5 DEF Told
<1>7. Kept(v, D!Signal(v, "request"))
  BY <1>5, SignalKeeps
<1> QED BY <1>3, <1>6, <1>7, KeptTold

LEMMA ScheduleStartKeeps == ASSUME ToldInv, D!ScheduleStart PROVE Told(D!State')
<1> DEFINE r == [k |-> "start"]
<1>1. Told(D!State) /\ D!State.service.publishes > 0
  BY DEF ToldInv, D!ScheduleStart, D!State
<1>2. r \in Request /\ r.k = "start"
  BY DEF Request
<1>3. D!Becomes(D!Schedule(D!State, r))
  BY DEF D!ScheduleStart
<1> HIDE DEF r
<1>4. Told(D!Schedule(D!State, r))
  BY <1>1, <1>2, ScheduleTold
<1> QED BY <1>3, <1>4, BecomesState

LEMMA DestroyServiceKeeps ==
    ASSUME ToldInv, NEW refused \in BOOLEAN, D!DestroyDiscoveryService(refused) PROVE Told(D!State')
<1> DEFINE v == [dservice EXCEPT !.destroying = TRUE]
           t == [D!State EXCEPT !.service = v]
           r == [k |-> "destroy"]
           m == D!Message(t, "goodbye", NULL)
           q == Append(t.sendQ, m)
           w == [t EXCEPT !.sendQ = q]
<1>1. Typed(D!State) /\ Told(D!State) /\ dservice \in ServiceType
  BY StateTyped, Parts DEF D!State
<1>2. /\ v \in ServiceType /\ v.wants = dservice.wants /\ v.handler = dservice.handler
      /\ v.publishes = dservice.publishes /\ v.hellos = dservice.hellos
      /\ v.sub = dservice.sub /\ v.timer = dservice.timer /\ v.st = dservice.st
  BY <1>1 DEF ServiceType
<1>3. IF refused THEN D!Becomes(D!Schedule(t, r)) ELSE D!Becomes(D!Signal(w, "pubs"))
  <2>1. t = [D!State EXCEPT !.service.destroying = TRUE]
    BY DEF D!State
  <2> HIDE DEF t
  <2>2. [t EXCEPT !.sendQ = Append(@, m)] = w
    BY DEF w, q
  <2> HIDE DEF m, w
  <2> QED BY <2>1, <2>2, Zenon DEF D!DestroyDiscoveryService, m, r
<1> HIDE DEF v
<1>4. Kept(D!State, t)
  BY <1>1, <1>2, ServiceKeeps DEF D!State
<1> HIDE DEF t
<1>5. Told(t) /\ Typed(t)
  BY <1>1, <1>4, KeptTold, KeptTyped
<1>6. Told(D!Schedule(t, r))
  <2>1. r \in Request /\ r.k = "destroy"
    BY DEF Request
  <2> HIDE DEF r
  <2> QED BY <1>5, <2>1, ScheduleTold
<1>7. Told(D!Signal(w, "pubs"))
  <2>1. NULL \in D!Maybe(D!Buffers)
    BY DEF D!Maybe
  <2>2. m \in Message
    BY <1>5, <2>1, MessageType
  <2> HIDE DEF m
  <2>3. q \in Seq(Message)
    BY <1>5, <2>2, Parts
  <2> HIDE DEF q
  <2>4. Kept(t, w) /\ Typed(w)
    BY <1>5, <2>3, QueueKeeps, KeptTyped
  <2> HIDE DEF w
  <2>5. Kept(w, D!Signal(w, "pubs"))
    BY <2>4, SignalKeeps
  <2> QED BY <1>5, <2>4, <2>5, KeptTold
<1> HIDE DEF r, w
<1> QED BY <1>3, <1>6, <1>7, BecomesState

LEMMA ToldInit == ASSUME D!Init PROVE ToldInv
<1>1. PICK handler \in BOOLEAN :
        dservice = [st |-> "live", wants |-> handler, handler |-> FALSE, sub |-> "created",
                    pub |-> "listed", timer |-> "none", payload |-> NULL, publishes |-> 0, hellos |-> 0,
                    destroying |-> FALSE, destroyed |-> 0, refused |-> FALSE]
  BY DEF D!Init
<1>2. dservice \in ServiceType
  BY <1>1, SizesAssumption DEF ServiceType, D!Maybe
<1>3. dbuffer \in BufferType
  BY DEF D!Init, BufferType
<1>4. drx \in RxType /\ \A m \in Discovered : /\ drx[m].st = "none" /\ drx[m].sn = <<>> /\ ~drx[m].linking
                                             /\ ~drx[m].ackSvc /\ ~drx[m].linkSvc
  <2>1. <<>> \in Seq(Nat)
    OBVIOUS
  <2> QED BY <2>1 DEF D!Init, RxType, RxEntry
<1>5. Typed(D!State)
  <2>1. <<>> \in Seq(Message) /\ <<>> \in Seq(Request) /\ IsFiniteSet({})
    BY FS_EmptySet
  <2> QED BY <1>2, <1>3, <1>4, <2>1 DEF Typed, StateType, D!State, D!Init
<1>6. Begun(D!State)
  BY <1>1 DEF Begun, D!State, D!Init, Asks
<1>7. ASSUME NEW m \in Discovered PROVE Reported(D!State.service, m, D!State.rx[m])
  <2>1. dservice.st = "live" /\ drx[m].st = "none" /\ drx[m].sn = <<>> /\ ~drx[m].linking /\ Len(<<>>) = 0
    BY <1>1, <1>4
  <2>2. Reported(dservice, m, drx[m])
    BY <2>1 DEF Reported
  <2> QED BY <2>2 DEF D!State
<1>8. Told(D!State)
  BY <1>5, <1>6, <1>7 DEF Told
<1>9. dpass \in 0 .. 2 /\ dapp = "idle"
  BY DEF D!Init
<1> QED BY <1>8, <1>9 DEF ToldInv

LEMMA Positions == D!Pos("pubs") = 1 /\ D!Pos("free") = 2 /\ D!Pos("request") = 3
<1>1. DOMAIN D!Asyncs = 1 .. 3 /\ D!Asyncs[1] = "pubs" /\ D!Asyncs[2] = "free" /\ D!Asyncs[3] = "request"
  BY DEF D!Asyncs
<1> HIDE DEF D!Asyncs
<1>2. \A i \in DOMAIN D!Asyncs : i = 1 \/ i = 2 \/ i = 3
  BY <1>1
<1> QED BY <1>1, <1>2 DEF D!Pos

LEMMA VisitIs ==
    ASSUME NEW a \in {"pubs", "free", "request"}, D!Visit(a), dsignalled' \subseteq {"pubs", "free", "request"}
    PROVE  dpass' \in 0 .. 2 /\ dapp' = dapp /\ dpass < D!Pos(a)
           /\ (dpass' # 0 <=> \E b \in dsignalled' : D!Pos(b) > D!Pos(a))
<1>1. \A b \in dsignalled' : D!Pos(b) \in 1 .. 3
  BY Positions
<1>2. D!Pos(a) \in 1 .. 3
  BY Positions
<1> QED BY <1>1, <1>2 DEF D!Visit

LEMMA ToldStep == ASSUME ToldInv, D!Next PROVE ToldInv'
<1>1. ASSUME D!Subscribe \/ (\E b \in D!Maybe(D!Buffers) : D!ReplacePayload(b)) \/ D!ScheduleStart
             \/ \E refused \in BOOLEAN : D!DestroyDiscoveryService(refused)
      PROVE  ToldInv'
  <2>1. Told(D!State')
    BY <1>1, SubscribeKeeps, ReplacePayloadKeeps, ScheduleStartKeeps, DestroyServiceKeeps
  <2>2. dpass' = dpass
    BY <1>1 DEF D!Subscribe, D!ReplacePayload, D!ScheduleStart, D!DestroyDiscoveryService
  <2>3. dapp' \in {"payload", "schedule"} => dservice'.publishes > 0
    <3>1. CASE D!Subscribe
      <4>1. dservice.publishes \in Nat /\ dservice \in ServiceType
        BY StateTyped, Parts, ServiceIs DEF D!State
      <4> QED BY <3>1, <4>1 DEF D!Subscribe, ServiceType
    <3>2. CASE \E b \in D!Maybe(D!Buffers) : D!ReplacePayload(b)
      <4>1. PICK b \in D!Maybe(D!Buffers) : D!ReplacePayload(b)
        BY <3>2
      <4> DEFINE d == D!SharedBufferDecRef(D!State, dservice.payload)
      <4>2. Kept(D!State, d) /\ Typed(d)
        BY StateTyped, Parts, ServiceIs, DecRefKeeps, KeptTyped DEF D!State
      <4>3. dservice' = [d.service EXCEPT !.payload = b]
        BY <4>1 DEF D!ReplacePayload, D!Becomes
      <4>4. d.service \in ServiceType /\ d.service.publishes = D!State.service.publishes
        BY <4>2, Parts DEF Kept
      <4> HIDE DEF d
      <4>5. dservice'.publishes = d.service.publishes
        BY <4>3, <4>4 DEF ServiceType
      <4>6. dservice.publishes > 0
        BY <4>1 DEF ToldInv, D!ReplacePayload
      <4> QED BY <4>4, <4>5, <4>6 DEF D!State
    <3> QED BY <1>1, <3>1, <3>2 DEF D!ScheduleStart, D!DestroyDiscoveryService
  <2> QED BY <2>1, <2>2, <2>3 DEF ToldInv
<1>2. ASSUME NEW a \in {"pubs", "free", "request"}, D!Visit(a), Told(D!State'),
             dservice'.publishes = dservice.publishes
      PROVE  ToldInv'
  <2>1. dsignalled' \subseteq {"pubs", "free", "request"}
    <3>1. Typed(D!State')
      BY <1>2 DEF Told
    <3> QED BY <3>1 DEF Typed, StateType, D!State
  <2>2. dpass' \in 0 .. 2 /\ dapp' = dapp
    BY <1>2, <2>1, VisitIs
  <2> QED BY <1>2, <2>2 DEF ToldInv
<1>3. ASSUME D!SendPubs \/ D!FreeTask \/ D!RunRequests PROVE ToldInv'
  <2>1. Told(D!State') /\ dservice'.publishes = dservice.publishes
    BY <1>3, SendPubsKeeps, FreeTaskKeeps, RunRequestsKeeps
  <2>2. \E a \in {"pubs", "free", "request"} : D!Visit(a)
    BY <1>3 DEF D!SendPubs, D!FreeTask, D!RunRequests
  <2> QED BY <1>2, <2>1, <2>2
<1>4. ASSUME D!TimerClosed \/ D!PublishTimerOnTimeout \/ D!Replies \/ (\E x \in dsends : D!SendComplete(x))
             \/ (\E m \in Discovered, linked, sent \in BOOLEAN : D!Receive(m, linked, sent))
      PROVE  ToldInv'
  <2>1. Told(D!State') /\ dservice'.publishes = dservice.publishes
    BY <1>4, TimerClosedKeeps, HelloKeeps, LinkCbKeeps, AckTimerKeeps, SendCompleteKeeps, ReceiveKeeps
       DEF D!Replies
  <2>2. D!Between
    BY <1>4 DEF D!TimerClosed, D!PublishTimerOnTimeout, D!Replies, D!LinkCb, D!AckTimerOnTimeout,
                D!SendComplete, D!Receive
  <2> QED BY <2>1, <2>2 DEF ToldInv, D!Between
<1> QED BY <1>1, <1>3, <1>4 DEF D!Next, D!LoopWork, D!Application

LEMMA ToldStutter == ASSUME ToldInv, UNCHANGED dVars PROVE ToldInv'
BY DEF ToldInv, D!State, dVars

LEMMA ToldHolds == ASSUME ToldInv PROVE D!ReportedOnce
<1> SUFFICES ASSUME NEW m \in Discovered
             PROVE  /\ Len(drx[m].sn) <= 1
                    /\ drx[m].st = "received" /\ ~drx[m].linking /\ dservice.st = "live" =>
                         Len(drx[m].sn) = IF dservice.wants /\ m.kind # "bad" THEN 1 ELSE 0
  BY DEF D!ReportedOnce
<1>1. Reported(dservice, m, drx[m])
  BY DEF ToldInv, Told, D!State
<1> QED BY <1>1 DEF Reported

--------------------------------------------------------------------------------
(* All services. *)

ServicesInv == ToldInv /\ RegistrationInv /\ DispatcherInv /\ SynchronousInv /\ NodeLifeInv

LEMMA ServicesInit == ASSUME Init PROVE ServicesInv
BY ToldInit, RegInit, DispatcherInit, SynchronousInit, NodeLifeInit DEF Init, ServicesInv

\* A step is one of one service, and the variables of the others stay put.
LEMMA ServicesStep == ASSUME ServicesInv, [Next]_vars PROVE ServicesInv'
<1>1. /\ D!Next \/ UNCHANGED dVars
      /\ R!Next \/ UNCHANGED rVars
      /\ P!Next \/ UNCHANGED pVars
      /\ Y!Next \/ UNCHANGED yVars
      /\ N!Next \/ UNCHANGED nVars
  BY Zenon DEF Next, vars
<1>2. ToldInv'
  BY <1>1, ToldStep, ToldStutter DEF ServicesInv
<1>3. RegistrationInv'
  BY <1>1, RegistrationStep, RegistrationStutter DEF ServicesInv
<1>4. DispatcherInv'
  BY <1>1, DispatcherStep, DispatcherStutter DEF ServicesInv
<1>5. SynchronousInv'
  BY <1>1, SynchronousStep, SynchronousStutter DEF ServicesInv
<1>6. NodeLifeInv'
  BY <1>1, NodeLifeStep, NodeLifeStutter DEF ServicesInv
<1> QED BY <1>2, <1>3, <1>4, <1>5, <1>6 DEF ServicesInv

\* The state of the five services is consistent at all times: what the proofs of the
\* properties rest on.
THEOREM ServicesInductive == Spec => []ServicesInv
<1>1. Init => ServicesInv
  BY ServicesInit
<1>2. ServicesInv /\ [Next]_vars => ServicesInv'
  BY ServicesStep
<1> QED BY <1>1, <1>2, PTL DEF Spec

\* Each service calls the application back exactly once for what it accepted, with the
\* outcome, and never for what it refused, whatever the order in which loops, timers and
\* threads take their turns.
THEOREM CalledBackOnceHolds == Spec => []CalledBackOnce
<1>1. ServicesInv => CalledBackOnce
  BY ToldHolds, RegistrationHolds, DispatcherHolds, SynchronousHolds, NodeLifeHolds
     DEF ServicesInv, CalledBackOnce
<1> QED BY <1>1, ServicesInductive, PTL

================================================================================
