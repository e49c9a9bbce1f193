--------------------------- MODULE TransportsProofs ---------------------------
(***************************************************************************)
(* The transports, for any number of connections and any answer of the     *)
(* libraries: what the functions of Dtls do to a connection and the        *)
(* inductive invariant of the DTLS transport, then those of the stream     *)
(* transports, multicast, the resolver and the framing, and the theorems   *)
(* on all of them.                                                         *)
(***************************************************************************)
EXTENDS MCTransports, FiniteSetTheorems, TLAPS

\* Those who own references of a connection between two handlers.
Sum(c) == D!AsNat(c.held) + c.recvQueue + c.sendQueue + c.sentOK + c.sentErr
          + D!AsNat(c.timer) + D!AsNat(c.idle) + c.writes
          + D!AsNat(c.handshake \in D!Waiting)

Fields == DOMAIN D!Nothing
Counters(c) == /\ c.refCount \in Int /\ c.recvQueue \in Nat /\ c.sendQueue \in Nat
               /\ c.sentOK \in Nat /\ c.sentErr \in Nat /\ c.writes \in Nat
               /\ c.accepted \in Nat /\ c.called \in Nat

\* A connection of which the running handler owns n references itself: no assert
\* has failed, and all references and all requests are accounted for.
Sound(c, n) ==
    /\ DOMAIN c = Fields /\ Counters(c) /\ c.asserts
    /\ c.refCount = n + Sum(c)
    /\ c.accepted = c.called + c.sendQueue + c.sentOK + c.sentErr

\* d is where c is, and waits for the same answer.
Kept(c, d) == /\ d.stage = c.stage /\ d.listed = c.listed /\ d.type = c.type
              /\ d.late = c.late /\ d.handshake = c.handshake

--------------------------------------------------------------------------------
(* The functions. *)

\* The fields of a connection.
LEMMA FieldsAre == Fields = 
    {"stage", "type", "listed", "refCount", "held", "handshake", "handshakeDone",
     "sendClosed", "recvClosed", "destroyTime", "recvQueue", "sendQueue", "sentOK",
     "sentErr", "timer", "idle", "writes", "accepted", "called", "asserts", "late"}
BY DEF Fields, D!Nothing

\* DPS_NetConnectionIncRef: the handler owns one reference more.
LEMMA IncRefSound ==
    ASSUME NEW c, NEW n \in Int, Sound(c, n) PROVE Sound(D!IncRef(c), n + 1)
<1>1. DOMAIN D!IncRef(c) = Fields
  BY DEF Sound, D!IncRef
<1> QED BY <1>1, FieldsAre DEF D!IncRef, Sound, Sum, D!AsNat, Counters

\* DPS_NetConnectionDecRef drops j references the handler owns; its assert holds.
LEMMA DecRefSound ==
    ASSUME NEW c, NEW n \in Int, NEW j \in Nat, Sound(c, n), j <= c.refCount
    PROVE  Sound(D!DecRef(c, j), n - j) /\ Kept(c, D!DecRef(c, j))
<1>1. DOMAIN D!DecRef(c, j) = Fields
  BY DEF Sound, D!DecRef
<1>2. D!DecRef(c, j).asserts
  BY FieldsAre DEF D!DecRef, Sound
<1>3. D!DecRef(c, j).refCount = c.refCount - j
  BY FieldsAre DEF D!DecRef, Sound
<1>4. /\ Sum(D!DecRef(c, j)) = Sum(c)
      /\ D!DecRef(c, j).called = c.called /\ D!DecRef(c, j).accepted = c.accepted
      /\ D!DecRef(c, j).recvQueue = c.recvQueue /\ D!DecRef(c, j).sendQueue = c.sendQueue
      /\ D!DecRef(c, j).sentOK = c.sentOK /\ D!DecRef(c, j).sentErr = c.sentErr
      /\ D!DecRef(c, j).writes = c.writes
  BY FieldsAre DEF D!DecRef, Sound, Sum
<1>5. Kept(c, D!DecRef(c, j))
  BY FieldsAre DEF D!DecRef, Sound, Kept
<1>6. Sum(c) \in Int
  BY DEF Sum, Sound, D!AsNat, Counters
<1> QED BY <1>1, <1>2, <1>3, <1>4, <1>5, <1>6 DEF Sound, Counters

\* OnTLSSend: the datagram libuv takes owns the reference.
LEMMA OnTLSSendSound ==
    ASSUME NEW c, NEW n \in Int, NEW tx \in BOOLEAN, Sound(c, n)
    PROVE  Sound(D!OnTLSSend(c, tx), n) /\ Kept(c, D!OnTLSSend(c, tx))
<1>1. DOMAIN D!OnTLSSend(c, tx) = Fields
  BY DEF Sound, D!OnTLSSend, D!IncRef
<1> QED BY <1>1, FieldsAre DEF D!OnTLSSend, D!IncRef, Sound, Sum, D!AsNat, Counters, Kept

\* OnTLSTimerSet: the reference comes and goes with the timer.
LEMMA OnTLSTimerSetSound ==
    ASSUME NEW c, NEW n \in Int, NEW on \in BOOLEAN, Sound(c, n)
    PROVE  Sound(D!OnTLSTimerSet(c, on), n) /\ Kept(c, D!OnTLSTimerSet(c, on))
<1>1. DOMAIN D!OnTLSTimerSet(c, on) = Fields
  BY DEF Sound, D!OnTLSTimerSet
<1> QED BY <1>1, FieldsAre DEF D!OnTLSTimerSet, Sound, Sum, D!AsNat, Counters, Kept

\* DPS_NetConnectionDecRef leaves all else alone.
LEMMA DecRefFields ==
    ASSUME NEW c, NEW j, DOMAIN c = Fields
    PROVE  \A f \in Fields \ {"refCount", "asserts"} : D!DecRef(c, j)[f] = c[f]
BY FieldsAre DEF D!DecRef

\* OnTLSRecv drops a reference with each datagram it takes.
LEMMA OnTLSRecvSound ==
    ASSUME NEW c, NEW n \in Nat, Sound(c, n)
    PROVE  Sound(D!OnTLSRecv(c), n) /\ Kept(c, D!OnTLSRecv(c))
<1> DEFINE d == D!DecRef(c, c.recvQueue)
<1>1. c.recvQueue \in Nat /\ c.recvQueue <= c.refCount
  BY DEF Sound, Sum, Counters, D!AsNat
<1>2. Sound(d, n - c.recvQueue) /\ Kept(c, d)
  BY <1>1, DecRefSound
<1>3. d.recvQueue = c.recvQueue
  BY DecRefFields, FieldsAre DEF Sound
<1>4. D!OnTLSRecv(c) = [d EXCEPT !.recvQueue = 0]
  BY DEF D!OnTLSRecv
<1> HIDE DEF d
<1>5. DOMAIN [d EXCEPT !.recvQueue = 0] = Fields
  BY <1>2 DEF Sound
<1> QED BY <1>1, <1>2, <1>3, <1>4, <1>5, FieldsAre DEF Sound, Sum, D!AsNat, Counters, Kept

\* Deleting the remote node drops the reference it holds, once.
LEMMA DeleteRemoteNodeSound ==
    ASSUME NEW c, NEW n \in Nat, Sound(c, n)
    PROVE  Sound(D!DeleteRemoteNode(c), n) /\ Kept(c, D!DeleteRemoteNode(c))
<1> DEFINE d == D!DecRef(c, 1)
<1>1. CASE c.held
  <2>1. 1 <= c.refCount
    BY <1>1 DEF Sound, Sum, Counters, D!AsNat
  <2>2. Sound(d, n - 1) /\ Kept(c, d)
    BY <2>1, DecRefSound
  <2>3. d.held
    BY <1>1, DecRefFields, FieldsAre DEF Sound
  <2>4. D!DeleteRemoteNode(c) = [d EXCEPT !.held = FALSE]
    BY <1>1 DEF D!DeleteRemoteNode
  <2> HIDE DEF d
  <2>5. DOMAIN [d EXCEPT !.held = FALSE] = Fields
    BY <2>2 DEF Sound
  <2> QED BY <2>2, <2>3, <2>4, <2>5, FieldsAre DEF Sound, Sum, D!AsNat, Counters, Kept
<1>2. CASE ~c.held
  BY <1>2 DEF D!DeleteRemoteNode, Kept
<1> QED BY <1>1, <1>2

\* Functions called one after the other.
LEMMA KeptTrans == ASSUME NEW c, NEW d, NEW e, Kept(c, d), Kept(d, e) PROVE Kept(c, e)
BY DEF Kept

\* The send callbacks: each drops a reference and counts as called, also when
\* one of them makes the upper layer delete the remote node.
LEMMA SendCallbacksSound ==
    ASSUME NEW c, NEW n \in Nat, Sound(c, n)
    PROVE  Sound(D!SendCallbacks(c), n) /\ Kept(c, D!SendCallbacks(c))
<1> DEFINE j == c.sentOK + c.sentErr
           d == D!DecRef(c, j)
           e == [d EXCEPT !.sentOK = 0, !.sentErr = 0, !.called = d.called + j]
<1>1. j \in Nat /\ j <= c.refCount
  BY DEF Sound, Sum, Counters, D!AsNat
<1> HIDE DEF j
<1>2. Sound(d, n - j) /\ Kept(c, d)
  BY <1>1, DecRefSound
<1>3. d.sentOK = c.sentOK /\ d.sentErr = c.sentErr
  BY DecRefFields, FieldsAre DEF Sound
<1>4. D!SendCallbacks(c) = IF c.sentErr > 0 THEN D!DeleteRemoteNode(e) ELSE e
  BY DEF D!SendCallbacks, j
<1> HIDE DEF d
<1>5. DOMAIN e = Fields
  BY <1>2 DEF Sound
<1>6. Sound(e, n) /\ Kept(d, e)
  BY <1>1, <1>2, <1>3, <1>5, FieldsAre DEF Sound, Sum, D!AsNat, Counters, Kept, j
<1> HIDE DEF e
<1>7. Kept(c, e)
  BY <1>2, <1>6, KeptTrans
<1>8. Sound(D!DeleteRemoteNode(e), n) /\ Kept(e, D!DeleteRemoteNode(e))
  BY <1>6, DeleteRemoteNodeSound
<1> QED BY <1>4, <1>6, <1>7, <1>8, KeptTrans

\* CancelPending calls back everything that was queued.
LEMMA CancelPendingSound ==
    ASSUME NEW c, NEW n \in Nat, Sound(c, n)
    PROVE  Sound(D!CancelPending(c), n) /\ Kept(c, D!CancelPending(c))
<1> DEFINE d == D!OnTLSRecv(c)
           e == [d EXCEPT !.sendQueue = 0, !.sentErr = d.sentErr + c.sendQueue]
<1>1. Sound(d, n) /\ Kept(c, d)
  BY OnTLSRecvSound
<1>2. d.sendQueue = c.sendQueue
  BY FieldsAre DEF D!OnTLSRecv, D!DecRef, Sound
<1>3. D!CancelPending(c) = D!SendCallbacks(e)
  BY DEF D!CancelPending
<1> HIDE DEF d
<1>4. DOMAIN e = Fields
  BY <1>1 DEF Sound
<1>5. Sound(e, n) /\ Kept(d, e)
  BY <1>1, <1>2, <1>4, FieldsAre DEF Sound, Sum, D!AsNat, Counters, Kept
<1> HIDE DEF e
<1>6. Kept(c, e)
  BY <1>1, <1>5, KeptTrans
<1> QED BY <1>3, <1>5, <1>6, SendCallbacksSound, KeptTrans

\* TLSSend moves requests from one queue to another; the idler owns a reference once.
LEMMA TLSSendSound ==
    ASSUME NEW c, NEW n \in Nat, NEW tx \in BOOLEAN, Sound(c, n)
    PROVE  Sound(D!TLSSend(c, tx), n) /\ Kept(c, D!TLSSend(c, tx))
<1>1. CASE c.sendQueue = 0
  BY <1>1 DEF D!TLSSend, Kept
<1>2. CASE c.sendQueue # 0
  <2> DEFINE w == IF tx THEN c.sendQueue ELSE 0
             v == c.sendQueue - w
             x == 1 - D!AsNat(c.idle)
             d == [c EXCEPT !.sendQueue = 0, !.sentOK = @ + w,
                            !.sentErr = @ + c.sendQueue - w, !.writes = @ + w, !.idle = TRUE,
                            !.refCount = @ + w + 1 - D!AsNat(c.idle)]
  <2>1. D!TLSSend(c, tx) = d
    BY <1>2 DEF D!TLSSend
  <2>2. DOMAIN d = Fields
    BY DEF Sound
  <2>3. w \in Nat /\ w <= c.sendQueue /\ c.sendQueue \in Nat /\ D!AsNat(c.idle) \in Int
    BY DEF Sound, Counters, D!AsNat
  <2> HIDE DEF w
  <2>4. /\ d.sendQueue = 0 /\ d.sentOK = c.sentOK + w /\ d.sentErr = c.sentErr + c.sendQueue - w
        /\ d.writes = c.writes + w /\ d.idle /\ d.refCount = c.refCount + w + 1 - D!AsNat(c.idle)
        /\ d.held = c.held /\ d.recvQueue = c.recvQueue /\ d.timer = c.timer
        /\ d.handshake = c.handshake /\ d.accepted = c.accepted /\ d.called = c.called
        /\ d.asserts = c.asserts
    BY FieldsAre DEF Sound
  <2>5. Kept(c, d)
    BY FieldsAre DEF Sound, Kept
  <2> HIDE DEF d
  <2>6. Sound(d, n)
    BY <2>2, <2>3, <2>4 DEF Sound, Counters, Sum, D!AsNat
  <2> QED BY <2>1, <2>5, <2>6
<1> QED BY <1>1, <1>2

\* The receive callback may give the upper layer a reference or take it back.
LEMMA receiveCBSound ==
    ASSUME NEW c, NEW n \in Nat, NEW status, NEW keep \in BOOLEAN, Sound(c, n)
    PROVE  Sound(D!receiveCB(c, status, keep), n) /\ Kept(c, D!receiveCB(c, status, keep))
<1> DEFINE i == D!IncRef(c)
           d == [i EXCEPT !.held = TRUE]
<1>1. CASE ~c.held
  <2>1. Sound(i, n + 1) /\ Kept(c, i) /\ ~i.held
    BY <1>1, IncRefSound, FieldsAre DEF Sound, Kept, D!IncRef
  <2> HIDE DEF i
  <2>2. DOMAIN d = Fields
    BY <2>1 DEF Sound
  <2>3. Sound(d, n) /\ Kept(i, d)
    BY <2>1, <2>2, FieldsAre DEF Sound, Sum, D!AsNat, Counters, Kept
  <2>4. Kept(c, d)
    BY <2>1, <2>3, KeptTrans
  <2> HIDE DEF d
  <2> QED BY <1>1, <2>3, <2>4, DeleteRemoteNodeSound DEF D!receiveCB, Kept, i, d
<1>2. CASE c.held
  BY <1>2, DeleteRemoteNodeSound DEF D!receiveCB, Kept
<1> QED BY <1>1, <1>2

\* What a whole handshake or read keeps.
Stays(c, d) == /\ d.stage = c.stage /\ d.listed = c.listed /\ d.type = c.type
               /\ d.late = c.late

\* What keeps more keeps this.
LEMMA KeptStays == ASSUME NEW c, NEW d, Kept(c, d) PROVE Stays(c, d)
BY DEF Kept, Stays

\* TLSRecv drops the reference a connection that waits for its first data has.
LEMMA TLSRecvSound ==
    ASSUME NEW c, NEW n \in Nat, NEW status, NEW keep \in BOOLEAN, NEW tx \in BOOLEAN,
           Sound(c, n)
    PROVE  /\ Sound(D!TLSRecv(c, status, keep, tx), n)
           /\ Stays(c, D!TLSRecv(c, status, keep, tx))
<1> DEFINE r == D!OnTLSRecv(c)
           q == [r EXCEPT !.recvClosed = @ \/ status = "closed"]
           d == D!receiveCB(q, status, keep)
           e == D!DecRef(d, 1)
           f == [e EXCEPT !.handshake = "none"]
<1>1. Sound(r, n) /\ Kept(c, r)
  BY OnTLSRecvSound
<1>2. D!TLSRecv(c, status, keep, tx) =
        CASE status = "again" -> D!OnTLSSend(r, tx)
          [] status # "again" /\ d.handshake = "read" -> f
          [] OTHER -> d
  BY DEF D!TLSRecv
<1> HIDE DEF r
<1>3. DOMAIN q = Fields
  BY <1>1 DEF Sound
<1>4. Sound(q, n) /\ Kept(r, q)
  BY <1>1, <1>3, FieldsAre DEF Sound, Sum, Counters, Kept
<1> HIDE DEF q
<1>5. Sound(d, n) /\ Kept(q, d)
  BY <1>4, receiveCBSound
<1> HIDE DEF d
<1>6. Kept(c, d)
  BY <1>1, <1>4, <1>5, KeptTrans
<1>7. CASE status = "again"
  <2>1. Sound(D!OnTLSSend(r, tx), n) /\ Kept(r, D!OnTLSSend(r, tx))
    BY <1>1, OnTLSSendSound
  <2> QED BY <1>7, <1>2, <1>1, <2>1, KeptTrans, KeptStays
<1>8. CASE status # "again" /\ d.handshake = "read"
  <2>1. 1 <= d.refCount
    BY <1>5, <1>8 DEF Sound, Sum, Counters, D!AsNat, D!Waiting
  <2>2. Sound(e, n - 1) /\ Kept(d, e)
    BY <1>5, <2>1, DecRefSound
  <2> HIDE DEF e
  <2>3. e.handshake = "read"
    BY <1>8, <2>2 DEF Kept
  <2>4. DOMAIN f = Fields
    BY <2>2 DEF Sound
  <2>5. Sound(f, n) /\ Stays(e, f)
    BY <2>2, <2>3, <2>4, FieldsAre DEF Sound, Sum, D!AsNat, Counters, Stays, D!Waiting
  <2> HIDE DEF f
  <2>6. Stays(c, f)
    BY <1>6, <2>2, <2>5 DEF Kept, Stays
  <2> QED BY <1>2, <1>8, <2>5, <2>6
<1>9. CASE status # "again" /\ d.handshake # "read"
  BY <1>2, <1>5, <1>6, <1>9, KeptStays
<1> QED BY <1>7, <1>8, <1>9

\* mbedtls_ssl_handshake: datagrams read, a flight written, the timer set or not.
LEMMA ssl_handshakeSound ==
    ASSUME NEW c, NEW n \in Nat, NEW answer, NEW tx \in BOOLEAN, Sound(c, n)
    PROVE  /\ Sound(D!ssl_handshake(c, answer, tx), n)
           /\ Kept(c, D!ssl_handshake(c, answer, tx))
<1> DEFINE r == D!OnTLSRecv(c)
           w == IF c.handshake = "fail" THEN r ELSE D!OnTLSSend(r, tx)
<1>1. Sound(r, n) /\ Kept(c, r)
  BY OnTLSRecvSound
<1>2. \/ D!ssl_handshake(c, answer, tx) = w
      \/ D!ssl_handshake(c, answer, tx) = D!OnTLSTimerSet(w, TRUE)
      \/ D!ssl_handshake(c, answer, tx) = D!OnTLSTimerSet(w, FALSE)
  BY DEF D!ssl_handshake
<1> HIDE DEF r
<1>3. Sound(w, n) /\ Kept(c, w)
  BY <1>1, OnTLSSendSound, KeptTrans
<1> HIDE DEF w
<1>4. \A on \in BOOLEAN : Sound(D!OnTLSTimerSet(w, on), n) /\ Kept(c, D!OnTLSTimerSet(w, on))
  BY <1>3, OnTLSTimerSetSound, KeptTrans
<1> QED BY <1>2, <1>3, <1>4

\* TLSHandshake takes one reference and leaves it to the wait for an answer, or drops
\* it, on every path: nothing is left over when it failed and nothing is dropped twice.
LEMMA TLSHandshakeSound ==
    ASSUME NEW c, NEW n \in Nat, NEW answer \in {"verify", "read", "done", "fail"},
           NEW tx \in BOOLEAN, Sound(c, n)
    PROVE  /\ Sound(D!TLSHandshake(c, answer, tx), n)
           /\ Stays(c, D!TLSHandshake(c, answer, tx))
<1> DEFINE o == n + 1 - D!AsNat(c.handshake \in D!Waiting)
           p == IF c.handshake \in D!Waiting THEN c ELSE D!IncRef(c)
           m == IF dstate = "running" THEN D!ssl_handshake(p, answer, tx) ELSE p
           a == IF dstate = "running" THEN answer ELSE "fail"
           q == [m EXCEPT !.handshakeDone = TRUE, !.sendClosed = FALSE, !.recvClosed = FALSE]
           d == D!TLSSend(q, tx)
           t == D!TLSHandshake(c, answer, tx)
<1>1. /\ a \in D!Waiting => t = [m EXCEPT !.handshake = a]
      /\ a = "fail" => t = [D!DecRef(m, 1) EXCEPT !.handshake = a]
      /\ a = "done" => t = IF c.type = "server" THEN [d EXCEPT !.handshake = "read"]
                           ELSE [D!DecRef(d, 1) EXCEPT !.handshake = "none"]
  BY DEF D!TLSHandshake, D!Waiting
<1>2. a \in {"verify", "read", "done", "fail"}
  OBVIOUS
<1>3. o \in Nat /\ Sound(p, o) /\ Kept(c, p)
  <2>1. CASE c.handshake \in D!Waiting
    BY <2>1 DEF D!AsNat, Kept
  <2>2. CASE c.handshake \notin D!Waiting
    BY <2>2, IncRefSound, FieldsAre DEF D!AsNat, Kept, D!IncRef, Sound
  <2> QED BY <2>1, <2>2
<1>4. o = n + 1 - D!AsNat(c.handshake \in D!Waiting)
  OBVIOUS
<1> HIDE DEF p, o
<1>5. Sound(m, o) /\ Kept(c, m)
  BY <1>3, ssl_handshakeSound, KeptTrans
<1> HIDE DEF m, a, t
<1>6. DOMAIN q = Fields
  BY <1>5 DEF Sound
<1>7. Sound(q, o) /\ Kept(m, q)
  BY <1>5, <1>6, FieldsAre DEF Sound, Sum, Counters, Kept
<1> HIDE DEF q
<1>8. Sound(d, o) /\ Kept(c, d)
  BY <1>3, <1>5, <1>7, TLSSendSound, KeptTrans
<1> HIDE DEF d
\* The reference the handshake holds now is the one that waiting for an answer owns.
<1>9. ASSUME NEW e, Sound(e, o), Kept(c, e), NEW h \in D!Waiting
      PROVE  Sound([e EXCEPT !.handshake = h], n) /\ Stays(c, [e EXCEPT !.handshake = h])
  <2> DEFINE f == [e EXCEPT !.handshake = h]
  <2>1. DOMAIN f = Fields
    BY <1>9 DEF Sound
  <2>2. e.handshake = c.handshake
    BY <1>9 DEF Kept
  <2> QED BY <1>3, <1>4, <1>9, <2>1, <2>2, FieldsAre
          DEF Sound, Sum, Counters, D!AsNat, Kept, Stays
\* ... or it is dropped.
<1>10. ASSUME NEW e, Sound(e, o), Kept(c, e), NEW h, h \notin D!Waiting
       PROVE  /\ Sound([D!DecRef(e, 1) EXCEPT !.handshake = h], n)
              /\ Stays(c, [D!DecRef(e, 1) EXCEPT !.handshake = h])
  <2> DEFINE g == D!DecRef(e, 1)
             f == [g EXCEPT !.handshake = h]
  <2>1. e.handshake = c.handshake
    BY <1>10 DEF Kept
  <2>2. 1 <= e.refCount
    BY <1>3, <1>4, <1>10, <2>1 DEF Sound, Sum, Counters, D!AsNat
  <2>3. Sound(g, o - 1) /\ Kept(e, g)
    BY <1>3, <1>10, <2>2, DecRefSound
  <2> HIDE DEF g
  <2>4. DOMAIN f = Fields
    BY <2>3 DEF Sound
  <2>5. g.handshake = c.handshake
    BY <2>1, <2>3 DEF Kept
  <2>6. Sound(f, n)
    BY <1>3, <1>4, <1>10, <2>3, <2>4, <2>5, FieldsAre DEF Sound, Sum, Counters, D!AsNat
  <2>7. Stays(c, f)
    BY <1>10, <2>3, FieldsAre DEF Kept, Stays, Sound
  <2> QED BY <2>6, <2>7 DEF g
<1>11. "read" \in D!Waiting /\ "none" \notin D!Waiting /\ "fail" \notin D!Waiting
  BY DEF D!Waiting
<1>12. CASE a \in D!Waiting
  <2>1. Sound(t, n) /\ Stays(c, t)
    BY <1>1, <1>5, <1>9, <1>12
  <2> QED BY <2>1 DEF t
<1>13. CASE a = "fail"
  <2>1. Sound(t, n) /\ Stays(c, t)
    BY <1>1, <1>5, <1>10, <1>11, <1>13
  <2> QED BY <2>1 DEF t
<1>14. CASE a = "done"
  <2>1. Sound(t, n) /\ Stays(c, t)
    BY <1>1, <1>8, <1>9, <1>10, <1>11, <1>14
  <2> QED BY <2>1 DEF t
<1> QED BY <1>2, <1>12, <1>13, <1>14 DEF D!Waiting

\* A handler's own references are counted.
LEMMA SoundCount ==
    ASSUME NEW c, NEW n \in Nat, Sound(c, n) PROVE c.refCount \in Int /\ n <= c.refCount
BY DEF Sound, Sum, Counters, D!AsNat

\* A closed connection has no owner unless its peer was heard again, as only an
\* incoming one can be, and a freed one is on no list.
Ended == D!Closing \cup {"freed"}
Quiet(c) == /\ c.stage \in Ended /\ ~c.late => c.refCount = 0
            /\ c.stage = "freed" => ~c.listed
            /\ c.late => c.type = "server"

\* A connection that may have owners.
Busy(c) == /\ c.late \/ c.stage \notin Ended
           /\ c.stage # "freed"
           /\ c.late => c.type = "server"

\* Without a reference nothing is queued, running, written or awaited.
LEMMA Unowned ==
    ASSUME NEW c, Sound(c, 0), c.refCount <= 0
    PROVE  /\ c.recvQueue = 0 /\ c.sendQueue = 0 /\ c.sentOK = 0 /\ c.sentErr = 0
           /\ ~c.held /\ ~c.timer /\ ~c.idle /\ c.handshake \notin D!Waiting
<1>1. c.recvQueue <= 0 /\ c.sendQueue <= 0 /\ c.sentOK <= 0 /\ c.sentErr <= 0
  BY DEF Sound, Sum, Counters, D!AsNat
<1>2. ~c.held /\ ~c.timer /\ ~c.idle
  BY DEF Sound, Sum, Counters, D!AsNat
<1>3. c.handshake \notin D!Waiting
  BY DEF Sound, Sum, Counters, D!AsNat
<1> QED BY <1>1, <1>2, <1>3 DEF Sound, Counters

\* DestroyConnection: its asserts hold when the last reference is gone, and it
\* closes the connection unless it has to say goodbye first.
LEMMA DestroyConnectionSound ==
    ASSUME NEW c, NEW tx \in BOOLEAN, Sound(c, 0), c.refCount = 0
    PROVE  LET d == D!DestroyConnection(c, tx)
           IN  /\ Sound(d, 0) /\ d.listed = c.listed
               /\ Busy(c) \/ (c.sendClosed /\ Quiet(c)) => Quiet(d)
<1> DEFINE ok == c.asserts /\ c.recvQueue + c.sendQueue + c.sentOK + c.sentErr = 0
                           /\ c.handshake \notin D!Waiting
           a == [c EXCEPT !.asserts = ok]
           s == D!OnTLSSend(a, tx)
           b == IF c.sendClosed THEN a
                ELSE [s EXCEPT !.sendClosed = TRUE, !.destroyTime = @ \/ ~c.recvClosed]
           next == IF c.type = "client" THEN "socket" ELSE "idle"
           idle == b.asserts /\ ~b.timer /\ ~b.idle
           e == [b EXCEPT !.stage = next, !.asserts = idle]
           d == D!DestroyConnection(c, tx)
<1>1. d = IF b.refCount = 0 /\ b.recvClosed /\ b.stage = "open" THEN e ELSE b
  BY DEF D!DestroyConnection
<1>2. ok = TRUE
  <2>1. /\ c.recvQueue = 0 /\ c.sendQueue = 0 /\ c.sentOK = 0 /\ c.sentErr = 0
        /\ c.handshake \notin D!Waiting
    BY Unowned
  <2> QED BY <2>1 DEF Sound
<1> HIDE DEF ok
<1>3. DOMAIN a = Fields
  BY DEF Sound
<1>4. Sound(a, 0) /\ Kept(c, a) /\ a.refCount = 0
  BY <1>2, <1>3, FieldsAre DEF Sound, Sum, Counters, Kept
<1> HIDE DEF a
<1>5. Sound(s, 0) /\ Kept(a, s)
  BY <1>4, OnTLSSendSound
<1> HIDE DEF s
<1>6. DOMAIN b = Fields
  BY <1>4, <1>5 DEF Sound
<1>7. Sound(b, 0) /\ Kept(c, b)
  BY <1>4, <1>5, <1>6, FieldsAre DEF Sound, Sum, Counters, Kept
<1>8. c.sendClosed => b.refCount = 0
  BY <1>4
<1> HIDE DEF b
<1>9. CASE b.refCount = 0 /\ b.recvClosed /\ b.stage = "open"
  <2>1. idle = TRUE
    BY <1>7, <1>9, Unowned DEF Sound
  <2> HIDE DEF idle
  <2>2. DOMAIN e = Fields
    BY <1>7 DEF Sound
  <2>3. /\ e.refCount = 0 /\ e.stage \in {"socket", "idle"}
        /\ e.late = b.late /\ e.type = b.type
    BY <1>9, <1>7, FieldsAre DEF Sound
  <2>4. Sound(e, 0) /\ e.listed = b.listed
    BY <1>7, <2>1, <2>2, FieldsAre DEF Sound, Sum, Counters
  <2> QED BY <1>1, <1>7, <1>9, <2>3, <2>4 DEF Quiet, Busy, Kept
<1>10. CASE ~(b.refCount = 0 /\ b.recvClosed /\ b.stage = "open")
  BY <1>1, <1>7, <1>8, <1>10 DEF Quiet, Busy, Kept
<1> QED BY <1>9, <1>10

\* The end of a handler.
LEMMA SettleSound ==
    ASSUME NEW c, NEW tx \in BOOLEAN, Sound(c, 0)
    PROVE  LET d == D!Settle(c, tx)
           IN  /\ Sound(d, 0) /\ d.listed = c.listed
               /\ Busy(c) \/ (c.sendClosed /\ Quiet(c)) => Quiet(d)
BY DestroyConnectionSound DEF D!Settle, Quiet, Busy

--------------------------------------------------------------------------------
(* The invariant and the handlers. *)

\* Every connection is accounted for; a closed one that was not heard again has no
\* owner; the context closes only with an empty list.
DtlsInv ==
    /\ DOMAIN dcn = Peers
    /\ \A k \in Peers : Sound(dcn[k], 0)
    /\ \A k \in Peers : Quiet(dcn[k])
    /\ drx # "open" => dstate # "running" /\ D!cns = {}

\* Before CreateConnection.
LEMMA NothingSound == Sound(D!Nothing, 0) /\ Quiet(D!Nothing)
<1> DEFINE c == D!Nothing
<1>1. /\ c.refCount = 0 /\ c.recvQueue = 0 /\ c.sendQueue = 0 /\ c.sentOK = 0
      /\ c.sentErr = 0 /\ c.writes = 0 /\ c.accepted = 0 /\ c.called = 0
      /\ ~c.held /\ ~c.timer /\ ~c.idle /\ c.handshake = "none" /\ c.asserts /\ c.stage = "none"
      /\ ~c.late
  BY DEF D!Nothing
<1> QED BY <1>1 DEF Sound, Sum, Counters, D!AsNat, D!Waiting, Quiet, Ended, D!Closing, Fields

\* A new connection.
LEMMA CreateConnectionSound ==
    ASSUME NEW type
    PROVE  LET c == D!CreateConnection(type)
           IN  /\ Sound(c, 0) /\ c.stage = "open" /\ ~c.late
               /\ ~c.held /\ c.sendQueue = 0 /\ c.accepted = 0
<1> DEFINE c == D!CreateConnection(type)
<1>1. DOMAIN c = Fields
  BY DEF D!CreateConnection, Fields
<1>2. /\ c.refCount = 0 /\ c.recvQueue = 0 /\ c.sendQueue = 0 /\ c.sentOK = 0
      /\ c.sentErr = 0 /\ c.writes = 0 /\ c.accepted = 0 /\ c.called = 0
      /\ ~c.held /\ ~c.timer /\ ~c.idle /\ c.handshake = "none" /\ c.asserts /\ c.stage = "open"
      /\ ~c.late
  BY DEF D!Nothing, D!CreateConnection
<1> HIDE DEF c
<1>3. Sound(c, 0)
  BY <1>1, <1>2 DEF Sound, Sum, Counters, D!AsNat, D!Waiting
<1> QED BY <1>2, <1>3 DEF c

\* A connection that could not be set up is on no list.
LEMMA CreateFailsSound ==
    ASSUME NEW type
    PROVE  LET c == D!CreateFails(type) IN Sound(c, 0) /\ Quiet(c) /\ ~c.listed
<1> DEFINE c == D!CreateFails(type)
<1>1. DOMAIN c = Fields
  BY DEF D!CreateFails, Fields
<1>2. /\ c.refCount = 0 /\ c.recvQueue = 0 /\ c.sendQueue = 0 /\ c.sentOK = 0
      /\ c.sentErr = 0 /\ c.writes = 0 /\ c.accepted = 0 /\ c.called = 0
      /\ ~c.held /\ ~c.timer /\ ~c.idle /\ c.handshake = "none" /\ c.asserts
      /\ ~c.listed /\ ~c.late
  BY DEF D!Nothing, D!CreateFails
<1> HIDE DEF c
<1>3. Sound(c, 0) /\ Quiet(c)
  BY <1>1, <1>2 DEF Sound, Sum, Counters, D!AsNat, D!Waiting, Quiet
<1> QED BY <1>2, <1>3 DEF c

\* A handler that leaves one connection in order.
LEMMA BecomeInv ==
    ASSUME DtlsInv, NEW k \in Peers, NEW c, D!Become(k, c), UNCHANGED <<dstate, drx>>,
           Sound(c, 0), Quiet(c), c.listed => dcn[k].listed \/ dstate = "running"
    PROVE  DtlsInv'
<1>1. DOMAIN dcn' = Peers /\ \A j \in Peers : dcn'[j] = IF j = k THEN c ELSE dcn[j]
  BY DEF DtlsInv, D!Become
<1>2. \A j \in Peers : Sound(dcn'[j], 0)
  BY <1>1 DEF DtlsInv
<1>3. \A j \in Peers : Quiet(dcn'[j])
  BY <1>1 DEF DtlsInv
<1>4. drx' # "open" => dstate' # "running" /\ D!cns' = {}
  BY <1>1 DEF DtlsInv, D!cns
<1> QED BY <1>1, <1>2, <1>3, <1>4 DEF DtlsInv

\* A handshake that is not done touches no request.
LEMMA HandshakeUntouched ==
    ASSUME NEW c, NEW answer \in {"read", "fail"}, NEW tx \in BOOLEAN, DOMAIN c = Fields
    PROVE  LET d == D!TLSHandshake(c, answer, tx)
           IN  d.held = c.held /\ d.sendQueue = c.sendQueue /\ d.accepted = c.accepted
<1> DEFINE p == IF c.handshake \in D!Waiting THEN c ELSE D!IncRef(c)
           r == D!OnTLSRecv(p)
           w == IF p.handshake = "fail" THEN r ELSE D!OnTLSSend(r, tx)
           m == IF dstate = "running" THEN D!ssl_handshake(p, answer, tx) ELSE p
           a == IF dstate = "running" THEN answer ELSE "fail"
           Alike(d) == /\ DOMAIN d = Fields
                       /\ d.held = c.held /\ d.sendQueue = c.sendQueue /\ d.accepted = c.accepted
<1>1. Alike(p)
  <2>1. DOMAIN p = Fields
    BY DEF D!IncRef
  <2> QED BY <2>1, FieldsAre DEF D!IncRef
<1>2. D!ssl_handshake(p, answer, tx) \in {w, D!OnTLSTimerSet(w, TRUE), D!OnTLSTimerSet(w, FALSE)}
  BY DEF D!ssl_handshake
<1>3. D!TLSHandshake(c, answer, tx) \in {[m EXCEPT !.handshake = a], [D!DecRef(m, 1) EXCEPT !.handshake = a]}
  BY DEF D!TLSHandshake, D!Waiting
<1> HIDE DEF p
<1>4. Alike(r)
  <2>1. DOMAIN r = Fields
    BY <1>1 DEF D!OnTLSRecv, D!DecRef
  <2> QED BY <1>1, <2>1, FieldsAre DEF D!OnTLSRecv, D!DecRef
<1> HIDE DEF r
<1>5. Alike(w)
  <2>1. DOMAIN w = Fields
    BY <1>4 DEF D!OnTLSSend, D!IncRef
  <2> QED BY <1>4, <2>1, FieldsAre DEF D!OnTLSSend, D!IncRef
<1> HIDE DEF w
<1>6. \A on \in BOOLEAN : Alike(D!OnTLSTimerSet(w, on))
  <2>1. \A on \in BOOLEAN : DOMAIN D!OnTLSTimerSet(w, on) = Fields
    BY <1>5 DEF D!OnTLSTimerSet
  <2> QED BY <1>5, <2>1, FieldsAre DEF D!OnTLSTimerSet
<1>7. Alike(m)
  BY <1>1, <1>2, <1>5, <1>6
<1> HIDE DEF m, a
<1>8. /\ [m EXCEPT !.handshake = a].held = m.held
      /\ [m EXCEPT !.handshake = a].sendQueue = m.sendQueue
      /\ [m EXCEPT !.handshake = a].accepted = m.accepted
  BY <1>7, FieldsAre
<1>9. /\ [D!DecRef(m, 1) EXCEPT !.handshake = a].held = m.held
      /\ [D!DecRef(m, 1) EXCEPT !.handshake = a].sendQueue = m.sendQueue
      /\ [D!DecRef(m, 1) EXCEPT !.handshake = a].accepted = m.accepted
  BY <1>7, FieldsAre DEF D!DecRef
<1> QED BY <1>3, <1>7, <1>8, <1>9

\* The request DPS_NetSend takes owns a reference.
LEMMA TakenSound ==
    ASSUME NEW c, Sound(c, 1)
    PROVE  LET f == [c EXCEPT !.sendQueue = @ + 1, !.accepted = @ + 1]
           IN  Sound(f, 0) /\ Stays(c, f)
<1> DEFINE f == [c EXCEPT !.sendQueue = @ + 1, !.accepted = @ + 1]
<1>1. DOMAIN f = Fields
  BY DEF Sound
<1>2. /\ f.sendQueue = c.sendQueue + 1 /\ f.accepted = c.accepted + 1
      /\ f.refCount = c.refCount /\ f.recvQueue = c.recvQueue /\ f.held = c.held
      /\ f.sentOK = c.sentOK /\ f.sentErr = c.sentErr /\ f.timer = c.timer
      /\ f.idle = c.idle /\ f.writes = c.writes /\ f.handshake = c.handshake
      /\ f.called = c.called /\ f.asserts = c.asserts /\ f.stage = c.stage
      /\ f.listed = c.listed /\ f.type = c.type /\ f.late = c.late
  BY FieldsAre DEF Sound
<1> HIDE DEF f
<1>3. f.refCount = 0 + Sum(f)
  BY <1>2 DEF Sound, Sum, Counters, D!AsNat
<1>4. f.accepted = f.called + f.sendQueue + f.sentOK + f.sentErr
  BY <1>2 DEF Sound, Counters
<1>5. Counters(f)
  BY <1>2 DEF Sound, Counters
<1> QED BY <1>1, <1>2, <1>3, <1>4, <1>5 DEF Sound, Stays, f

\* The remote node owns the reference it was given.
LEMMA HeldSound ==
    ASSUME NEW c, NEW n \in Nat, Sound(c, n + 1), ~c.held
    PROVE  Sound([c EXCEPT !.held = TRUE], n) /\ Kept(c, [c EXCEPT !.held = TRUE])
<1>1. DOMAIN [c EXCEPT !.held = TRUE] = Fields
  BY DEF Sound
<1> QED BY <1>1, FieldsAre DEF Sound, Sum, D!AsNat, Counters, Kept

\* DPS_NetSend to a new peer, whatever fails.
LEMMA NetSendNewInv ==
    ASSUME DtlsInv, NEW k \in Peers, D!NetSendNew(k) PROVE DtlsInv'
<1>1. CASE D!Become(k, D!CreateFails("client"))
  BY <1>1, CreateFailsSound, BecomeInv DEF D!NetSendNew
<1>2. ASSUME NEW tx \in BOOLEAN, NEW a \in {"read", "fail"},
             LET c == D!TLSHandshake(D!IncRef(D!CreateConnection("client")), a, tx)
             IN  D!Become(k, IF D!HandshakeFailed(c) THEN D!Settle(D!DecRef(c, 1), tx)
                             ELSE [D!IncRef(c) EXCEPT !.held = TRUE, !.sendQueue = 1,
                                                      !.accepted = 1])
      PROVE  DtlsInv'
  <2> DEFINE b == D!CreateConnection("client")
             i == D!IncRef(b)
             c == D!TLSHandshake(i, a, tx)
             e == D!IncRef(c)
             g == [e EXCEPT !.held = TRUE]
             h == [g EXCEPT !.sendQueue = @ + 1, !.accepted = @ + 1]
             f == [e EXCEPT !.held = TRUE, !.sendQueue = 1, !.accepted = 1]
  <2>1. Sound(b, 0) /\ b.stage = "open" /\ ~b.late /\ ~b.held /\ b.sendQueue = 0 /\ b.accepted = 0
    BY CreateConnectionSound
  <2>2. D!Become(k, IF D!HandshakeFailed(c) THEN D!Settle(D!DecRef(c, 1), tx) ELSE f)
    BY <1>2
  <2>3. dstate = "running" /\ UNCHANGED <<dstate, drx>>
    BY DEF D!NetSendNew
  <2> HIDE DEF b
  <2>4. Sound(i, 1) /\ i.stage = "open" /\ ~i.late /\ ~i.held /\ i.sendQueue = 0 /\ i.accepted = 0
    BY <2>1, IncRefSound, FieldsAre DEF D!IncRef, Sound
  <2> HIDE DEF i
  <2>5. Sound(c, 1) /\ c.stage = "open" /\ ~c.late
    <3>1. a \in {"verify", "read", "done", "fail"}
      OBVIOUS
    <3>2. Sound(c, 1) /\ Stays(i, c)
      BY <2>4, <3>1, TLSHandshakeSound
    <3> HIDE DEF c
    <3> QED BY <2>4, <3>2 DEF Stays
  <2>6. ~c.held /\ c.sendQueue = 0 /\ c.accepted = 0
    BY <2>4, HandshakeUntouched DEF Sound
  <2> HIDE DEF c
  <2>7. "open" \notin Ended
    BY DEF Ended, D!Closing
  <2>8. CASE D!HandshakeFailed(c)
    <3>1. Sound(D!DecRef(c, 1), 0) /\ Busy(D!DecRef(c, 1))
      BY <2>5, <2>7, DecRefSound, SoundCount DEF Kept, Busy
    <3>2. Sound(D!Settle(D!DecRef(c, 1), tx), 0) /\ Quiet(D!Settle(D!DecRef(c, 1), tx))
      BY <3>1, SettleSound
    <3> QED BY <2>2, <2>3, <2>8, <3>2, BecomeInv
  <2>9. CASE ~D!HandshakeFailed(c)
    <3>1. Sound(e, 2) /\ e.stage = "open" /\ ~e.late /\ ~e.held /\ e.sendQueue = 0 /\ e.accepted = 0
      BY <2>5, <2>6, IncRefSound, FieldsAre DEF D!IncRef, Sound
    <3> HIDE DEF e
    <3>2. f = h
      <4>1. g.sendQueue + 1 = 1 /\ g.accepted + 1 = 1
        BY <3>1, FieldsAre DEF Sound
      <4> HIDE DEF e
      <4>2. h = [g EXCEPT !.sendQueue = 1, !.accepted = 1]
        <5>1. h = [g EXCEPT !.sendQueue = g.sendQueue + 1, !.accepted = g.accepted + 1]
          BY <3>1, FieldsAre DEF Sound
        <5> QED BY <4>1, <5>1
      <4> QED BY <4>2
    <3>3. Sound(f, 0) /\ f.stage = "open" /\ ~f.late
      <4>1. Sound(g, 1) /\ g.stage = "open" /\ ~g.late
        BY <3>1, HeldSound DEF Kept
      <4> HIDE DEF g, f
      <4> QED BY <4>1, <3>2, TakenSound DEF Stays
    <3>4. Quiet(f)
      BY <2>7, <3>3 DEF Quiet
    <3> HIDE DEF f
    <3> QED BY <2>2, <2>3, <2>9, <3>3, <3>4, BecomeInv
  <2> QED BY <2>8, <2>9
<1> QED BY <1>1, <1>2 DEF D!NetSendNew

\* DPS_NetSend on a connection.
LEMMA NetSendInv ==
    ASSUME DtlsInv, NEW k \in Peers, D!NetSend(k) PROVE DtlsInv'
<1> DEFINE b == dcn[k]
           i == D!IncRef(b)
           c == [i EXCEPT !.sendQueue = @ + 1, !.accepted = @ + 1]
<1>1. PICK tx \in BOOLEAN :
          D!Become(k, IF b.sendQueue = 0 /\ c.handshakeDone THEN D!TLSSend(c, tx) ELSE c)
  BY DEF D!NetSend
<1>2. b.held /\ b.stage # "freed" /\ dstate = "running" /\ UNCHANGED <<dstate, drx>>
  BY DEF D!NetSend, D!Allocated
<1>3. Sound(b, 0) /\ Quiet(b)
  BY DEF DtlsInv
<1> HIDE DEF b
<1>4. Sound(i, 1) /\ Stays(b, i)
  BY <1>3, IncRefSound, FieldsAre DEF Sound, D!IncRef, Stays
<1> HIDE DEF i
<1>6. Sound(c, 0) /\ Stays(b, c)
  BY <1>4, TakenSound DEF Stays
<1> HIDE DEF c
<1>7. Busy(b)
  BY <1>2, <1>3 DEF Quiet, Busy, Sound, Sum, Counters, D!AsNat
<1>8. ASSUME NEW d, Sound(d, 0), Stays(b, d), D!Become(k, d) PROVE DtlsInv'
  <2>1. Quiet(d)
    BY <1>7, <1>8 DEF Quiet, Busy, Stays
  <2> QED BY <1>2, <1>8, <2>1, BecomeInv
<1>9. Sound(D!TLSSend(c, tx), 0) /\ Stays(b, D!TLSSend(c, tx))
  BY <1>6, TLSSendSound DEF Kept, Stays
<1> QED BY <1>1, <1>6, <1>8, <1>9

\* The end of a handler for a connection that may have owners.
LEMMA SettleInv ==
    ASSUME DtlsInv, NEW k \in Peers, NEW c, NEW tx \in BOOLEAN,
           Sound(c, 0), Busy(c),
           c.listed => dcn[k].listed \/ dstate = "running",
           D!Become(k, D!Settle(c, tx)), UNCHANGED <<dstate, drx>>
    PROVE  DtlsInv'
<1> DEFINE d == D!Settle(c, tx)
<1>1. Sound(d, 0) /\ d.listed = c.listed /\ Quiet(d)
  BY SettleSound
<1> HIDE DEF d
<1>2. D!Become(k, d)
  BY DEF d
<1> QED BY <1>1, <1>2, BecomeInv

\* Somebody owns a reference: the connection is not closed, or was heard again.
LEMMA OwnedOpen ==
    ASSUME DtlsInv, NEW k \in Peers, D!Allocated(k),
           dcn[k].held \/ dcn[k].idle \/ dcn[k].writes > 0
    PROVE  Busy(dcn[k])
<1>1. Sound(dcn[k], 0)
  BY DEF DtlsInv
<1>2. dcn[k].refCount > 0
  BY <1>1 DEF Sound, Sum, Counters, D!AsNat
<1> QED BY <1>2 DEF DtlsInv, Quiet, Busy, D!Allocated

\* The upper layer lets go.
LEMMA NetConnectionDecRefInv ==
    ASSUME DtlsInv, NEW k \in Peers, D!NetConnectionDecRef(k) PROVE DtlsInv'
<1> DEFINE c == D!DeleteRemoteNode(dcn[k])
<1>1. PICK tx \in BOOLEAN : D!Become(k, D!Settle(c, tx))
  BY DEF D!NetConnectionDecRef
<1>2. Sound(c, 0) /\ Stays(dcn[k], c)
  BY DeleteRemoteNodeSound DEF DtlsInv, Kept, Stays
<1>3. Busy(dcn[k])
  BY OwnedOpen DEF D!NetConnectionDecRef
<1>4. UNCHANGED <<dstate, drx>>
  BY DEF D!NetConnectionDecRef
<1> HIDE DEF c
<1>5. Busy(c)
  BY <1>2, <1>3 DEF Busy, Stays
<1> QED BY <1>1, <1>2, <1>4, <1>5, SettleInv DEF Stays

\* A datagram for a connection that is not freed.
LEMMA DeliverInv ==
    ASSUME DtlsInv, NEW k \in Peers, NEW c, NEW tx \in BOOLEAN, D!Deliver(k, c, tx),
           Sound(c, 0), Busy(c),
           c.listed => dcn[k].listed \/ dstate = "running", UNCHANGED <<dstate, drx>>
    PROVE  DtlsInv'
<1> DEFINE i == D!IncRef(c)
           q == [i EXCEPT !.recvQueue = @ + 1]
<1>1. Sound(i, 1) /\ Stays(c, i)
  BY IncRefSound, FieldsAre DEF Sound, D!IncRef, Stays
<1>2. \/ \E s \in {"data", "closed", "again", "error"}, keep \in BOOLEAN :
             D!Become(k, D!Settle(D!TLSRecv(q, s, keep, tx), tx))
      \/ \E a \in D!HandshakeAnswers(c) :
             LET h == D!TLSHandshake(q, a, tx)
             IN  D!Become(k, D!Settle(IF D!HandshakeFailed(h)
                                      THEN D!OnTLSTimerSet(D!CancelPending(h), FALSE)
                                      ELSE h, tx))
  BY DEF D!Deliver
<1> HIDE DEF i
<1>3. DOMAIN q = Fields
  BY <1>1 DEF Sound
<1>4. Sound(q, 0) /\ Stays(i, q)
  BY <1>1, <1>3, FieldsAre DEF Sound, Sum, Counters, Stays, D!AsNat
<1> HIDE DEF q
<1>5. ASSUME NEW d, Sound(d, 0), Stays(q, d), D!Become(k, D!Settle(d, tx)) PROVE DtlsInv'
  <2>1. Busy(d) /\ d.listed = c.listed
    BY <1>1, <1>4, <1>5 DEF Stays, Busy
  <2> QED BY <1>5, <2>1, SettleInv
<1>6. ASSUME NEW s, NEW keep \in BOOLEAN,
             D!Become(k, D!Settle(D!TLSRecv(q, s, keep, tx), tx))
      PROVE  DtlsInv'
  <2> DEFINE d == D!TLSRecv(q, s, keep, tx)
  <2>1. Sound(d, 0) /\ Stays(q, d) /\ D!Become(k, D!Settle(d, tx))
    BY <1>4, <1>6, TLSRecvSound
  <2> HIDE DEF d
  <2> QED BY <1>5, <2>1
<1>7. ASSUME NEW a \in D!HandshakeAnswers(c),
             LET h == D!TLSHandshake(q, a, tx)
             IN  D!Become(k, D!Settle(IF D!HandshakeFailed(h)
                                      THEN D!OnTLSTimerSet(D!CancelPending(h), FALSE)
                                      ELSE h, tx))
      PROVE  DtlsInv'
  <2> DEFINE h == D!TLSHandshake(q, a, tx)
             p == D!CancelPending(h)
             t == D!OnTLSTimerSet(p, FALSE)
  <2>1. D!Become(k, D!Settle(IF D!HandshakeFailed(h) THEN t ELSE h, tx))
    BY <1>7
  <2>2. a \in {"verify", "read", "done", "fail"}
    BY DEF D!HandshakeAnswers
  <2>3. Sound(h, 0) /\ Stays(q, h)
    BY <1>4, <2>2, TLSHandshakeSound
  <2> HIDE DEF h
  <2>4. Sound(p, 0) /\ Stays(q, p)
    BY <2>3, CancelPendingSound DEF Stays, Kept
  <2> HIDE DEF p
  <2>5. Sound(t, 0) /\ Stays(q, t)
    <3>1. \A on \in BOOLEAN : /\ Sound(D!OnTLSTimerSet(p, on), 0)
                              /\ Kept(p, D!OnTLSTimerSet(p, on))
      BY <2>4, OnTLSTimerSetSound
    <3>2. Sound(t, 0) /\ Kept(p, t)
      BY <3>1
    <3> HIDE DEF t
    <3> QED BY <2>4, <3>2 DEF Stays, Kept
  <2> HIDE DEF t
  <2> QED BY <1>5, <2>1, <2>3, <2>5
<1> QED BY <1>2, <1>6, <1>7

\* A datagram of a known peer or of a new one.
LEMMA OnUdpDataInv ==
    ASSUME DtlsInv, NEW k \in Peers, D!OnUdpData(k) PROVE DtlsInv'
<1>1. UNCHANGED <<dstate, drx>>
  BY DEF D!OnUdpData
<1>2. CASE dcn[k].stage = "none"
  <2>1. dstate = "running"
    BY <1>2 DEF D!OnUdpData
  <2>2. CASE D!Become(k, D!CreateFails("server"))
    <3> DEFINE c == D!CreateFails("server")
    <3>1. Sound(c, 0) /\ Quiet(c) /\ ~c.listed /\ D!Become(k, c)
      BY <2>2, CreateFailsSound
    <3> HIDE DEF c
    <3> QED BY <1>1, <3>1, BecomeInv
  <2>3. ASSUME NEW tx \in BOOLEAN, D!Deliver(k, D!CreateConnection("server"), tx)
        PROVE  DtlsInv'
    <3> DEFINE c == D!CreateConnection("server")
    <3>1. Sound(c, 0) /\ c.stage = "open" /\ ~c.late
      BY CreateConnectionSound
    <3>2. D!Deliver(k, c, tx)
      BY <2>3
    <3> HIDE DEF c
    <3>3. Busy(c)
      BY <3>1 DEF Busy, Ended, D!Closing
    <3> QED BY <1>1, <2>1, <3>1, <3>2, <3>3, DeliverInv
  <2> QED BY <1>2, <2>2, <2>3 DEF D!OnUdpData
<1>3. CASE dcn[k].stage # "none"
  <2> DEFINE b == dcn[k]
             again == b.stage \in D!Closing
             c == [b EXCEPT !.late = again]
  <2>1. PICK tx \in BOOLEAN : D!Deliver(k, c, tx)
    BY <1>3 DEF D!OnUdpData
  <2>2. b.listed /\ (again => b.type = "server")
    BY <1>3 DEF D!OnUdpData
  <2>3. Sound(b, 0) /\ Quiet(b)
    BY DEF DtlsInv
  <2>4. b.stage \in Ended => again \/ b.stage = "freed"
    BY DEF Ended
  <2> HIDE DEF again
  <2>5. DOMAIN c = Fields
    BY <2>3 DEF Sound
  <2>6. Sound(c, 0) /\ c.stage = b.stage /\ c.type = b.type /\ c.listed = b.listed
        /\ c.late = again
    BY <2>3, <2>5, FieldsAre DEF Sound, Sum, Counters
  <2> HIDE DEF c
  <2>7. Busy(c)
    BY <2>2, <2>3, <2>4, <2>6 DEF Busy, Quiet
  <2> QED BY <1>1, <2>1, <2>6, <2>7, DeliverInv
<1> QED BY <1>2, <1>3

\* The handshake timer.
LEMMA OnTimeoutInv ==
    ASSUME DtlsInv, NEW k \in Peers, D!OnTimeout(k) PROVE DtlsInv'
<1> DEFINE c == dcn[k]
           stopped == [c EXCEPT !.timer = FALSE]
<1>1. PICK tx \in BOOLEAN, a \in {"read", "fail"} :
          LET h == D!TLSHandshake(stopped, a, tx)
              d == IF D!HandshakeFailed(h) THEN D!CancelPending(h) ELSE h
          IN  D!Become(k, D!Settle(D!DecRef(d, 1), tx))
  BY DEF D!OnTimeout
<1> DEFINE h == D!TLSHandshake(stopped, a, tx)
           d == IF D!HandshakeFailed(h) THEN D!CancelPending(h) ELSE h
           e == D!DecRef(d, 1)
<1>2. c.timer /\ c.stage = "open" /\ UNCHANGED <<dstate, drx>>
  BY DEF D!OnTimeout
<1>3. Sound(c, 0)
  BY DEF DtlsInv
<1>4. D!Become(k, D!Settle(e, tx))
  BY <1>1
<1>5. DOMAIN stopped = Fields
  BY <1>3 DEF Sound
<1>6. Sound(stopped, 1) /\ Stays(c, stopped)
  BY <1>2, <1>3, <1>5, FieldsAre DEF Sound, Sum, Counters, D!AsNat, Stays
<1> HIDE DEF stopped
<1>7. Sound(h, 1) /\ Stays(c, h)
  <2>1. a \in {"verify", "read", "done", "fail"}
    OBVIOUS
  <2> QED BY <1>6, <2>1, TLSHandshakeSound, SMTT(40) DEF Stays
<1> HIDE DEF h
<1>8. Sound(d, 1) /\ Stays(c, d)
  BY <1>7, CancelPendingSound DEF Stays, Kept
<1> HIDE DEF d
<1>9. Sound(e, 0) /\ Stays(c, e)
  BY <1>8, DecRefSound, SoundCount DEF Stays, Kept
<1> HIDE DEF e
<1>10. Busy(e)
  <2>1. Quiet(c)
    BY DEF DtlsInv
  <2> QED BY <1>2, <1>9, <2>1 DEF Stays, Busy, Quiet, Ended, D!Closing
<1> QED BY <1>2, <1>4, <1>9, <1>10, SettleInv DEF Stays

\* The callbacks do not stop the idler.
LEMMA SendCallbacksIdle ==
    ASSUME NEW c, DOMAIN c = Fields PROVE D!SendCallbacks(c).idle = c.idle
<1> DEFINE j == c.sentOK + c.sentErr
           d == D!DecRef(c, j)
           e == [d EXCEPT !.sentOK = 0, !.sentErr = 0, !.called = d.called + j]
<1>1. DOMAIN e = Fields /\ e.idle = c.idle
  BY FieldsAre DEF D!DecRef
<1>2. D!SendCallbacks(c) = IF c.sentErr > 0 THEN D!DeleteRemoteNode(e) ELSE e
  BY DEF D!SendCallbacks
<1> HIDE DEF e
<1>3. D!DeleteRemoteNode(e).idle = e.idle
  BY <1>1, FieldsAre DEF D!DeleteRemoteNode, D!DecRef
<1> QED BY <1>1, <1>2, <1>3

\* The idler calls back and drops its reference.
LEMMA OnIdleForSendCallbacksInv ==
    ASSUME DtlsInv, NEW k \in Peers, D!OnIdleForSendCallbacks(k) PROVE DtlsInv'
<1> DEFINE c == dcn[k]
           s == D!SendCallbacks(c)
           d == D!DecRef(s, 1)
           e == [d EXCEPT !.idle = FALSE]
<1>1. PICK tx \in BOOLEAN : D!Become(k, D!Settle(e, tx))
  BY DEF D!OnIdleForSendCallbacks
<1>2. c.idle /\ UNCHANGED <<dstate, drx>>
  BY DEF D!OnIdleForSendCallbacks
<1>3. Sound(c, 0) /\ Busy(c)
  BY <1>2, OwnedOpen DEF DtlsInv, D!OnIdleForSendCallbacks
<1>4. Sound(s, 0) /\ Stays(c, s) /\ s.idle
  BY <1>2, <1>3, SendCallbacksSound, SendCallbacksIdle DEF Stays, Kept, Sound
<1> HIDE DEF s
<1>5. 1 <= s.refCount
  BY <1>4 DEF Sound, Sum, Counters, D!AsNat
<1>6. Sound(d, 0 - 1) /\ Stays(s, d)
  BY <1>4, <1>5, DecRefSound DEF Kept, Stays
<1>7. d.idle
  BY <1>4, DecRefFields, FieldsAre DEF Sound
<1> HIDE DEF d
<1>8. DOMAIN e = Fields
  BY <1>6 DEF Sound
<1>9. Sound(e, 0) /\ Stays(d, e)
  BY <1>6, <1>7, <1>8, FieldsAre DEF Sound, Sum, Counters, D!AsNat, Stays
<1> HIDE DEF e
<1>10. Busy(e)
  BY <1>3, <1>4, <1>6, <1>9 DEF Stays, Busy
<1> QED BY <1>1, <1>2, <1>4, <1>6, <1>9, <1>10, SettleInv DEF Stays

\* libuv drops the reference of a datagram.
LEMMA OnSendCompleteInv ==
    ASSUME DtlsInv, NEW k \in Peers, D!OnSendComplete(k) PROVE DtlsInv'
<1> DEFINE c == dcn[k]
           d == D!DecRef(c, 1)
           e == [d EXCEPT !.writes = @ - 1]
<1>1. PICK tx \in BOOLEAN : D!Become(k, D!Settle(e, tx))
  BY DEF D!OnSendComplete
<1>2. c.writes > 0 /\ UNCHANGED <<dstate, drx>>
  BY DEF D!OnSendComplete
<1>3. Sound(c, 0) /\ Busy(c)
  BY <1>2, OwnedOpen DEF DtlsInv, D!OnSendComplete
<1>4. 1 <= c.refCount
  BY <1>2, <1>3 DEF Sound, Sum, Counters, D!AsNat
<1>5. Sound(d, 0 - 1) /\ Stays(c, d)
  BY <1>3, <1>4, DecRefSound DEF Kept, Stays
<1>6. d.writes > 0
  BY <1>2, <1>3, DecRefFields, FieldsAre DEF Sound
<1> HIDE DEF d
<1>7. DOMAIN e = Fields
  BY <1>5 DEF Sound
<1>8. Sound(e, 0) /\ Stays(d, e)
  <2>1. e.writes = d.writes - 1 /\ Stays(d, e)
    BY <1>5, FieldsAre DEF Sound, Stays
  <2>2. \A f \in Fields \ {"writes"} : e[f] = d[f]
    BY <1>5, FieldsAre DEF Sound
  <2> HIDE DEF e
  <2>3. Counters(e) /\ e.asserts
    BY <1>5, <1>6, <2>1, <2>2, FieldsAre DEF Sound, Counters
  <2>4. e.refCount = 0 + Sum(e)
    <3>1. Sum(e) = Sum(d) - 1 /\ e.refCount = d.refCount /\ Sum(d) \in Int
      BY <1>5, <2>1, <2>2, FieldsAre DEF Sound, Counters, Sum, D!AsNat
    <3> QED BY <1>5, <3>1 DEF Sound, Counters
  <2> QED BY <1>5, <1>7, <2>1, <2>2, <2>3, <2>4, FieldsAre DEF Sound
<1> HIDE DEF e
<1>9. Busy(e)
  BY <1>3, <1>5, <1>8 DEF Stays, Busy
<1> QED BY <1>1, <1>2, <1>5, <1>8, <1>9, SettleInv DEF Stays

\* DestroyTimeout and NetStop settle several connections.
LEMMA DestroyTimeoutInv ==
    ASSUME DtlsInv, D!DestroyTimeout PROVE DtlsInv'
<1>1. PICK due \in SUBSET {k \in D!cns : dcn[k].sendClosed /\ dcn[k].destroyTime} :
          dcn' = [k \in Peers |->
                     IF k \in due THEN D!Settle([dcn[k] EXCEPT !.recvClosed = TRUE], FALSE)
                     ELSE dcn[k]]
  BY DEF D!DestroyTimeout
<1>2. UNCHANGED <<dstate, drx>>
  BY DEF D!DestroyTimeout
<1>3. ASSUME NEW k \in Peers
      PROVE  /\ Sound(dcn'[k], 0) /\ dcn'[k].listed = dcn[k].listed
             /\ Quiet(dcn'[k])
  <2> DEFINE c == dcn[k]
             d == [c EXCEPT !.recvClosed = TRUE]
             e == D!Settle(d, FALSE)
  <2>1. Sound(c, 0) /\ Quiet(c)
    BY DEF DtlsInv
  <2>2. CASE k \notin due
    BY <1>1, <2>1, <2>2
  <2>3. CASE k \in due
    <3>1. c.sendClosed /\ dcn'[k] = e
      BY <1>1, <2>3
    <3>2. DOMAIN d = Fields
      BY <2>1 DEF Sound
    <3>3. Sound(d, 0) /\ d.sendClosed /\ d.listed = c.listed /\ Quiet(d)
      BY <2>1, <3>1, <3>2, FieldsAre DEF Sound, Sum, Counters, Quiet
    <3> HIDE DEF d
    <3>4. \A tx \in BOOLEAN : LET f == D!Settle(d, tx)
                              IN  Sound(f, 0) /\ f.listed = d.listed /\ Quiet(f)
      BY <3>3, SettleSound
    <3>5. Sound(e, 0) /\ e.listed = d.listed /\ Quiet(e)
      BY <3>4
    <3> QED BY <3>1, <3>3, <3>5
  <2> QED BY <2>2, <2>3
<1>4. DOMAIN dcn' = Peers
  BY <1>1
<1>5. drx' # "open" => dstate' # "running" /\ D!cns' = {}
  BY <1>2, <1>3 DEF DtlsInv, D!cns
<1> QED BY <1>3, <1>4, <1>5 DEF DtlsInv

\* The close callbacks; the last one may close the net context.
LEMMA HandleClosedInv ==
    ASSUME DtlsInv, NEW k \in Peers, D!HandleClosed(k) PROVE DtlsInv'
<1> DEFINE c == dcn[k]
           next == D!NextHandle(c.stage)
           keeps == c.listed /\ next # "freed"
           d == [c EXCEPT !.stage = next, !.listed = keeps]
<1>1. /\ D!Become(k, d) /\ dstate' = dstate /\ c.stage \in D!Closing
      /\ drx' = IF next = "freed" /\ dstate = "stopping" /\ D!cns \subseteq {k} /\ drx = "open"
                THEN "rx" ELSE drx
  BY DEF D!HandleClosed
<1>2. Sound(c, 0) /\ Quiet(c)
  BY DEF DtlsInv
<1>3. DOMAIN d = Fields
  BY <1>2 DEF Sound
<1>4. Sound(d, 0)
  BY <1>2, <1>3, FieldsAre DEF Sound, Sum, Counters
<1>5. /\ d.stage = next /\ (d.listed <=> keeps) /\ d.refCount = c.refCount
      /\ d.late = c.late /\ d.type = c.type
  BY <1>2, FieldsAre DEF Sound
<1> HIDE DEF d
<1>6. Quiet(d)
  BY <1>1, <1>2, <1>5 DEF Quiet, Ended
<1>7. DOMAIN dcn' = Peers /\ \A j \in Peers : dcn'[j] = IF j = k THEN d ELSE dcn[j]
  BY <1>1 DEF DtlsInv, D!Become
<1>8. D!cns' \subseteq D!cns /\ (next = "freed" => k \notin D!cns')
  BY <1>5, <1>7 DEF D!cns
<1>9. drx' # "open" => dstate' # "running" /\ D!cns' = {}
  BY <1>1, <1>8 DEF DtlsInv
<1>10. \A j \in Peers : Sound(dcn'[j], 0)
  BY <1>4, <1>7 DEF DtlsInv
<1>11. \A j \in Peers : Quiet(dcn'[j])
  BY <1>6, <1>7 DEF DtlsInv
<1> QED BY <1>7, <1>9, <1>10, <1>11 DEF DtlsInv

\* DPS_NetStop cancels everything and closes what nobody owns.
LEMMA NetStopInv ==
    ASSUME DtlsInv, D!NetStop PROVE DtlsInv'
<1>1. PICK tx \in BOOLEAN :
          dcn' = [k \in Peers |->
                     IF k \in D!cns /\ dcn[k].refCount > 0
                     THEN D!Settle(D!DeleteRemoteNode(D!CancelPending(dcn[k])), tx)
                     ELSE dcn[k]]
  BY DEF D!NetStop
<1>2. dstate' = "stopping" /\ drx' = IF D!cns = {} THEN "rx" ELSE drx
  BY DEF D!NetStop
<1>3. ASSUME NEW k \in Peers
      PROVE  /\ Sound(dcn'[k], 0) /\ dcn'[k].listed = dcn[k].listed
             /\ Quiet(dcn'[k])
  <2> DEFINE c == dcn[k]
             p == D!CancelPending(c)
             d == D!DeleteRemoteNode(p)
             e == D!Settle(d, tx)
  <2>1. Sound(c, 0) /\ Quiet(c)
    BY DEF DtlsInv
  <2>2. CASE ~(k \in D!cns /\ c.refCount > 0)
    BY <1>1, <2>1, <2>2
  <2>3. CASE k \in D!cns /\ c.refCount > 0
    <3>1. dcn'[k] = e
      BY <1>1, <2>3
    <3>2. Sound(p, 0) /\ Kept(c, p)
      BY <2>1, CancelPendingSound
    <3> HIDE DEF p
    <3>3. Sound(d, 0) /\ Kept(c, d)
      BY <3>2, DeleteRemoteNodeSound, KeptTrans
    <3>4. Busy(c)
      BY <2>1, <2>3 DEF Quiet, Busy, Sound, Counters, D!cns
    <3> HIDE DEF d
    <3>5. Sound(e, 0) /\ e.listed = d.listed /\ Quiet(e)
      <4>1. Busy(d)
        BY <3>3, <3>4 DEF Kept, Busy
      <4> QED BY <3>3, <4>1, SettleSound
    <3> QED BY <3>1, <3>3, <3>5 DEF Kept
  <2> QED BY <2>2, <2>3
<1>4. DOMAIN dcn' = Peers
  BY <1>1
<1>5. drx' # "open" => dstate' # "running" /\ D!cns' = {}
  BY <1>2, <1>3 DEF DtlsInv, D!cns
<1> QED BY <1>3, <1>4, <1>5 DEF DtlsInv

\* The net context closes when its list is empty.
LEMMA NetClosedInv ==
    ASSUME DtlsInv, D!NetClosed PROVE DtlsInv'
<1>1. drx # "open" /\ UNCHANGED <<dcn, dstate>>
  BY DEF D!NetClosed
<1>2. D!cns' = D!cns
  BY <1>1 DEF D!cns
<1> QED BY <1>1, <1>2 DEF DtlsInv

\* The invariant holds at the start,
LEMMA DtlsInit == ASSUME D!Init PROVE DtlsInv
BY NothingSound DEF D!Init, DtlsInv

\* is preserved by every handler,
LEMMA DtlsStep == ASSUME DtlsInv, D!Next PROVE DtlsInv'
<1>1. ASSUME NEW k \in Peers, D!NetSendNew(k) \/ D!NetSend(k) \/ D!NetConnectionDecRef(k)
                              \/ D!OnUdpData(k)
      PROVE  DtlsInv'
  BY <1>1, NetSendNewInv, NetSendInv, NetConnectionDecRefInv, OnUdpDataInv
<1>2. ASSUME NEW k \in Peers, D!OnTimeout(k) \/ D!OnIdleForSendCallbacks(k)
                              \/ D!OnSendComplete(k) \/ D!HandleClosed(k)
      PROVE  DtlsInv'
  BY <1>2, OnTimeoutInv, OnIdleForSendCallbacksInv, OnSendCompleteInv, HandleClosedInv
<1> QED BY <1>1, <1>2, DestroyTimeoutInv, NetClosedInv, NetStopInv DEF D!Next, D!LoopWork

\* and by the steps of the others.
LEMMA DtlsStutter == ASSUME DtlsInv, UNCHANGED dVars PROVE DtlsInv'
<1>1. UNCHANGED <<dcn, dstate, drx>>
  BY DEF dVars
<1>2. D!cns' = D!cns
  BY <1>1 DEF D!cns
<1> QED BY <1>1, <1>2 DEF DtlsInv

\* What the invariant says of the properties.
LEMMA DtlsCounted ==
    ASSUME DtlsInv PROVE D!RefsExact /\ D!ListedUseContext /\ D!CompletesOnce
<1>1. ASSUME NEW k \in Peers, Sound(dcn[k], 0), Quiet(dcn[k])
      PROVE  LET c == dcn[k]
             IN  /\ c.asserts
                 /\ c.refCount = D!AsNat(c.held) + c.recvQueue + c.sendQueue + c.sentOK + c.sentErr
                            + D!AsNat(c.timer) + D!AsNat(c.idle) + c.writes
                            + D!AsNat(c.handshake \in D!Waiting)
                 /\ D!Closed(c) => c.refCount = 0
                 /\ c.late => c.type = "server"
                 /\ c.accepted = c.called + c.sendQueue + c.sentOK + c.sentErr
                 /\ D!Closed(c) => c.called = c.accepted
  <2> DEFINE c == dcn[k]
  <2>1. D!Closed(c) => c.sendQueue = 0 /\ c.sentOK = 0 /\ c.sentErr = 0 /\ c.refCount = 0
    BY <1>1, Unowned DEF Quiet, Ended, D!Closed
  <2>2. D!Closed(c) => c.called = c.accepted
    BY <1>1, <2>1 DEF Sound, Counters
  <2>3. c.refCount = Sum(c)
    BY <1>1 DEF Sound, Counters, Sum, D!AsNat
  <2> QED BY <1>1, <2>1, <2>2, <2>3 DEF Sound, Sum, Quiet
<1>2. D!RefsExact /\ D!CompletesOnce
  BY <1>1 DEF DtlsInv, D!RefsExact, D!CompletesOnce
<1>3. D!ListedUseContext
  BY DEF DtlsInv, D!ListedUseContext
<1> QED BY <1>2, <1>3

--------------------------------------------------------------------------------
(* The stream transports. *)


StreamFields == DOMAIN S!Nothing
Closed == {"shutdown", "stream", "idle", "freed"}
One(b) == IF b THEN 1 ELSE 0

\* A connection of which a handler owns n references.
Balanced(c, n) ==
    /\ DOMAIN c = StreamFields /\ c.asserts
    /\ c.refCount \in Int /\ c.sendQueue \in Nat /\ c.writes \in Nat /\ c.sentOK \in Nat
    /\ c.sentErr \in Nat /\ c.accepted \in Nat /\ c.called \in Nat
    /\ c.refCount = n + c.writes + One(c.held)
    /\ c.accepted = c.called + c.sendQueue + c.writes + c.sentOK + c.sentErr

\* Closed when nobody owns it, and only then; a connect is pending while its owner waits.
Lives(c) ==
    /\ c.stage \in Closed => c.refCount <= 0 /\ ~c.reading
    /\ c.stage = "connecting" => c.refCount > 0 /\ c.writes <= 0

\* d has the queues of c, and only a pending connect or an open connection is closed.
SameQueues(c, d) ==
    /\ d.sendQueue = c.sendQueue /\ d.writes = c.writes /\ d.idle = c.idle
    /\ d.stage = c.stage \/ (c.stage \in {"connecting", "open"} /\ d.stage \in {"stream", "shutdown"})

\* The fields of a stream connection.
LEMMA StreamFieldsAre ==
    StreamFields = {"stage", "refCount", "held", "wasHeld", "reading", "sendQueue", "writes",
                    "sentOK", "sentErr", "idle", "accepted", "called", "asserts"}
BY DEF StreamFields, S!Nothing

\* Shutdown changes where the connection is and stops the reading.
LEMMA ShutdownFields ==
    ASSUME NEW c, DOMAIN c = StreamFields
    PROVE  LET d == S!Shutdown(c)
           IN  /\ DOMAIN d = StreamFields
               /\ \A f \in StreamFields \ {"stage", "reading"} : d[f] = c[f]
               /\ c.stage = "connecting" => d.stage = "stream" /\ ~d.reading
               /\ c.stage = "open" => d.stage = "shutdown" /\ ~d.reading
               /\ c.stage \notin {"connecting", "open"} => d = c
<1> DEFINE d == S!Shutdown(c)
<1>1. CASE c.stage = "connecting"
  <2>1. d = [c EXCEPT !.stage = "stream", !.reading = FALSE]
    BY <1>1 DEF S!Shutdown
  <2>2. DOMAIN d = StreamFields
    BY <2>1
  <2> QED BY <1>1, <2>1, <2>2, StreamFieldsAre
<1>2. CASE c.stage = "open"
  <2>1. d = [c EXCEPT !.stage = "shutdown", !.reading = FALSE]
    BY <1>2 DEF S!Shutdown
  <2>2. DOMAIN d = StreamFields
    BY <2>1
  <2> QED BY <1>2, <2>1, <2>2, StreamFieldsAre
<1>3. CASE c.stage \notin {"connecting", "open"}
  BY <1>3 DEF S!Shutdown
<1> QED BY <1>1, <1>2, <1>3

\* The last reference dropped shuts the connection down.
LEMMA StreamDecRef ==
    ASSUME NEW c, NEW n \in Nat, Balanced(c, n + 1), Lives(c)
    PROVE  LET d == S!DecRef(c)
           IN  /\ Balanced(d, n) /\ Lives(d) /\ SameQueues(c, d)
               /\ d.held = c.held /\ d.sentOK = c.sentOK /\ d.sentErr = c.sentErr
<1> DEFINE ok == c.asserts /\ c.refCount > 0
           e == [c EXCEPT !.refCount = c.refCount - 1, !.asserts = ok]
           s == S!Shutdown(e)
           d == S!DecRef(c)
<1>1. d = IF e.refCount = 0 THEN s ELSE e
  BY DEF S!DecRef
<1>2. c.refCount > 0
  BY DEF Balanced, One
<1>3. ok
  BY <1>2 DEF Balanced
<1> HIDE DEF ok
<1>4. DOMAIN e = StreamFields
  BY DEF Balanced
<1>5. /\ e.refCount = c.refCount - 1 /\ e.asserts
      /\ \A f \in StreamFields \ {"refCount", "asserts"} : e[f] = c[f]
  BY <1>3, StreamFieldsAre DEF Balanced
<1> HIDE DEF e
<1>6. Balanced(e, n)
  BY <1>4, <1>5, StreamFieldsAre DEF Balanced, One
<1>7. SameQueues(c, e) /\ e.held = c.held /\ e.sentOK = c.sentOK /\ e.sentErr = c.sentErr
      /\ e.stage = c.stage /\ e.reading = c.reading
  BY <1>5, StreamFieldsAre DEF SameQueues
<1>8. CASE e.refCount # 0
  <2>1. Lives(e)
    BY <1>2, <1>5, <1>6, <1>7, <1>8 DEF Lives, SameQueues, Balanced
  <2> QED BY <1>1, <1>6, <1>7, <1>8, <2>1
<1>9. CASE e.refCount = 0
  <2>1. /\ DOMAIN s = StreamFields
        /\ \A f \in StreamFields \ {"stage", "reading"} : s[f] = e[f]
        /\ e.stage = "connecting" => s.stage = "stream" /\ ~s.reading
        /\ e.stage = "open" => s.stage = "shutdown" /\ ~s.reading
        /\ e.stage \notin {"connecting", "open"} => s = e
    BY <1>4, ShutdownFields
  <2> HIDE DEF s
  <2>2. Balanced(s, n)
    BY <1>6, <2>1, StreamFieldsAre DEF Balanced
  <2>3. s.refCount = 0 /\ s.held = e.held /\ s.sentOK = e.sentOK /\ s.sentErr = e.sentErr
        /\ s.sendQueue = e.sendQueue /\ s.writes = e.writes /\ s.idle = e.idle
    BY <1>9, <2>1, StreamFieldsAre
  <2>4. Lives(s)
    BY <1>2, <1>7, <2>1, <2>3 DEF Lives, Closed
  <2>5. SameQueues(c, s)
    BY <1>7, <2>1, <2>3 DEF SameQueues
  <2> QED BY <1>1, <1>7, <1>9, <2>2, <2>3, <2>4, <2>5
<1> QED BY <1>8, <1>9

\* Deleting the remote node.
LEMMA StreamDelete ==
    ASSUME NEW c, NEW n \in Nat, Balanced(c, n), Lives(c)
    PROVE  LET d == S!DeleteRemoteNode(c)
           IN  /\ Balanced(d, n) /\ Lives(d) /\ SameQueues(c, d) /\ ~d.held
               /\ d.sentOK = c.sentOK /\ d.sentErr = c.sentErr
<1>1. CASE c.held
  <2> DEFINE e == [c EXCEPT !.held = FALSE]
  <2>1. DOMAIN e = StreamFields
    BY DEF Balanced
  <2>2. \A f \in StreamFields \ {"held"} : e[f] = c[f]
    BY StreamFieldsAre DEF Balanced
  <2>3. ~e.held
    BY StreamFieldsAre DEF Balanced
  <2>4. S!DeleteRemoteNode(c) = S!DecRef(e)
    BY <1>1 DEF S!DeleteRemoteNode
  <2> HIDE DEF e
  <2>5. Balanced(e, n + 1)
    BY <1>1, <2>1, <2>2, <2>3, StreamFieldsAre DEF Balanced, One
  <2>6. Lives(e) /\ SameQueues(c, e) /\ e.sentOK = c.sentOK /\ e.sentErr = c.sentErr
        /\ e.stage = c.stage
    BY <2>2, StreamFieldsAre DEF Lives, SameQueues
  <2>7. LET d == S!DecRef(e)
        IN  /\ Balanced(d, n) /\ Lives(d) /\ SameQueues(e, d)
            /\ d.held = e.held /\ d.sentOK = e.sentOK /\ d.sentErr = e.sentErr
    BY <2>5, <2>6, StreamDecRef
  <2> QED BY <2>3, <2>4, <2>6, <2>7 DEF SameQueues
<1>2. CASE ~c.held
  BY <1>2 DEF S!DeleteRemoteNode, SameQueues
<1> QED BY <1>1, <1>2

\* SendCompleted calls back all that is done.
LEMMA StreamSendCompleted ==
    ASSUME NEW c, NEW n \in Nat, Balanced(c, n), Lives(c)
    PROVE  LET d == S!SendCompleted(c)
           IN  /\ Balanced(d, n) /\ Lives(d) /\ SameQueues(c, d)
               /\ d.sentOK = 0 /\ d.sentErr = 0 /\ (c.sentErr > 0 => ~d.held)
<1> DEFINE e == [c EXCEPT !.sentOK = 0, !.sentErr = 0, !.called = @ + c.sentOK + c.sentErr]
<1>1. DOMAIN e = StreamFields
  BY DEF Balanced
<1>2. /\ \A f \in StreamFields \ {"sentOK", "sentErr", "called"} : e[f] = c[f]
      /\ e.sentOK = 0 /\ e.sentErr = 0 /\ e.called = c.called + c.sentOK + c.sentErr
  BY StreamFieldsAre DEF Balanced
<1>3. S!SendCompleted(c) = IF c.sentErr > 0 THEN S!DeleteRemoteNode(e) ELSE e
  BY DEF S!SendCompleted
<1> HIDE DEF e
<1>4. Balanced(e, n)
  BY <1>1, <1>2, StreamFieldsAre DEF Balanced
<1>5. Lives(e) /\ SameQueues(c, e) /\ e.stage = c.stage
  BY <1>2, StreamFieldsAre DEF Lives, SameQueues
<1>6. LET d == S!DeleteRemoteNode(e)
      IN  /\ Balanced(d, n) /\ Lives(d) /\ SameQueues(e, d) /\ ~d.held
          /\ d.sentOK = e.sentOK /\ d.sentErr = e.sentErr
  BY <1>4, <1>5, StreamDelete
<1>7. SameQueues(c, S!DeleteRemoteNode(e))
  BY <1>5, <1>6 DEF SameQueues
<1> QED BY <1>2, <1>3, <1>4, <1>5, <1>6, <1>7

\* CancelPendingSends moves what waits to what is done.
LEMMA StreamCancel ==
    ASSUME NEW c, NEW n \in Nat, Balanced(c, n), Lives(c)
    PROVE  LET d == S!CancelPendingSends(c)
           IN  /\ Balanced(d, n) /\ Lives(d) /\ d.sendQueue = 0
               /\ d.sentErr = c.sentErr + c.sendQueue
               /\ \A f \in StreamFields \ {"sendQueue", "sentErr"} : d[f] = c[f]
<1> DEFINE d == S!CancelPendingSends(c)
<1>1. DOMAIN d = StreamFields
  BY DEF Balanced, S!CancelPendingSends
<1>2. /\ \A f \in StreamFields \ {"sendQueue", "sentErr"} : d[f] = c[f]
      /\ d.sendQueue = 0 /\ d.sentErr = c.sentErr + c.sendQueue
  BY StreamFieldsAre DEF Balanced, S!CancelPendingSends
<1> HIDE DEF d
<1>3. Balanced(d, n)
  BY <1>1, <1>2, StreamFieldsAre DEF Balanced
<1>4. Lives(d)
  BY <1>2, StreamFieldsAre DEF Lives
<1> QED BY <1>2, <1>3, <1>4 DEF d

\* DoSend: libuv owns a reference for every request it takes.
LEMMA StreamDoSend ==
    ASSUME NEW c, NEW n \in Nat, Balanced(c, n), NEW taken \in 0 .. c.sendQueue
    PROVE  LET d == S!DoSend(c, taken)
           IN  /\ Balanced(d, n) /\ d.sendQueue = 0
               /\ \A f \in StreamFields \ {"sendQueue", "sentErr", "writes", "refCount"} :
                      d[f] = c[f]
<1> DEFINE d == S!DoSend(c, taken)
<1>1. DOMAIN d = StreamFields
  BY DEF Balanced, S!DoSend
<1>2. /\ \A f \in StreamFields \ {"sendQueue", "sentErr", "writes", "refCount"} : d[f] = c[f]
      /\ d.sendQueue = 0
      /\ d.writes = c.writes + taken /\ d.refCount = c.refCount + taken
      /\ d.sentErr = c.sentErr + (c.sendQueue - taken)
  BY StreamFieldsAre DEF Balanced, S!DoSend
<1> HIDE DEF d
<1>3. Balanced(d, n)
  BY <1>1, <1>2, StreamFieldsAre DEF Balanced, One
<1> QED BY <1>2, <1>3 DEF d

--------------------------------------------------------------------------------

\* Between two handlers.
Fine(c) ==
    /\ Balanced(c, 0) /\ Lives(c)
    /\ c.stage = "connecting" => c.sendQueue > 0
    /\ c.sentOK + c.sentErr > 0 => c.idle \/ c.stage \in {"shutdown", "stream", "idle"}
    /\ c.stage = "freed" => c.sendQueue <= 0 /\ c.sentOK <= 0 /\ c.sentErr <= 0

StreamInv == DOMAIN scn = Streams /\ \A k \in Streams : Fine(scn[k])

\* Before the connect or the accept.
LEMMA StreamNothing == Fine(S!Nothing)
<1> DEFINE c == S!Nothing
<1>1. /\ c.stage = "none" /\ c.refCount = 0 /\ ~c.held /\ ~c.reading /\ c.sendQueue = 0
      /\ c.writes = 0 /\ c.sentOK = 0 /\ c.sentErr = 0 /\ c.accepted = 0 /\ c.called = 0
      /\ c.asserts
  BY DEF S!Nothing
<1>2. DOMAIN c = StreamFields
  BY DEF StreamFields
<1> HIDE DEF c
<1>3. Fine(c)
  BY <1>1, <1>2 DEF Fine, Balanced, Lives, One, Closed
<1> QED BY <1>3 DEF c

\* A handler that leaves one connection in order.
LEMMA StreamBecome ==
    ASSUME StreamInv, NEW k \in Streams, NEW c, Fine(c), S!Become(k, c)
    PROVE  StreamInv'
<1>1. DOMAIN scn' = Streams /\ \A j \in Streams : scn'[j] = IF j = k THEN c ELSE scn[j]
  BY DEF StreamInv, S!Become
<1> QED BY <1>1 DEF StreamInv

\* A handler that deletes the remote node or calls back leaves the connection in order.
LEMMA FineAfter ==
    ASSUME NEW c, NEW d, Fine(c), Balanced(d, 0), Lives(d), SameQueues(c, d),
           \/ d.sentOK = c.sentOK /\ d.sentErr = c.sentErr
           \/ d.sentOK = 0 /\ d.sentErr = 0
    PROVE  Fine(d)
<1>1. d.stage = "connecting" => d.sendQueue > 0
  BY DEF Fine, SameQueues
<1>2. d.sentOK + d.sentErr > 0 => d.idle \/ d.stage \in {"shutdown", "stream", "idle"}
  BY DEF Fine, SameQueues
<1>3. d.stage = "freed" => d.sendQueue <= 0 /\ d.sentOK <= 0 /\ d.sentErr <= 0
  BY DEF Fine, SameQueues
<1> QED BY <1>1, <1>2, <1>3 DEF Fine

\* DPS_NetSend to a new peer.
LEMMA NetConnectInv ==
    ASSUME StreamInv, NEW k \in Streams, S!NetConnect(k) PROVE StreamInv'
<1> DEFINE c == [S!Nothing EXCEPT !.stage = "connecting", !.refCount = 1, !.held = TRUE,
                                  !.wasHeld = TRUE, !.sendQueue = 1, !.accepted = 1]
           d == [S!Nothing EXCEPT !.stage = "stream"]
<1>1. S!Become(k, c) \/ S!Become(k, d)
  BY DEF S!NetConnect
<1>2. Fine(c)
  <2>1. /\ c.stage = "connecting" /\ c.refCount = 1 /\ c.held /\ ~c.reading /\ c.sendQueue = 1
        /\ c.writes = 0 /\ c.sentOK = 0 /\ c.sentErr = 0 /\ c.accepted = 1 /\ c.called = 0
        /\ c.asserts
    BY DEF S!Nothing
  <2>2. DOMAIN c = StreamFields
    BY DEF StreamFields
  <2> HIDE DEF c
  <2> QED BY <2>1, <2>2 DEF Fine, Balanced, Lives, One, Closed
<1>3. Fine(d)
  <2>1. /\ d.stage = "stream" /\ d.refCount = 0 /\ ~d.held /\ ~d.reading /\ d.sendQueue = 0
        /\ d.writes = 0 /\ d.sentOK = 0 /\ d.sentErr = 0 /\ d.accepted = 0 /\ d.called = 0
        /\ d.asserts
    BY DEF S!Nothing
  <2>2. DOMAIN d = StreamFields
    BY DEF StreamFields
  <2> HIDE DEF d
  <2> QED BY <2>1, <2>2 DEF Fine, Balanced, Lives, One
<1> HIDE DEF c, d
<1> QED BY <1>1, <1>2, <1>3, StreamBecome

\* DPS_NetSend on a connection.
LEMMA StreamNetSendInv ==
    ASSUME StreamInv, NEW k \in Streams, S!NetSend(k) PROVE StreamInv'
<1> DEFINE b == scn[k]
           c == [b EXCEPT !.sendQueue = @ + 1, !.accepted = @ + 1]
<1>1. PICK taken \in 0 .. 1 :
          S!Become(k, IF b.sendQueue > 0 THEN c ELSE [S!DoSend(c, taken) EXCEPT !.idle = TRUE])
  BY DEF S!NetSend
<1>2. Fine(b) /\ b.held
  BY DEF StreamInv, S!NetSend
<1> HIDE DEF b
<1>3. DOMAIN c = StreamFields
  BY <1>2 DEF Fine, Balanced
<1>4. /\ \A f \in StreamFields \ {"sendQueue", "accepted"} : c[f] = b[f]
      /\ c.sendQueue = b.sendQueue + 1 /\ c.accepted = b.accepted + 1
  BY <1>2, StreamFieldsAre DEF Fine, Balanced
<1> HIDE DEF c
<1>5. Balanced(c, 0)
  BY <1>2, <1>3, <1>4, StreamFieldsAre DEF Fine, Balanced, One
<1>6. b.refCount > 0 /\ b.stage \notin Closed
  BY <1>2 DEF Fine, Balanced, Lives, One
<1>7. CASE b.sendQueue > 0
  <2>1. /\ c.stage = b.stage /\ c.refCount = b.refCount /\ c.writes = b.writes
        /\ c.idle = b.idle /\ c.sentOK = b.sentOK /\ c.sentErr = b.sentErr
    BY <1>4, StreamFieldsAre
  <2>2. Lives(c)
    BY <1>2, <1>6, <2>1 DEF Fine, Lives
  <2>3. c.stage = "connecting" => c.sendQueue > 0
    BY <1>2, <1>4, <1>7 DEF Fine, Balanced
  <2>4. Fine(c)
    BY <1>2, <1>5, <1>6, <2>1, <2>2, <2>3 DEF Fine, Closed
  <2> QED BY <1>1, <1>7, <2>4, StreamBecome
<1>8. CASE ~(b.sendQueue > 0)
  <2> DEFINE d == S!DoSend(c, taken)
             e == [d EXCEPT !.idle = TRUE]
  <2>0. taken \in 0 .. c.sendQueue
    BY <1>2, <1>4, <1>8 DEF Fine, Balanced
  <2>1. /\ Balanced(d, 0) /\ d.sendQueue = 0
        /\ \A f \in StreamFields \ {"sendQueue", "sentErr", "writes", "refCount"} : d[f] = c[f]
    BY <1>5, <2>0, StreamDoSend
  <2> HIDE DEF d
  <2>2. DOMAIN e = StreamFields /\ e.idle /\ \A f \in StreamFields \ {"idle"} : e[f] = d[f]
    BY <2>1, StreamFieldsAre DEF Balanced
  <2> HIDE DEF e
  <2>3. Balanced(e, 0)
    BY <2>1, <2>2, StreamFieldsAre DEF Balanced
  <2>4. e.stage = b.stage /\ e.stage # "connecting"
    BY <1>2, <1>4, <1>8, <2>1, <2>2, StreamFieldsAre DEF Fine
  <2>5. Fine(e)
    BY <1>6, <2>2, <2>3, <2>4 DEF Fine, Lives, Closed
  <2> QED BY <1>1, <1>8, <2>5, StreamBecome DEF d, e
<1> QED BY <1>7, <1>8

\* The connect is done or has failed; its assert that a request waits holds.
LEMMA OnOutgoingConnectionInv ==
    ASSUME StreamInv, NEW k \in Streams, S!OnOutgoingConnection(k) PROVE StreamInv'
<1> DEFINE b == scn[k]
<1>1. b.stage = "connecting" /\ Fine(b)
  BY DEF StreamInv, S!OnOutgoingConnection
<1>2. ASSUME NEW taken \in 0 .. b.sendQueue,
             S!Become(k, S!SendCompleted(S!DoSend([b EXCEPT !.stage = "open",
                                                            !.reading = TRUE], taken)))
      PROVE  StreamInv'
  <2> DEFINE c == [b EXCEPT !.stage = "open", !.reading = TRUE]
             d == S!DoSend(c, taken)
             e == S!SendCompleted(d)
  <2>1. S!Become(k, e)
    BY <1>2
  <2>2. DOMAIN c = StreamFields /\ c.stage = "open"
        /\ \A f \in StreamFields \ {"stage", "reading"} : c[f] = b[f]
    BY <1>1, StreamFieldsAre DEF Fine, Balanced
  <2> HIDE DEF c
  <2>3. Balanced(c, 0)
    BY <1>1, <2>2, StreamFieldsAre DEF Fine, Balanced
  <2>9. taken \in 0 .. c.sendQueue
    BY <2>2, StreamFieldsAre
  <2>4. /\ Balanced(d, 0) /\ d.sendQueue = 0
        /\ \A f \in StreamFields \ {"sendQueue", "sentErr", "writes", "refCount"} : d[f] = c[f]
    BY <2>3, <2>9, StreamDoSend
  <2> HIDE DEF d
  <2>5. d.stage = "open"
    BY <2>2, <2>4, StreamFieldsAre
  <2>6. Lives(d)
    BY <2>5 DEF Lives, Closed
  <2>7. /\ Balanced(e, 0) /\ Lives(e) /\ SameQueues(d, e) /\ e.sentOK = 0 /\ e.sentErr = 0
    BY <2>4, <2>6, StreamSendCompleted
  <2> HIDE DEF e
  <2>8. Fine(e)
    BY <2>4, <2>5, <2>7 DEF Fine, SameQueues
  <2> QED BY <2>1, <2>8, StreamBecome
<1>3. CASE S!Become(k, S!SendCompleted(S!CancelPendingSends(
                           [b EXCEPT !.asserts = @ /\ b.sendQueue > 0])))
  <2> DEFINE a == b.asserts /\ b.sendQueue > 0
             c == [b EXCEPT !.asserts = a]
             d == S!CancelPendingSends(c)
             e == S!SendCompleted(d)
  <2>1. S!Become(k, e)
    BY <1>3
  <2>2. a
    BY <1>1 DEF Fine, Balanced
  <2> HIDE DEF a
  <2>3. DOMAIN c = StreamFields /\ c.asserts
        /\ \A f \in StreamFields \ {"asserts"} : c[f] = b[f]
    BY <1>1, <2>2, StreamFieldsAre DEF Fine, Balanced
  <2> HIDE DEF c
  <2>4. Balanced(c, 0) /\ Lives(c) /\ c.sendQueue > 0 /\ c.writes <= 0
    BY <1>1, <2>3, StreamFieldsAre DEF Fine, Balanced, Lives
  <2>5. /\ Balanced(d, 0) /\ Lives(d) /\ d.sendQueue = 0 /\ d.sentErr = c.sentErr + c.sendQueue
        /\ \A f \in StreamFields \ {"sendQueue", "sentErr"} : d[f] = c[f]
    BY <2>4, StreamCancel
  <2> HIDE DEF d
  <2>6. d.sentErr > 0 /\ d.writes <= 0 /\ d.stage = "connecting"
    BY <1>1, <2>3, <2>4, <2>5, StreamFieldsAre DEF Balanced
  <2>7. /\ Balanced(e, 0) /\ Lives(e) /\ SameQueues(d, e) /\ ~e.held
        /\ e.sentOK = 0 /\ e.sentErr = 0
    BY <2>5, <2>6, StreamSendCompleted
  <2> HIDE DEF e
  <2>8. e.stage # "connecting"
    BY <2>6, <2>7 DEF SameQueues, Lives, Balanced, One
  <2>9. Fine(e)
    BY <2>6, <2>7, <2>8 DEF Fine, SameQueues
  <2> QED BY <2>1, <2>9, StreamBecome
<1> QED BY <1>2, <1>3 DEF S!OnOutgoingConnection

\* An incoming connection.
LEMMA OnIncomingConnectionInv ==
    ASSUME StreamInv, NEW k \in Streams, S!OnIncomingConnection(k) PROVE StreamInv'
<1> DEFINE c == [S!Nothing EXCEPT !.stage = "open", !.reading = TRUE]
<1>1. S!Become(k, c)
  BY DEF S!OnIncomingConnection
<1>2. /\ c.stage = "open" /\ c.refCount = 0 /\ ~c.held /\ c.sendQueue = 0
      /\ c.writes = 0 /\ c.sentOK = 0 /\ c.sentErr = 0 /\ c.accepted = 0 /\ c.called = 0
      /\ c.asserts
  BY DEF S!Nothing
<1>3. DOMAIN c = StreamFields
  BY DEF StreamFields
<1> HIDE DEF c
<1>4. Fine(c)
  BY <1>2, <1>3 DEF Fine, Balanced, Lives, One, Closed
<1> QED BY <1>1, <1>4, StreamBecome

\* A connection nobody owns is shut down.
LEMMA ShutdownFine ==
    ASSUME NEW c, Fine(c), c.refCount = 0 PROVE Fine(S!Shutdown(c))
<1> DEFINE d == S!Shutdown(c)
<1>1. /\ DOMAIN d = StreamFields
      /\ \A f \in StreamFields \ {"stage", "reading"} : d[f] = c[f]
      /\ c.stage = "connecting" => d.stage = "stream" /\ ~d.reading
      /\ c.stage = "open" => d.stage = "shutdown" /\ ~d.reading
      /\ c.stage \notin {"connecting", "open"} => d = c
  BY ShutdownFields DEF Fine, Balanced
<1> HIDE DEF d
<1>2. CASE c.stage \in {"connecting", "open"}
  <2>1. Balanced(d, 0)
    BY <1>1, StreamFieldsAre DEF Fine, Balanced
  <2>2. d.refCount = 0 /\ d.stage \in {"stream", "shutdown"} /\ ~d.reading
    BY <1>1, <1>2, StreamFieldsAre
  <2>3. Lives(d)
    BY <2>2 DEF Lives
  <2>4. Fine(d)
    BY <2>1, <2>2, <2>3 DEF Fine
  <2> QED BY <2>4 DEF d
<1>3. CASE c.stage \notin {"connecting", "open"}
  BY <1>1, <1>3 DEF d
<1> QED BY <1>2, <1>3

\* A message, kept or not, refused or not.
LEMMA OnMessageInv ==
    ASSUME StreamInv, NEW k \in Streams, S!OnMessage(k) PROVE StreamInv'
<1> DEFINE b == scn[k]
<1>1. PICK keep \in BOOLEAN, ok \in BOOLEAN :
          LET c == IF keep /\ ~b.held
                   THEN [S!IncRef(b) EXCEPT !.held = TRUE, !.wasHeld = TRUE] ELSE b
              d == [c EXCEPT !.reading = ok]
          IN  S!Become(k, IF d.refCount = 0 THEN S!Shutdown(d) ELSE d)
  BY DEF S!OnMessage
<1> DEFINE i == S!IncRef(b)
           h == [i EXCEPT !.held = TRUE, !.wasHeld = TRUE]
           c == IF keep /\ ~b.held THEN h ELSE b
           d == [c EXCEPT !.reading = ok]
<1>2. S!Become(k, IF d.refCount = 0 THEN S!Shutdown(d) ELSE d)
  BY <1>1
<1>3. Fine(b) /\ b.reading
  BY DEF StreamInv, S!OnMessage
<1> HIDE DEF b
<1>4. DOMAIN i = StreamFields /\ i.refCount = b.refCount + 1
      /\ \A f \in StreamFields \ {"refCount"} : i[f] = b[f]
  BY <1>3, StreamFieldsAre DEF Fine, Balanced, S!IncRef
<1> HIDE DEF i
<1>5. DOMAIN h = StreamFields /\ h.held
      /\ \A f \in StreamFields \ {"held", "wasHeld"} : h[f] = i[f]
  BY <1>4, StreamFieldsAre
<1> HIDE DEF h
<1>6. ASSUME ~b.held PROVE Fine(h)
  <2>1. /\ h.refCount = b.refCount + 1 /\ h.stage = b.stage /\ h.sendQueue = b.sendQueue
        /\ h.writes = b.writes /\ h.sentOK = b.sentOK /\ h.sentErr = b.sentErr
        /\ h.accepted = b.accepted /\ h.called = b.called /\ h.asserts = b.asserts
        /\ h.idle = b.idle
    BY <1>4, <1>5, StreamFieldsAre
  <2>2. Balanced(h, 0)
    BY <1>3, <1>5, <1>6, <2>1 DEF Fine, Balanced, One
  <2>3. Lives(h)
    BY <1>3, <2>1 DEF Fine, Balanced, Lives
  <2> QED BY <1>3, <2>1, <2>2, <2>3 DEF Fine
<1>7. Fine(c) /\ c.stage \notin Closed
  BY <1>3, <1>4, <1>5, <1>6, StreamFieldsAre DEF Fine, Lives
<1> HIDE DEF c
<1>8. DOMAIN d = StreamFields /\ \A f \in StreamFields \ {"reading"} : d[f] = c[f]
  BY <1>7, StreamFieldsAre DEF Fine, Balanced
<1> HIDE DEF d
<1>9. Fine(d)
  <2>1. /\ d.refCount = c.refCount /\ d.stage = c.stage /\ d.sendQueue = c.sendQueue
        /\ d.writes = c.writes /\ d.sentOK = c.sentOK /\ d.sentErr = c.sentErr
        /\ d.accepted = c.accepted /\ d.called = c.called /\ d.asserts = c.asserts
        /\ d.idle = c.idle /\ d.held = c.held
    BY <1>8, StreamFieldsAre
  <2>2. Balanced(d, 0)
    BY <1>7, <1>8, <2>1 DEF Fine, Balanced
  <2>3. Lives(d)
    BY <1>7, <2>1 DEF Fine, Lives
  <2> QED BY <1>7, <2>1, <2>2, <2>3 DEF Fine
<1> QED BY <1>2, <1>9, ShutdownFine, StreamBecome

\* DeleteRemoteNode for a connection that stops reading.
LEMMA StopReading ==
    ASSUME NEW b, Fine(b)
    PROVE  Fine(S!DeleteRemoteNode([b EXCEPT !.reading = FALSE]))
<1> DEFINE c == [b EXCEPT !.reading = FALSE]
           d == S!DeleteRemoteNode(c)
<1>1. DOMAIN c = StreamFields /\ ~c.reading
      /\ \A f \in StreamFields \ {"reading"} : c[f] = b[f]
  BY StreamFieldsAre DEF Fine, Balanced
<1> HIDE DEF c
<1>2. /\ c.refCount = b.refCount /\ c.stage = b.stage /\ c.sendQueue = b.sendQueue
      /\ c.writes = b.writes /\ c.sentOK = b.sentOK /\ c.sentErr = b.sentErr
      /\ c.accepted = b.accepted /\ c.called = b.called /\ c.asserts = b.asserts
      /\ c.idle = b.idle /\ c.held = b.held
  BY <1>1, StreamFieldsAre
<1>3. Balanced(c, 0) /\ Lives(c)
  BY <1>1, <1>2 DEF Fine, Balanced, Lives
<1>4. Fine(c)
  BY <1>2, <1>3 DEF Fine
<1>5. /\ Balanced(d, 0) /\ Lives(d) /\ SameQueues(c, d)
      /\ d.sentOK = c.sentOK /\ d.sentErr = c.sentErr
  BY <1>3, StreamDelete
<1> HIDE DEF d
<1>6. Fine(d)
  BY <1>4, <1>5, FineAfter
<1> QED BY <1>6 DEF d, c

\* A length that cannot be decoded.
LEMMA OnBadLengthInv ==
    ASSUME StreamInv, NEW k \in Streams, S!OnBadLength(k) PROVE StreamInv'
<1> DEFINE d == S!DeleteRemoteNode([scn[k] EXCEPT !.reading = FALSE])
<1>1. S!Become(k, IF d.refCount = 0 THEN S!Shutdown(d) ELSE d)
  BY DEF S!OnBadLength
<1>2. Fine(d)
  BY StopReading DEF StreamInv
<1> HIDE DEF d
<1> QED BY <1>1, <1>2, ShutdownFine, StreamBecome

\* The end of the stream.
LEMMA OnReadErrorInv ==
    ASSUME StreamInv, NEW k \in Streams, S!OnReadError(k) PROVE StreamInv'
<1> DEFINE d == S!DeleteRemoteNode([scn[k] EXCEPT !.reading = FALSE])
<1>1. S!Become(k, d)
  BY DEF S!OnReadError
<1>2. Fine(d)
  BY StopReading DEF StreamInv
<1> HIDE DEF d
<1> QED BY <1>1, <1>2, StreamBecome

\* A request is written: the callbacks, then its reference.
LEMMA OnWriteCompleteInv ==
    ASSUME StreamInv, NEW k \in Streams, S!OnWriteComplete(k) PROVE StreamInv'
<1> DEFINE b == scn[k]
           w == [b EXCEPT !.writes = @ - 1]
           o == [w EXCEPT !.sentOK = @ + 1]
           x == [w EXCEPT !.sentErr = @ + 1]
<1>1. PICK ok \in BOOLEAN :
          S!Become(k, S!DecRef(S!SendCompleted(IF ok THEN o ELSE x)))
  BY DEF S!OnWriteComplete
<1> DEFINE c == IF ok THEN o ELSE x
           e == S!SendCompleted(c)
           d == S!DecRef(e)
<1>2. S!Become(k, d)
  BY <1>1
<1>3. Fine(b) /\ b.writes > 0
  BY DEF StreamInv, S!OnWriteComplete
<1> HIDE DEF b
<1>4. b.stage \notin Closed /\ b.stage # "connecting" /\ b.refCount > 0
  BY <1>3 DEF Fine, Balanced, Lives, One
<1>5. DOMAIN w = StreamFields /\ w.writes = b.writes - 1
      /\ \A f \in StreamFields \ {"writes"} : w[f] = b[f]
  BY <1>3, StreamFieldsAre DEF Fine, Balanced
<1> HIDE DEF w
<1>6. /\ DOMAIN o = StreamFields /\ o.sentOK = w.sentOK + 1
      /\ \A f \in StreamFields \ {"sentOK"} : o[f] = w[f]
  BY <1>5, StreamFieldsAre
<1>7. /\ DOMAIN x = StreamFields /\ x.sentErr = w.sentErr + 1
      /\ \A f \in StreamFields \ {"sentErr"} : x[f] = w[f]
  BY <1>5, StreamFieldsAre
<1> HIDE DEF o, x
<1>8. Balanced(c, 1) /\ c.stage = b.stage /\ c.refCount = b.refCount
  <2>1. Balanced(o, 1) /\ o.stage = b.stage /\ o.refCount = b.refCount
    BY <1>3, <1>5, <1>6, StreamFieldsAre DEF Fine, Balanced, One
  <2>2. Balanced(x, 1) /\ x.stage = b.stage /\ x.refCount = b.refCount
    BY <1>3, <1>5, <1>7, StreamFieldsAre DEF Fine, Balanced, One
  <2> QED BY <2>1, <2>2
<1> HIDE DEF c
<1>9. Lives(c)
  BY <1>4, <1>8 DEF Lives
<1>10. Balanced(e, 1) /\ Lives(e) /\ SameQueues(c, e) /\ e.sentOK = 0 /\ e.sentErr = 0
  BY <1>8, <1>9, StreamSendCompleted
<1> HIDE DEF e
<1>11. /\ Balanced(d, 0) /\ Lives(d) /\ SameQueues(e, d)
       /\ d.sentOK = e.sentOK /\ d.sentErr = e.sentErr
  BY <1>10, StreamDecRef
<1> HIDE DEF d
<1>12. d.stage # "connecting" /\ d.stage # "freed"
  BY <1>4, <1>8, <1>10, <1>11 DEF SameQueues, Closed
<1>13. Fine(d)
  BY <1>10, <1>11, <1>12 DEF Fine
<1> QED BY <1>2, <1>13, StreamBecome

\* Every step that only calls back: SendCompleted, with the queue cancelled or not.
LEMMA SendCompletedFine ==
    ASSUME NEW b, Fine(b)
    PROVE  LET d == S!SendCompleted(b)
           IN  Fine(d) /\ SameQueues(b, d) /\ d.sentOK = 0 /\ d.sentErr = 0
<1> DEFINE d == S!SendCompleted(b)
<1>1. Balanced(b, 0) /\ Lives(b)
  BY DEF Fine
<1>2. Balanced(d, 0) /\ Lives(d) /\ SameQueues(b, d) /\ d.sentOK = 0 /\ d.sentErr = 0
  BY <1>1, StreamSendCompleted
<1> HIDE DEF d
<1>3. Fine(d)
  BY <1>2, FineAfter
<1> QED BY <1>2, <1>3 DEF d

\* The idler.
LEMMA SendCompletedTaskInv ==
    ASSUME StreamInv, NEW k \in Streams, S!SendCompletedTask(k) PROVE StreamInv'
<1> DEFINE b == scn[k]
           d == S!SendCompleted(b)
           e == [d EXCEPT !.idle = FALSE]
<1>1. S!Become(k, e) /\ Fine(b)
  BY DEF S!SendCompletedTask, StreamInv
<1> HIDE DEF b
<1>2. Fine(d) /\ d.sentOK = 0 /\ d.sentErr = 0
  BY <1>1, SendCompletedFine
<1> HIDE DEF d
<1>3. DOMAIN e = StreamFields /\ \A f \in StreamFields \ {"idle"} : e[f] = d[f]
  BY <1>2, StreamFieldsAre DEF Fine, Balanced
<1> HIDE DEF e
<1>4. /\ e.refCount = d.refCount /\ e.stage = d.stage /\ e.sendQueue = d.sendQueue
      /\ e.writes = d.writes /\ e.sentOK = d.sentOK /\ e.sentErr = d.sentErr
      /\ e.accepted = d.accepted /\ e.called = d.called /\ e.asserts = d.asserts
      /\ e.held = d.held /\ e.reading = d.reading
  BY <1>3, StreamFieldsAre
<1>5. Balanced(e, 0) /\ Lives(e)
  BY <1>2, <1>3, <1>4 DEF Fine, Balanced, Lives
<1>6. Fine(e)
  BY <1>2, <1>4, <1>5 DEF Fine
<1> QED BY <1>1, <1>6, StreamBecome

\* The upper layer lets go.
LEMMA StreamDecRefInv ==
    ASSUME StreamInv, NEW k \in Streams, S!NetConnectionDecRef(k) PROVE StreamInv'
<1> DEFINE d == S!DeleteRemoteNode(scn[k])
<1>1. S!Become(k, d) /\ Fine(scn[k])
  BY DEF S!NetConnectionDecRef, StreamInv
<1>2. /\ Balanced(d, 0) /\ Lives(d) /\ SameQueues(scn[k], d)
      /\ d.sentOK = scn[k].sentOK /\ d.sentErr = scn[k].sentErr
  BY <1>1, StreamDelete DEF Fine
<1> HIDE DEF d
<1> QED BY <1>1, <1>2, FineAfter, StreamBecome

\* The stream is shut down.
LEMMA OnShutdownCompleteInv ==
    ASSUME StreamInv, NEW k \in Streams, S!OnShutdownComplete(k) PROVE StreamInv'
<1> DEFINE b == scn[k]
           e == [b EXCEPT !.stage = "stream"]
<1>1. S!Become(k, e) /\ Fine(b) /\ b.stage = "shutdown"
  BY DEF S!OnShutdownComplete, StreamInv
<1> HIDE DEF b
<1>2. DOMAIN e = StreamFields /\ e.stage = "stream"
      /\ \A f \in StreamFields \ {"stage"} : e[f] = b[f]
  BY <1>1, StreamFieldsAre DEF Fine, Balanced
<1> HIDE DEF e
<1>3. Balanced(e, 0)
  BY <1>1, <1>2, StreamFieldsAre DEF Fine, Balanced
<1>4. Lives(e)
  BY <1>1, <1>2, StreamFieldsAre DEF Fine, Lives, Closed
<1>5. Fine(e)
  BY <1>2, <1>3, <1>4 DEF Fine
<1> QED BY <1>1, <1>5, StreamBecome

\* FreeConnection: what is queued is cancelled and called back.
LEMMA ClosedCallback ==
    ASSUME NEW b, Fine(b), b.stage = "idle"
    PROVE  LET d == S!SendCompleted(S!CancelPendingSends(b))
           IN  /\ Balanced(d, 0) /\ d.refCount <= 0 /\ ~d.reading
               /\ d.sendQueue = 0 /\ d.sentOK = 0 /\ d.sentErr = 0
<1> DEFINE c == S!CancelPendingSends(b)
           d == S!SendCompleted(c)
<1>1. /\ Balanced(c, 0) /\ Lives(c) /\ c.sendQueue = 0
      /\ \A f \in StreamFields \ {"sendQueue", "sentErr"} : c[f] = b[f]
  BY StreamCancel DEF Fine
<1> HIDE DEF c
<1>2. c.stage = b.stage
  BY <1>1, StreamFieldsAre
<1>3. Balanced(d, 0) /\ Lives(d) /\ SameQueues(c, d) /\ d.sentOK = 0 /\ d.sentErr = 0
  BY <1>1, StreamSendCompleted
<1> HIDE DEF d
<1>4. d.stage \in Closed
  BY <1>2, <1>3 DEF SameQueues, Closed
<1>5. d.refCount <= 0 /\ ~d.reading /\ d.sendQueue = 0
  BY <1>1, <1>3, <1>4 DEF Lives, SameQueues
<1> QED BY <1>3, <1>5 DEF d, c

\* The stream is closed.
LEMMA StreamClosedInv ==
    ASSUME StreamInv, NEW k \in Streams, S!StreamClosed(k) PROVE StreamInv'
<1> DEFINE b == scn[k]
           e == [b EXCEPT !.stage = "idle", !.idle = FALSE]
<1>1. S!Become(k, e) /\ Fine(b) /\ b.stage = "stream"
  BY DEF S!StreamClosed, StreamInv
<1> HIDE DEF b
<1>2. DOMAIN e = StreamFields /\ e.stage = "idle"
      /\ \A f \in StreamFields \ {"stage", "idle"} : e[f] = b[f]
  BY <1>1, StreamFieldsAre DEF Fine, Balanced
<1> HIDE DEF e
<1>3. Balanced(e, 0) /\ e.refCount <= 0 /\ ~e.reading
  BY <1>1, <1>2, StreamFieldsAre DEF Fine, Balanced, Lives, Closed
<1>4. Fine(e)
  BY <1>2, <1>3 DEF Fine, Lives
<1> QED BY <1>1, <1>4, StreamBecome

\* The idler is closed and the connection freed.
LEMMA IdleClosedInv ==
    ASSUME StreamInv, NEW k \in Streams, S!IdleClosed(k) PROVE StreamInv'
<1> DEFINE b == scn[k]
           d == S!SendCompleted(S!CancelPendingSends(b))
           e == [d EXCEPT !.stage = "freed"]
<1>1. S!Become(k, e) /\ Fine(b) /\ b.stage = "idle"
  BY DEF S!IdleClosed, StreamInv
<1> HIDE DEF b
<1>2. /\ Balanced(d, 0) /\ d.refCount <= 0 /\ ~d.reading
      /\ d.sendQueue = 0 /\ d.sentOK = 0 /\ d.sentErr = 0
  BY <1>1, ClosedCallback
<1> HIDE DEF d
<1>3. DOMAIN e = StreamFields /\ e.stage = "freed"
      /\ \A f \in StreamFields \ {"stage"} : e[f] = d[f]
  BY <1>2, StreamFieldsAre DEF Balanced
<1> HIDE DEF e
<1>4. /\ Balanced(e, 0) /\ e.refCount <= 0 /\ ~e.reading
      /\ e.sendQueue = 0 /\ e.sentOK = 0 /\ e.sentErr = 0
  BY <1>2, <1>3, StreamFieldsAre DEF Balanced
<1>5. Fine(e)
  BY <1>3, <1>4 DEF Fine, Lives
<1> QED BY <1>1, <1>5, StreamBecome

\* DPS_NetStop.
LEMMA StreamNetStopInv ==
    ASSUME StreamInv, S!NetStop PROVE StreamInv'
<1>1. scn' = [k \in Streams |-> S!DeleteRemoteNode(scn[k])]
  BY DEF S!NetStop
<1>2. ASSUME NEW k \in Streams PROVE Fine(scn'[k])
  <2> DEFINE d == S!DeleteRemoteNode(scn[k])
  <2>1. scn'[k] = d /\ Fine(scn[k])
    BY <1>1 DEF StreamInv
  <2>2. /\ Balanced(d, 0) /\ Lives(d) /\ SameQueues(scn[k], d)
        /\ d.sentOK = scn[k].sentOK /\ d.sentErr = scn[k].sentErr
    BY <2>1, StreamDelete DEF Fine
  <2> HIDE DEF d
  <2> QED BY <2>1, <2>2, FineAfter
<1> QED BY <1>1, <1>2 DEF StreamInv

\* The invariant holds at the start,
LEMMA StreamInit == ASSUME S!Init PROVE StreamInv
BY StreamNothing DEF S!Init, StreamInv

\* is preserved by every handler,
LEMMA StreamStep == ASSUME StreamInv, S!Next PROVE StreamInv'
<1>1. ASSUME NEW k \in Streams,
             \/ S!NetConnect(k) \/ S!NetSend(k) \/ S!OnIncomingConnection(k) \/ S!OnMessage(k)
             \/ S!OnBadLength(k) \/ S!OnReadError(k) \/ S!NetConnectionDecRef(k)
             \/ S!SendCompletedTask(k)
      PROVE  StreamInv'
  BY <1>1, NetConnectInv, StreamNetSendInv, OnIncomingConnectionInv, OnMessageInv,
     OnBadLengthInv, OnReadErrorInv, StreamDecRefInv, SendCompletedTaskInv
<1>2. ASSUME NEW k \in Streams, S!LoopWork(k) PROVE StreamInv'
  BY <1>2, OnOutgoingConnectionInv, OnWriteCompleteInv, OnShutdownCompleteInv,
     StreamClosedInv, IdleClosedInv DEF S!LoopWork
<1>3. CASE S!FailConnection \/ S!ListenSocketClosed
  BY <1>3 DEF S!FailConnection, S!ListenSocketClosed, StreamInv
<1> QED BY <1>1, <1>2, <1>3, StreamNetStopInv DEF S!Next

\* and by the steps of the others.
LEMMA StreamStutter == ASSUME StreamInv, UNCHANGED sVars PROVE StreamInv'
BY DEF StreamInv, sVars

\* What the invariant says of the properties.
LEMMA StreamCounted == ASSUME StreamInv PROVE S!StreamRefs /\ S!StreamOnce
<1>1. ASSUME NEW k \in Streams
      PROVE  LET c == scn[k]
             IN  /\ c.asserts /\ c.refCount = c.writes + (IF c.held THEN 1 ELSE 0)
                 /\ c.stage \in {"shutdown", "stream", "idle", "freed"} => c.refCount = 0
                 /\ c.accepted = c.called + c.sendQueue + c.writes + c.sentOK + c.sentErr
                 /\ c.sentOK + c.sentErr > 0 =>
                        c.idle \/ c.stage \in {"shutdown", "stream", "idle"}
                 /\ c.stage = "freed" => c.called = c.accepted
  <2> DEFINE c == scn[k]
  <2>1. Fine(c)
    BY DEF StreamInv
  <2> HIDE DEF c
  <2>2. c.asserts /\ c.refCount = c.writes + (IF c.held THEN 1 ELSE 0) /\ c.refCount >= 0
    BY <2>1 DEF Fine, Balanced, One
  <2>3. c.stage \in Closed => c.refCount = 0
    BY <2>1, <2>2 DEF Fine, Lives, Balanced
  <2>4. c.stage = "freed" => c.writes <= 0
    BY <2>1, <2>2, <2>3 DEF Fine, Balanced, Closed
  <2>5. c.stage = "freed" => c.called = c.accepted
    BY <2>1, <2>4 DEF Fine, Balanced
  <2> QED BY <2>1, <2>2, <2>3, <2>5 DEF Fine, Balanced, Closed, c
<1> QED BY <1>1 DEF S!StreamRefs, S!StreamOnce

--------------------------------------------------------------------------------
(* Multicast. *)

MulticastInv ==
    /\ mudpTx \subseteq Interfaces
    /\ msender = "freed" => mudpTx = {}
    /\ DOMAIN mout = Messages /\ DOMAIN mstatus = Messages /\ DOMAIN mcalled = Messages
    /\ \A m \in Messages :
           /\ mout[m] \subseteq mudpTx
           /\ mout[m] # {} => mstatus[m] \in {"ok", "error"}
           /\ mcalled[m] = (IF mstatus[m] \in {"ok", "error"} /\ mout[m] = {} THEN 1 ELSE 0)

\* The invariant holds at the start.
LEMMA MulticastInit == ASSUME M!Init PROVE MulticastInv
BY DEF M!Init, M!MulticastRxInit, M!MulticastTxInit, MulticastInv

\* numTx counts the sockets not closed yet.
LEMMA SendersCount ==
    ASSUME MulticastInv
    PROVE  /\ ~(M!numTx > 0) => mudpTx = {}
           /\ M!numTx = 1 => \A i \in mudpTx : mudpTx = {i}
<1>1. IsFiniteSet(mudpTx)
  BY InterfacesAssumption, FS_Subset DEF MulticastInv
<1>2. Cardinality(mudpTx) \in Nat /\ (Cardinality(mudpTx) = 0 <=> mudpTx = {})
  BY <1>1, FS_CardinalityType, FS_EmptySet
<1>3. Cardinality(mudpTx) = 1 <=> \E x : mudpTx = {x}
  BY <1>1, FS_Singleton
<1>4. M!numTx = Cardinality(mudpTx)
  BY DEF M!numTx, M!Cardinality, M!IsFiniteSet, Cardinality, IsFiniteSet
<1>5. ~(M!numTx > 0) => mudpTx = {}
  BY <1>2, <1>4
<1>6. ASSUME M!numTx = 1, NEW i \in mudpTx PROVE mudpTx = {i}
  BY <1>3, <1>4, <1>6
<1> QED BY <1>5, <1>6

\* DPS_MulticastSend, with any interfaces refusing.
LEMMA MulticastSendInv ==
    ASSUME MulticastInv, NEW m \in Messages, M!MulticastSend(m) PROVE MulticastInv'
<1>1. PICK taken \in SUBSET mudpTx :
          /\ mout' = [mout EXCEPT ![m] = taken]
          /\ mstatus' = [mstatus EXCEPT ![m] = IF taken = {} THEN "refused" ELSE "ok"]
  BY DEF M!MulticastSend
<1>2. mstatus[m] = "new" /\ UNCHANGED <<msender, mudpTx, mcalled>>
  BY DEF M!MulticastSend
<1> QED BY <1>1, <1>2 DEF MulticastInv

\* A request is done; the last one calls back.
LEMMA MulticastSendCompleteInv ==
    ASSUME MulticastInv, NEW m \in Messages, M!MulticastSendComplete(m) PROVE MulticastInv'
<1>1. PICK i \in mout[m], ok \in BOOLEAN :
          /\ mout' = [mout EXCEPT ![m] = @ \ {i}]
          /\ mstatus' = [mstatus EXCEPT ![m] = IF ok THEN @ ELSE "error"]
          /\ mcalled' = [mcalled EXCEPT ![m] = @ + (IF mout[m] = {i} THEN 1 ELSE 0)]
  BY DEF M!MulticastSendComplete, M!Completed
<1>2. UNCHANGED <<msender, mudpTx>>
  BY DEF M!MulticastSendComplete
<1>3. mcalled[m] = 0 /\ mstatus[m] \in {"ok", "error"}
  BY DEF MulticastInv
<1>4. \A x \in Messages : x # m => /\ mout'[x] = mout[x] /\ mstatus'[x] = mstatus[x]
                                   /\ mcalled'[x] = mcalled[x]
  BY <1>1 DEF MulticastInv
<1>5. /\ mout'[m] = mout[m] \ {i} /\ mstatus'[m] \in {"ok", "error"}
      /\ mcalled'[m] = IF mout[m] = {i} THEN 1 ELSE 0
  BY <1>1, <1>3 DEF MulticastInv
<1>6. mout'[m] = {} <=> mout[m] = {i}
  BY <1>5
<1>7. DOMAIN mout' = Messages /\ DOMAIN mstatus' = Messages /\ DOMAIN mcalled' = Messages
  BY <1>1 DEF MulticastInv
<1> QED BY <1>2, <1>4, <1>5, <1>6, <1>7 DEF MulticastInv

\* A socket closes under its requests.
LEMMA TxCloseCBInv ==
    ASSUME MulticastInv, NEW i \in Interfaces, M!TxCloseCB(i) PROVE MulticastInv'
<1>1. /\ mout' = [m \in Messages |-> mout[m] \ {i}]
      /\ mstatus' = [m \in Messages |-> IF i \in mout[m] THEN "error" ELSE mstatus[m]]
      /\ mcalled' = [m \in Messages |-> mcalled[m] + (IF mout[m] = {i} THEN 1 ELSE 0)]
      /\ mudpTx' = mudpTx \ {i} /\ i \in mudpTx
      /\ msender' = IF M!numTx = 1 THEN "freed" ELSE msender
  BY DEF M!TxCloseCB
<1>2. M!numTx = 1 => mudpTx' = {}
  BY <1>1, SendersCount
<1>3. msender' = "freed" => mudpTx' = {}
  BY <1>1, <1>2 DEF MulticastInv
<1>4. ASSUME NEW m \in Messages
      PROVE  /\ mout'[m] \subseteq mudpTx'
             /\ mout'[m] # {} => mstatus'[m] \in {"ok", "error"}
             /\ mcalled'[m] =
                  (IF mstatus'[m] \in {"ok", "error"} /\ mout'[m] = {} THEN 1 ELSE 0)
  <2>1. CASE i \in mout[m]
    <3>1. mcalled[m] = 0
      BY <2>1 DEF MulticastInv
    <3>2. mout'[m] = {} <=> mout[m] = {i}
      BY <1>1, <2>1
    <3> QED BY <1>1, <2>1, <3>1, <3>2 DEF MulticastInv
  <2>2. CASE i \notin mout[m]
    <3>1. mout'[m] = mout[m] /\ mstatus'[m] = mstatus[m] /\ mcalled'[m] = mcalled[m] + 0
      BY <1>1, <2>2
    <3> QED BY <1>1, <2>2, <3>1 DEF MulticastInv
  <2> QED BY <2>1, <2>2
<1> QED BY <1>1, <1>3, <1>4 DEF MulticastInv

\* Every handler preserves the invariant,
LEMMA MulticastStep == ASSUME MulticastInv, M!Next PROVE MulticastInv'
<1>1. CASE M!MulticastStopSend
  BY <1>1, SendersCount DEF M!MulticastStopSend, MulticastInv
<1>2. CASE M!MulticastStopReceive
  BY <1>2 DEF M!MulticastStopReceive, MulticastInv
<1>3. CASE M!OnMcastRx \/ M!OnMcastRxError \/ M!NetRxBufferDecRef
  BY <1>3 DEF M!OnMcastRx, M!OnMcastRxError, M!NetRxBufferDecRef, MulticastInv
<1> QED BY <1>1, <1>2, <1>3, MulticastSendInv, MulticastSendCompleteInv, TxCloseCBInv
        DEF M!Next, M!LoopWork

\* and so do the steps of the others.
LEMMA MulticastStutter == ASSUME MulticastInv, UNCHANGED mVars PROVE MulticastInv'
BY DEF MulticastInv, mVars

\* What the invariant says of the property.
LEMMA MulticastCounted == ASSUME MulticastInv PROVE M!McastOnce
BY DEF MulticastInv, M!McastOnce

--------------------------------------------------------------------------------
(* The resolver. *)

\* A linked request wakes the loop, which is there to be woken, or came too late;
\* a stopped node has no look-up; a request is in one place until it has its answer.
ResolverInv ==
    /\ rlist \in Seq(Requests)
    /\ DOMAIN rlookup = Requests /\ DOMAIN ranswer = Requests
    /\ \A r \in Requests : R!Linked(r) => r \in rlate \/ (rasync /\ rnode \in {"running", "stopping"})
    /\ rnode \in {"running", "stopping", "draining", "stopped"}
    /\ rnode = "stopped" => \A r \in Requests : rlookup[r] = "none"
    /\ \A r \in Requests :
           /\ ranswer[r] \in Seq({"address", "null"}) /\ Len(ranswer[r]) <= 1
           /\ R!Linked(r) => ranswer[r] = <<>> /\ rlookup[r] = "none"
           /\ rlookup[r] # "none" => ranswer[r] = <<>>

\* The invariant holds at the start.
LEMMA ResolverInit == ASSUME R!Init PROVE ResolverInv
BY DEF R!Init, ResolverInv, R!Linked

\* No request is on the empty list.
LEMMA EmptyLinks == ASSUME rlist' = <<>> PROVE \A r \in Requests : ~R!Linked(r)'
BY DEF R!Linked

\* An answer is the first.
LEMMA OneAnswer ==
    ASSUME NEW a \in {"address", "null"}
    PROVE  Append(<<>>, a) \in Seq({"address", "null"}) /\ Len(Append(<<>>, a)) = 1
OBVIOUS

\* DPS_ResolveAddress.
LEMMA ResolveAddressInv ==
    ASSUME ResolverInv, NEW q \in Requests, R!ResolveAddress(q) PROVE ResolverInv'
<1>1. /\ rnode # "stopped" /\ rlookup[q] = "none" /\ ranswer[q] = <<>>
      /\ rasync' = (rnode # "draining")
      /\ rlate' = rlate \cup IF rnode = "draining" THEN {q} ELSE {}
      /\ rlist' = <<q>> \o rlist /\ UNCHANGED <<rlookup, ranswer, rnode>>
  BY DEF R!ResolveAddress
<1>2. rlist' \in Seq(Requests)
  BY <1>1 DEF ResolverInv
<1>3. \A r \in Requests : R!Linked(r)' => r = q \/ R!Linked(r)
  <2>1. ASSUME NEW r \in Requests, NEW i \in 1 .. Len(rlist'), rlist'[i] = r, r # q
        PROVE  \E j \in 1 .. Len(rlist) : rlist[j] = r
    <3>1. i - 1 \in 1 .. Len(rlist) /\ rlist[i - 1] = r
      BY <1>1, <2>1 DEF ResolverInv
    <3> QED BY <3>1
  <2> QED BY <2>1 DEF R!Linked
<1>4. ASSUME NEW r \in Requests, R!Linked(r)'
      PROVE  r \in rlate' \/ (rasync' /\ rnode' \in {"running", "stopping"})
  <2>1. CASE rnode = "draining"
    BY <1>1, <1>3, <1>4, <2>1 DEF ResolverInv
  <2>2. CASE rnode \in {"running", "stopping"}
    BY <1>1, <2>2
  <2>3. rnode \in {"running", "stopping", "draining"}
    BY <1>1 DEF ResolverInv
  <2> QED BY <2>1, <2>2, <2>3
<1> QED BY <1>1, <1>2, <1>3, <1>4 DEF ResolverInv

\* DPS_AsyncResolveAddress, with any requests refused by libuv.
LEMMA AsyncResolveAddressInv ==
    ASSUME ResolverInv, R!AsyncResolveAddress PROVE ResolverInv'
<1>1. PICK refused \in SUBSET {r \in Requests : R!Linked(r)} :
          /\ rlookup' = [r \in Requests |-> IF R!Linked(r) /\ r \notin refused THEN "first"
                                            ELSE rlookup[r]]
          /\ ranswer' = [r \in Requests |-> IF r \in refused THEN Append(ranswer[r], "null")
                                            ELSE ranswer[r]]
          /\ rnode # "running" => \A r \in Requests : R!Linked(r) => r \in refused
  BY DEF R!AsyncResolveAddress
<1>2. rlist' = <<>> /\ rnode' = rnode
  BY DEF R!AsyncResolveAddress
<1>3. ASSUME NEW r \in Requests
      PROVE  /\ ranswer'[r] \in Seq({"address", "null"}) /\ Len(ranswer'[r]) <= 1
             /\ rlookup'[r] # "none" => ranswer'[r] = <<>>
             /\ R!Linked(r) \/ rlookup'[r] = rlookup[r]
  <2>1. CASE r \in refused
    BY <1>1, <2>1, OneAnswer DEF ResolverInv
  <2>2. CASE r \notin refused
    BY <1>1, <2>2 DEF ResolverInv
  <2> QED BY <2>1, <2>2
<1>4. rnode = "stopped" => \A r \in Requests : rlookup'[r] = "none"
  BY <1>1 DEF ResolverInv
<1>5. DOMAIN rlookup' = Requests /\ DOMAIN ranswer' = Requests /\ rlist' \in Seq(Requests)
  BY <1>1, <1>2
<1> QED BY <1>2, <1>3, <1>4, <1>5, EmptyLinks DEF ResolverInv

\* libuv answers.
LEMMA GetAddrInfoCBInv ==
    ASSUME ResolverInv, NEW q \in Requests, R!GetAddrInfoCB(q) PROVE ResolverInv'
<1>1. PICK a \in {"address", "null"} : ranswer' = [ranswer EXCEPT ![q] = Append(@, a)]
  BY DEF R!GetAddrInfoCB
<1>2. /\ rlookup[q] # "none" /\ rlookup' = [rlookup EXCEPT ![q] = "none"]
      /\ UNCHANGED <<rlist, rasync, rnode, rlate>>
  BY DEF R!GetAddrInfoCB
<1>3. \A r \in Requests : R!Linked(r)' <=> R!Linked(r)
  BY <1>2 DEF R!Linked
<1>4. ranswer[q] = <<>> /\ ~R!Linked(q)
  BY <1>2 DEF ResolverInv
<1>5. ranswer'[q] = Append(<<>>, a) /\ rlookup'[q] = "none"
  BY <1>1, <1>2, <1>4 DEF ResolverInv
<1>6. \A r \in Requests : r # q => ranswer'[r] = ranswer[r] /\ rlookup'[r] = rlookup[r]
  BY <1>1, <1>2 DEF ResolverInv
<1>7. DOMAIN rlookup' = Requests /\ DOMAIN ranswer' = Requests
  BY <1>1, <1>2 DEF ResolverInv
<1>8. ranswer'[q] \in Seq({"address", "null"}) /\ Len(ranswer'[q]) <= 1
  BY <1>5, OneAnswer
<1> QED BY <1>2, <1>3, <1>4, <1>5, <1>6, <1>7, <1>8 DEF ResolverInv

\* The other address family.
LEMMA TryAgainInv ==
    ASSUME ResolverInv, NEW q \in Requests, R!TryAgain(q) PROVE ResolverInv'
<1>1. /\ rlookup[q] = "first" /\ rlookup' = [rlookup EXCEPT ![q] = "second"]
      /\ UNCHANGED <<rlist, rasync, ranswer, rnode, rlate>>
  BY DEF R!TryAgain
<1>2. \A r \in Requests : R!Linked(r)' <=> R!Linked(r)
  BY <1>1 DEF R!Linked
<1> QED BY <1>1, <1>2 DEF ResolverInv

\* DPS_DestroyNode only asks.
LEMMA AskedToStopInv == ASSUME ResolverInv, R!DestroyNode PROVE ResolverInv'
<1>1. rnode' = "stopping" /\ UNCHANGED <<rlist, rasync, rlookup, ranswer, rlate>> /\ rnode = "running"
  BY DEF R!DestroyNode
<1>2. \A r \in Requests : R!Linked(r)' <=> R!Linked(r)
  BY <1>1 DEF R!Linked
<1> QED BY <1>1, <1>2 DEF ResolverInv

\* StopNode answers what is still linked.
LEMMA StopNodeInv == ASSUME ResolverInv, R!StopNode PROVE ResolverInv'
<1>1. /\ rnode' = "draining" /\ rlist' = <<>> /\ UNCHANGED rlookup
      /\ ranswer' = [r \in Requests |-> IF R!Linked(r) THEN Append(ranswer[r], "null")
                                        ELSE ranswer[r]]
  BY DEF R!StopNode
<1>2. ASSUME NEW r \in Requests
      PROVE  /\ ranswer'[r] \in Seq({"address", "null"}) /\ Len(ranswer'[r]) <= 1
             /\ rlookup[r] # "none" => ranswer'[r] = <<>>
  <2>1. CASE R!Linked(r)
    BY <1>1, <2>1, OneAnswer DEF ResolverInv
  <2>2. CASE ~R!Linked(r)
    BY <1>1, <2>2 DEF ResolverInv
  <2> QED BY <2>1, <2>2
<1>3. DOMAIN ranswer' = Requests /\ rlist' \in Seq(Requests)
  BY <1>1
<1> QED BY <1>1, <1>2, <1>3, EmptyLinks DEF ResolverInv

\* The loop ends.
LEMMA DrainedInv == ASSUME ResolverInv, R!Drained PROVE ResolverInv'
<1>1. /\ rnode = "draining" /\ \A r \in Requests : rlookup[r] = "none"
      /\ rnode' = "stopped" /\ UNCHANGED <<rlist, rasync, rlookup, ranswer, rlate>>
  BY DEF R!Drained
<1>2. \A r \in Requests : R!Linked(r)' <=> R!Linked(r)
  BY <1>1 DEF R!Linked
<1> QED BY <1>1, <1>2 DEF ResolverInv

\* Every handler preserves the invariant,
LEMMA ResolverStep == ASSUME ResolverInv, R!Next PROVE ResolverInv'
BY ResolveAddressInv, AsyncResolveAddressInv, GetAddrInfoCBInv, TryAgainInv, AskedToStopInv,
   StopNodeInv, DrainedInv DEF R!Next, R!LoopWork

\* and so do the steps of the others.
LEMMA ResolverStutter == ASSUME ResolverInv, UNCHANGED rVars PROVE ResolverInv'
<1>1. UNCHANGED <<rlist, rasync, rlookup, ranswer, rnode, rlate>>
  BY DEF rVars
<1>2. \A r \in Requests : R!Linked(r)' <=> R!Linked(r)
  BY <1>1 DEF R!Linked
<1> QED BY <1>1, <1>2 DEF ResolverInv

\* What the invariant says of the property.
LEMMA ResolverCounted == ASSUME ResolverInv PROVE R!ResolvesOnce
<1> QED BY DEF ResolverInv, R!ResolvesOnce, R!Waits

--------------------------------------------------------------------------------
(* The framing of the stream transports. *)

AddFrame(p, n) == p + F!FrameSize(n)
Frames == INSTANCE FoldTheorems WITH Op <- AddFrame

\* A length takes a byte, two, three or five, and the shortest message fills the five bytes.
LEMMA HeadSizes == ASSUME NEW n \in Lengths
                   PROVE  /\ n \in Nat /\ n >= 4 /\ F!HeadSize(n) \in 1 .. 5
                          /\ F!FrameSize(n) = F!HeadSize(n) + n /\ F!FrameSize(n) \in Nat /\ F!FrameSize(n) >= 5
<1>1. n \in Nat /\ n >= 4
  BY LengthsAssumption
<1>2. F!HeadSize(n) \in 1 .. 5
  BY <1>1 DEF F!HeadSize
<1> QED BY <1>1, <1>2 DEF F!FrameSize

\* Where the frames of the stream begin.
LEMMA StartsFold == ASSUME NEW i PROVE F!FrameStart(i) = Frames!Fold(0, SubSeq(fsent, 1, i - 1))
BY Zenon DEF F!FrameStart, F!FoldLeft, F!MapThenFoldSet, F!Max, Frames!Fold, Frames!Stepped, Frames!Steps,
   Frames!Top, AddFrame

LEMMA FirstStart == F!FrameStart(1) = 0
<1>1. SubSeq(fsent, 1, 1 - 1) = <<>>
  OBVIOUS
<1> QED BY <1>1, StartsFold, Frames!FoldEmpty, Zenon

LEMMA NextStart ==
    ASSUME fsent \in Seq(Lengths), NEW i \in 1 .. Len(fsent)
    PROVE  F!FrameStart(i + 1) = F!FrameStart(i) + F!FrameSize(fsent[i])
<1> DEFINE before == SubSeq(fsent, 1, i - 1)
           to == SubSeq(fsent, 1, i)
<1>1. before \in Seq(Lengths) /\ fsent[i] \in Lengths
  OBVIOUS
<1>2. to = Append(before, fsent[i])
  OBVIOUS
<1>3. i + 1 - 1 = i
  OBVIOUS
<1> HIDE DEF before, to
<1>4. Frames!Fold(0, to) = AddFrame(Frames!Fold(0, before), fsent[i])
  BY <1>1, <1>2, Frames!FoldAppend, Zenon
<1>5. F!FrameStart(i) = Frames!Fold(0, before)
  BY StartsFold, Zenon DEF before
<1>6. F!FrameStart(i + 1) = Frames!Fold(0, SubSeq(fsent, 1, i + 1 - 1))
  BY StartsFold
<1> QED BY <1>3, <1>4, <1>5, <1>6 DEF AddFrame, to

\* The frames follow each other.
LEMMA StartsGrow ==
    ASSUME fsent \in Seq(Lengths)
    PROVE  /\ \A i \in 1 .. Len(fsent) + 1 : F!FrameStart(i) \in Nat
           /\ \A i, j \in 1 .. Len(fsent) + 1 : i < j => F!FrameStart(i) < F!FrameStart(j)
<1> DEFINE Grown == {k \in Nat : k + 1 <= Len(fsent) + 1 =>
                    /\ F!FrameStart(k + 1) \in Nat
                    /\ \A i \in 1 .. k : F!FrameStart(i) < F!FrameStart(k + 1) /\ F!FrameStart(i) \in Nat}
<1>1. 0 \in Grown
  BY FirstStart
<1>2. ASSUME NEW k \in Nat, k \in Grown PROVE k + 1 \in Grown
  <2> SUFFICES ASSUME k + 1 + 1 <= Len(fsent) + 1
               PROVE  /\ F!FrameStart(k + 1 + 1) \in Nat
                      /\ \A i \in 1 .. k + 1 : F!FrameStart(i) < F!FrameStart(k + 1 + 1) /\ F!FrameStart(i) \in Nat
    OBVIOUS
  <2>1. k + 1 \in 1 .. Len(fsent) /\ k + 1 <= Len(fsent) + 1
    OBVIOUS
  <2>2. F!FrameStart(k + 1 + 1) = F!FrameStart(k + 1) + F!FrameSize(fsent[k + 1])
    BY <2>1, NextStart
  <2>3. fsent[k + 1] \in Lengths
    BY <2>1
  <2>4. F!FrameSize(fsent[k + 1]) \in Nat /\ F!FrameSize(fsent[k + 1]) >= 5
    BY <2>3, HeadSizes
  <2>5. /\ F!FrameStart(k + 1) \in Nat
        /\ \A i \in 1 .. k : F!FrameStart(i) < F!FrameStart(k + 1) /\ F!FrameStart(i) \in Nat
    BY <1>2, <2>1
  <2>6. ASSUME NEW i \in 1 .. k + 1 PROVE F!FrameStart(i) < F!FrameStart(k + 1 + 1) /\ F!FrameStart(i) \in Nat
    <3>1. CASE i = k + 1
      BY <2>2, <2>4, <2>5, <3>1
    <3>2. CASE i \in 1 .. k
      BY <2>2, <2>4, <2>5, <3>2
    <3> QED BY <3>1, <3>2
  <2> QED BY <2>2, <2>4, <2>5, <2>6
<1> HIDE DEF Grown
<1>3. Nat \subseteq Grown
  BY <1>1, <1>2, Frames!Induct
<1>4. ASSUME NEW j \in 1 .. Len(fsent) + 1
      PROVE  F!FrameStart(j) \in Nat /\ \A i \in 1 .. Len(fsent) + 1 : i < j => F!FrameStart(i) < F!FrameStart(j)
  <2>1. j - 1 \in Nat /\ j - 1 + 1 = j /\ Len(fsent) \in Nat
    OBVIOUS
  <2>2. j - 1 \in Grown
    BY <1>3, <2>1
  <2>3. F!FrameStart(j) \in Nat /\ \A i \in 1 .. j - 1 : F!FrameStart(i) < F!FrameStart(j)
    BY <2>1, <2>2 DEF Grown
  <2> QED BY <2>1, <2>3
<1> QED BY <1>4

\* The reader has passed up the first messages whole, and is in the length of the next one or in
\* the message itself.
Buffer == [first : Nat, len : Nat, got : Nat]
Reading(n) == /\ fmsgBuf = F!NoBuf /\ freadLen \in 0 .. 4
              /\ fpos = F!FrameStart(n + 1) + freadLen /\ (n = Len(fsent) => freadLen = 0)
Holds(buf, n) == /\ n < Len(fsent) /\ buf \in Buffer
                 /\ buf.len = fsent[n + 1] /\ buf.first = F!FrameStart(n + 1) + F!HeadSize(fsent[n + 1])
Filling(n) == Holds(fmsgBuf, n) /\ freadLen = 5 /\ fmsgBuf.got < fmsgBuf.len /\ fpos = fmsgBuf.first + fmsgBuf.got
Whole == \A i \in 1 .. Len(freceived) : /\ freceived[i].first = F!FrameStart(i) + F!HeadSize(fsent[i])
                                        /\ freceived[i].len = fsent[i]
FramingInv ==
    /\ fsent \in Seq(Lengths) /\ ~ffailed /\ freceived \in Seq(Buffer) /\ Len(freceived) <= Len(fsent) /\ Whole
    /\ Reading(Len(freceived)) \/ Filling(Len(freceived))

LEMMA StartSame == ASSUME fsent' = fsent PROVE \A i : F!FrameStart(i)' = F!FrameStart(i)
<1> TAKE i
<1>1. F!FrameStart(i)' = Frames!Fold(0, SubSeq(fsent', 1, i - 1))
  BY Zenon DEF F!FrameStart, F!FoldLeft, F!MapThenFoldSet, F!Max, Frames!Fold, Frames!Stepped, Frames!Steps,
     Frames!Top, AddFrame
<1> QED BY <1>1, StartsFold

LEMMA FramingInit == ASSUME fsent \in Seq(Lengths), F!Fresh PROVE FramingInv
<1>1. freceived = <<>> /\ Len(freceived) = 0 /\ freceived \in Seq(Buffer) /\ ~ffailed
  BY DEF F!Fresh
<1>2. Reading(0)
  BY FirstStart DEF Reading, F!Fresh
<1> QED BY <1>1, <1>2 DEF FramingInv, Whole

\* What is passed up is whole.
LEMMA Progressed ==
    ASSUME FramingInv, NEW buf, Holds(buf, Len(freceived)), buf.got <= buf.len, fpos' = buf.first + buf.got,
           F!Progress(buf), ~ffailed', fsent' = fsent
    PROVE  FramingInv'
<1>0. PICK n : n = Len(freceived)
  OBVIOUS
<1> DEFINE len == fsent[n + 1]
<1>1. /\ fsent \in Seq(Lengths) /\ freceived \in Seq(Buffer) /\ Whole /\ n \in Nat /\ n < Len(fsent)
      /\ buf \in Buffer /\ buf.len = len /\ buf.first = F!FrameStart(n + 1) + F!HeadSize(len)
  BY <1>0 DEF FramingInv, Holds
<1>2. len \in Lengths /\ n + 1 \in 1 .. Len(fsent)
  BY <1>1
<1>3. F!FrameStart(n + 1 + 1) = F!FrameStart(n + 1) + F!FrameSize(len)
  BY <1>1, <1>2, NextStart
<1>4. F!FrameStart(n + 1) \in Nat
  BY <1>1, StartsGrow
<1>5. len \in Nat /\ F!HeadSize(len) \in Nat /\ F!FrameSize(len) = F!HeadSize(len) + len
  BY <1>2, HeadSizes
<1>6. \A i : F!FrameStart(i)' = F!FrameStart(i)
  BY StartSame
<1>7. CASE buf.got = buf.len
  <2>1. freceived' = Append(freceived, buf) /\ fmsgBuf' = F!NoBuf /\ freadLen' = 0
    BY <1>7 DEF F!Progress
  <2>2. /\ freceived' \in Seq(Buffer) /\ Len(freceived') = n + 1 /\ freceived'[n + 1] = buf
        /\ \A i \in 1 .. n : freceived'[i] = freceived[i]
    BY <1>0, <1>1, <2>1
  <2>3. fpos' = F!FrameStart(n + 1 + 1)
    BY <1>1, <1>3, <1>4, <1>5, <1>7
  <2>4. Reading(n + 1)'
    BY <1>6, <2>1, <2>3, <1>1, <1>4, <1>5, <1>3 DEF Reading
  <2>5. Whole'
    <3> SUFFICES ASSUME NEW i \in 1 .. n + 1
                 PROVE  /\ freceived'[i].first = F!FrameStart(i) + F!HeadSize(fsent[i])
                        /\ freceived'[i].len = fsent[i]
      BY <1>6, <2>2, Zenon DEF Whole
    <3>1. CASE i = n + 1
      BY <1>1, <2>2, <3>1
    <3>2. CASE i \in 1 .. n
      BY <1>0, <1>1, <2>2, <3>2 DEF Whole
    <3> QED BY <1>1, <3>1, <3>2
  <2>6. Len(freceived') <= Len(fsent')
    BY <1>1, <2>2
  <2> QED BY <1>1, <2>2, <2>4, <2>5, <2>6 DEF FramingInv
<1>8. CASE buf.got # buf.len
  <2>1. freceived' = freceived /\ fmsgBuf' = buf /\ freadLen' = 5
    BY <1>8 DEF F!Progress, F!MIN_READ_SIZE
  <2>2. Holds(fmsgBuf, n)'
    BY <1>1, <1>6, <2>1 DEF Holds
  <2>3. buf.got < buf.len
    BY <1>1, <1>8 DEF Buffer
  <2>4. Filling(n)'
    BY <2>1, <2>2, <2>3 DEF Filling
  <2>5. Whole'
    BY <1>1, <1>6, <2>1, Zenon DEF Whole
  <2> QED BY <1>0, <1>1, <2>1, <2>4, <2>5 DEF FramingInv
<1> QED BY <1>7, <1>8

\* The least of two.
LEMMA LeastOfTwo == ASSUME NEW x \in Int, NEW y \in Int PROVE F!Min({x, y}) <= x /\ F!Min({x, y}) <= y /\ F!Min({x, y}) \in Int
<1>1. \E k \in {x, y} : \A j \in {x, y} : k <= j
  <2>1. CASE x <= y
    BY <2>1
  <2>2. CASE y <= x
    BY <2>2
  <2> QED BY <2>1, <2>2
<1>2. F!Min({x, y}) \in {x, y} /\ \A j \in {x, y} : F!Min({x, y}) <= j
  BY <1>1, Zenon DEF F!Min
<1> QED BY <1>2

\* A read delivers what was written, and no more than there is room for.
LEMMA ReadBounds ==
    ASSUME FramingInv, F!Next
    PROVE  \E k \in Nat \ {0} : F!OnData(k) /\ k <= F!Room /\ fpos + k <= F!StreamLen
<1> DEFINE most == F!Min({F!Room, F!StreamLen - fpos})
<1>1. F!Room \in Int /\ F!StreamLen \in Int /\ fpos \in Int
  <2> DEFINE n == Len(freceived)
  <2>1. fsent \in Seq(Lengths) /\ n \in Nat /\ n <= Len(fsent) /\ Len(fsent) \in Nat
    BY DEF FramingInv
  <2>2. F!FrameStart(n + 1) \in Nat /\ F!FrameStart(Len(fsent) + 1) \in Nat
    BY <2>1, StartsGrow
  <2>3. CASE Reading(n)
    BY <2>2, <2>3 DEF Reading, F!Room, F!StreamLen, F!NoBuf, F!MIN_READ_SIZE
  <2>4. CASE Filling(n)
    <3>1. fmsgBuf.first \in Nat /\ fmsgBuf.len \in Nat /\ fmsgBuf.got \in Nat
      BY <2>4 DEF Filling, Holds, Buffer
    <3>2. fpos = fmsgBuf.first + fmsgBuf.got /\ freadLen = 5
      BY <2>4 DEF Filling
    <3> QED BY <2>2, <3>1, <3>2 DEF F!Room, F!StreamLen, F!MIN_READ_SIZE
  <2> QED BY <2>3, <2>4 DEF FramingInv
<1>2. most <= F!Room /\ most <= F!StreamLen - fpos /\ most \in Int
  BY <1>1, LeastOfTwo
<1>3. PICK k \in {c \in Cuts : c < most /\ most <= 5 * c} \cup {most} : most > 0 /\ F!OnData(k)
  BY Zenon DEF F!Next
<1> HIDE DEF most
<1>4. k \in Nat \ {0} /\ k <= most
  BY <1>2, <1>3, CutsAssumption
<1> QED BY <1>1, <1>2, <1>3, <1>4

LEMMA FramingStep == ASSUME FramingInv, F!Next PROVE FramingInv'
<1> DEFINE n == Len(freceived)
<1>1. PICK k \in Nat \ {0} : F!OnData(k) /\ k <= F!Room /\ fpos + k <= F!StreamLen
  BY ReadBounds
<1>2. fpos' = fpos + k /\ fsent' = fsent /\ ~ffailed
  BY <1>1 DEF F!OnData
<1>3. /\ fsent \in Seq(Lengths) /\ freceived \in Seq(Buffer) /\ Whole /\ n \in Nat /\ n <= Len(fsent)
      /\ Len(fsent) \in Nat
  BY DEF FramingInv
<1>4. \A i : F!FrameStart(i)' = F!FrameStart(i)
  BY <1>2, StartSame
<1>5. F!FrameStart(n + 1) \in Nat
  BY <1>3, StartsGrow
<1>6. CASE Filling(n)
  <2> DEFINE buf == [fmsgBuf EXCEPT !.got = @ + k]
  <2>1. /\ fmsgBuf \in Buffer /\ n < Len(fsent) /\ fmsgBuf.got < fmsgBuf.len /\ fmsgBuf.len > 0 /\ freadLen = 5
        /\ fpos = fmsgBuf.first + fmsgBuf.got
    BY <1>6 DEF Filling, Holds, Buffer
  <2>2. F!Progress(buf) /\ ffailed' = ffailed
    BY <1>1, <2>1 DEF F!OnData
  <2>3. buf \in Buffer /\ buf.first = fmsgBuf.first /\ buf.len = fmsgBuf.len /\ buf.got = fmsgBuf.got + k
    BY <2>1 DEF Buffer
  <2>4. k <= fmsgBuf.len - fmsgBuf.got
    BY <1>1, <2>1 DEF F!Room
  <2>5. fmsgBuf.first \in Nat /\ fmsgBuf.got \in Nat /\ fmsgBuf.len \in Nat
    BY <2>1 DEF Buffer
  <2> HIDE DEF buf
  <2>6. Holds(buf, n)
    BY <1>6, <2>3 DEF Filling, Holds
  <2>7. buf.got <= buf.len /\ fpos' = buf.first + buf.got
    <3>1. fpos' = fmsgBuf.first + fmsgBuf.got + k
      BY <1>2, <2>1
    <3> DEFINE got == fmsgBuf.got
               len == fmsgBuf.len
               first == fmsgBuf.first
    <3>2. /\ got \in Nat /\ len \in Nat /\ first \in Nat /\ k \in Nat /\ k <= len - got
          /\ fpos' = first + got + k
      BY <2>4, <2>5, <3>1
    <3>3. buf.got = got + k /\ buf.len = len /\ buf.first = first
      BY <2>3
    <3> HIDE DEF got, len, first
    <3>4. got + k <= len /\ fpos' = first + (got + k)
      BY <3>2
    <3> QED BY <3>3, <3>4
  <2> QED BY <1>2, <2>2, <2>6, <2>7, Progressed
<1>7. CASE Reading(n)
  <2>1. /\ fmsgBuf = F!NoBuf /\ fmsgBuf.len = 0 /\ freadLen \in 0 .. 4 /\ fpos = F!FrameStart(n + 1) + freadLen
        /\ n = Len(fsent) => freadLen = 0
    BY <1>7 DEF Reading, F!NoBuf
  <2>2. k <= 5 - freadLen
    BY <1>1, <2>1 DEF F!Room, F!MIN_READ_SIZE
  <2>3. n < Len(fsent)
    <3> SUFFICES ASSUME n = Len(fsent) PROVE FALSE
      BY <1>3
    <3>1. F!StreamLen = F!FrameStart(n + 1)
      BY Zenon DEF F!StreamLen
    <3> QED BY <1>1, <1>5, <2>1, <3>1
  <2>4. CASE freadLen + k < 5
    <3>1. freadLen' = freadLen + k /\ UNCHANGED <<fmsgBuf, freceived, ffailed>>
      BY <1>1, <2>1, <2>4 DEF F!OnData, F!MIN_READ_SIZE
    <3>2. fpos' = F!FrameStart(n + 1) + freadLen'
      BY <1>2, <1>5, <2>1, <3>1
    <3>3. Reading(n)'
      BY <1>2, <1>3, <1>4, <2>1, <2>3, <2>4, <3>1, <3>2 DEF Reading
    <3>4. Whole'
      BY <1>2, <1>3, <1>4, <3>1, Zenon DEF Whole
    <3> QED BY <1>2, <1>3, <3>1, <3>3, <3>4 DEF FramingInv
  <2>5. CASE freadLen + k = 5
    <3> DEFINE start == fpos + k - F!MIN_READ_SIZE
               len == fsent[n + 1]
               buf == F!OnLength(k)
    <3>1. start = F!FrameStart(n + 1)
      BY <1>5, <2>1, <2>5 DEF F!MIN_READ_SIZE
    <3>2. F!FrameAt(start) = {n + 1}
      <4>1. n + 1 \in 1 .. Len(fsent) /\ n + 1 \in 1 .. Len(fsent) + 1
        BY <1>3, <2>3
      <4>2. ASSUME NEW i \in 1 .. Len(fsent), F!FrameStart(i) = F!FrameStart(n + 1) PROVE i = n + 1
        <5>1. i \in 1 .. Len(fsent) + 1
          BY <1>3
        <5>2. i < n + 1 => F!FrameStart(i) < F!FrameStart(n + 1)
          BY <1>3, <4>1, <5>1, StartsGrow
        <5>3. n + 1 < i => F!FrameStart(n + 1) < F!FrameStart(i)
          BY <1>3, <4>1, <5>1, StartsGrow
        <5> QED BY <1>3, <1>5, <4>2, <5>2, <5>3
      <4> QED BY <3>1, <4>1, <4>2 DEF F!FrameAt
    <3>3. (CHOOSE i \in F!FrameAt(start) : TRUE) = n + 1
      BY <3>2, Zenon
    <3>4. buf = [first |-> start + F!HeadSize(len), len |-> len, got |-> F!MIN_READ_SIZE - F!HeadSize(len)]
      BY <3>3, Zenon DEF F!OnLength
    <3>5. ~ffailed' /\ F!Progress(buf)
      <4>1. ffailed' = (F!FrameAt(start) = {}) /\ (~ffailed' => F!Progress(buf))
        BY <1>1, <2>1, <2>5 DEF F!OnData, F!MIN_READ_SIZE
      <4> QED BY <3>2, <4>1
    <3>6. len \in Lengths
      BY <1>3, <2>3
    <3>7. len \in Nat /\ len >= 4 /\ F!HeadSize(len) \in 1 .. 5 /\ F!HeadSize(len) + len >= 5
      BY <3>6, HeadSizes
    <3> HIDE DEF buf, start
    <3>8. /\ buf.first = F!FrameStart(n + 1) + F!HeadSize(len) /\ buf.len = len /\ buf.got = 5 - F!HeadSize(len)
          /\ buf \in Buffer
      BY <1>5, <3>1, <3>4, <3>7 DEF Buffer, F!MIN_READ_SIZE
    <3>9. Holds(buf, n)
      BY <2>3, <3>8 DEF Holds
    <3> HIDE DEF len, n
    <3>10. buf.got <= buf.len /\ fpos' = buf.first + buf.got
      <4> DEFINE h == F!HeadSize(len)
                 s == F!FrameStart(n + 1)
      <4>1. /\ h \in 1 .. 5 /\ len \in Nat /\ h + len >= 5 /\ s \in Nat /\ k \in Nat /\ freadLen \in 0 .. 4
            /\ fpos' = s + freadLen + k /\ freadLen + k = 5
        BY <1>2, <1>5, <2>1, <2>5, <3>7, SMTT(40)
      <4>2. buf.got = 5 - h /\ buf.len = len /\ buf.first = s + h
        BY <3>8
      <4> HIDE DEF h, s
      <4>3. 5 - h <= len /\ fpos' = (s + h) + (5 - h)
        BY <4>1
      <4> QED BY <4>2, <4>3
    <3> QED BY <1>2, <3>5, <3>9, <3>10, Progressed DEF n
  <2> QED BY <2>1, <2>2, <2>4, <2>5
<1> QED BY <1>6, <1>7 DEF FramingInv

LEMMA FramingStutter == ASSUME FramingInv, UNCHANGED fVars PROVE FramingInv'
<1>1. UNCHANGED <<fsent, fpos, freadLen, fmsgBuf, freceived, ffailed>>
  BY DEF fVars
<1>2. \A i : F!FrameStart(i)' = F!FrameStart(i)
  BY <1>1, StartSame
<1> QED BY <1>1, <1>2, Zenon DEF FramingInv, Whole, Reading, Filling, Holds

\* What the invariant says of the property.
LEMMA FramingCounted == ASSUME FramingInv PROVE F!FramesIntact
<1> DEFINE n == Len(freceived)
<1>1. /\ fsent \in Seq(Lengths) /\ ~ffailed /\ Whole /\ n \in Nat /\ n <= Len(fsent) /\ Len(fsent) \in Nat
  BY DEF FramingInv
<1>2. ASSUME NEW i \in 1 .. Len(fsent), fpos >= F!FrameStart(i + 1) PROVE n >= i
  <2> SUFFICES ASSUME n < i PROVE FALSE
    BY <1>1
  <2>1. n < Len(fsent) /\ n + 1 \in 1 .. Len(fsent)
    BY <1>1
  <2>2. F!FrameStart(n + 1 + 1) <= F!FrameStart(i + 1)
    <3>1. i + 1 \in 1 .. Len(fsent) + 1 /\ n + 1 + 1 \in 1 .. Len(fsent) + 1
      BY <1>1, <2>1
    <3>2. n + 1 + 1 < i + 1 => F!FrameStart(n + 1 + 1) < F!FrameStart(i + 1)
      BY <1>1, <3>1, StartsGrow
    <3>3. F!FrameStart(n + 1 + 1) \in Nat /\ F!FrameStart(i + 1) \in Nat
      BY <1>1, <3>1, StartsGrow
    <3>4. n + 1 + 1 = i + 1 \/ n + 1 + 1 < i + 1
      BY <1>1
    <3> QED BY <3>2, <3>3, <3>4
  <2> DEFINE len == fsent[n + 1]
  <2>3. F!FrameStart(n + 1 + 1) = F!FrameStart(n + 1) + F!FrameSize(len)
    BY <1>1, <2>1, NextStart
  <2>4. len \in Nat /\ F!HeadSize(len) \in 1 .. 5 /\ F!FrameSize(len) = F!HeadSize(len) + len /\ F!FrameSize(len) >= 5
    BY <1>1, <2>1, HeadSizes
  <2>5. F!FrameStart(n + 1) \in Nat /\ F!FrameStart(i + 1) \in Nat
    BY <1>1, <2>1, StartsGrow
  <2>8. PICK a \in Nat, h \in 1 .. 5, s \in Nat, m \in Nat :
              a = F!FrameStart(n + 1) /\ h = F!HeadSize(len) /\ s = F!FrameSize(len) /\ m = len /\ s = h + m /\ s >= 5
    BY <2>4, <2>5
  <2> HIDE DEF len, n
  <2>9. a + s <= F!FrameStart(i + 1)
    BY <2>2, <2>3, <2>8
  <2>6. CASE Reading(n)
    <3>1. fpos = a + freadLen /\ freadLen \in 0 .. 4
      BY <2>6, <2>8 DEF Reading
    <3>2. fpos < a + s /\ fpos \in Int
      BY <2>8, <3>1, SMTT(40)
    <3> QED BY <1>2, <2>5, <2>9, <3>2
  <2>7. CASE Filling(n)
    <3>1. fpos = F!FrameStart(n + 1) + F!HeadSize(len) + fmsgBuf.got /\ fmsgBuf.got < len /\ fmsgBuf.got \in Nat
      BY <2>7 DEF Filling, Holds, Buffer, len
    <3>2. PICK g \in Nat : g = fmsgBuf.got
      BY <3>1
    <3>3. fpos = a + h + g /\ g < m
      BY <2>8, <3>1, <3>2
    <3>4. fpos < a + s /\ fpos \in Int
      BY <2>8, <3>3, SMTT(40)
    <3> QED BY <1>2, <2>5, <2>9, <3>4
  <2> QED BY <2>6, <2>7 DEF FramingInv, n
<1> QED BY <1>1, <1>2 DEF F!FramesIntact, Whole

--------------------------------------------------------------------------------

\* The invariant of all transports; a step of one leaves the others alone.
TInv == DtlsInv /\ StreamInv /\ FramingInv /\ MulticastInv /\ ResolverInv

\* TInv is an invariant for any number of peers, streams, interfaces, messages and
\* requests, whatever libuv and mbedtls answer and whenever the node stops.
THEOREM TransportsInductive == Spec => []TInv
<1>1. Init => TInv
  <2> SUFFICES ASSUME Init PROVE TInv
    OBVIOUS
  <2>1. fsent \in Seq(Lengths) /\ F!Fresh
    <3>1. CASE F!Init
      BY <3>1 DEF F!Init
    <3>2. CASE fsent = <<>> /\ F!Fresh
      BY <3>2
    <3> QED BY <3>1, <3>2, Zenon DEF Init
  <2> QED BY <2>1, DtlsInit, StreamInit, FramingInit, MulticastInit, ResolverInit DEF Init, TInv
<1>2. TInv /\ [Next]_vars => TInv'
  <2> SUFFICES ASSUME TInv, [Next]_vars PROVE TInv'
    OBVIOUS
  <2>1. CASE D!Next /\ UNCHANGED <<transport, sVars, fVars, mVars, rVars>>
    BY <2>1, DtlsStep, StreamStutter, FramingStutter, MulticastStutter, ResolverStutter DEF TInv
  <2>2. CASE S!Next /\ UNCHANGED <<transport, dVars, fVars, mVars, rVars>>
    BY <2>2, DtlsStutter, StreamStep, FramingStutter, MulticastStutter, ResolverStutter DEF TInv
  <2>3. CASE F!Next /\ UNCHANGED <<transport, dVars, sVars, mVars, rVars>>
    BY <2>3, DtlsStutter, StreamStutter, FramingStep, MulticastStutter, ResolverStutter DEF TInv
  <2>4. CASE M!Next /\ UNCHANGED <<transport, dVars, sVars, fVars, rVars>>
    BY <2>4, DtlsStutter, StreamStutter, FramingStutter, MulticastStep, ResolverStutter DEF TInv
  <2>5. CASE R!Next /\ UNCHANGED <<transport, dVars, sVars, fVars, mVars>>
    BY <2>5, DtlsStutter, StreamStutter, FramingStutter, MulticastStutter, ResolverStep DEF TInv
  <2>6. CASE UNCHANGED vars
    BY <2>6, DtlsStutter, StreamStutter, FramingStutter, MulticastStutter, ResolverStutter DEF TInv, vars
  <2> QED BY <2>1, <2>2, <2>3, <2>4, <2>5, <2>6 DEF Next
<1> QED BY <1>1, <1>2, PTL DEF Spec

\* SendsOnceHolds: a message DPS_NetSend or DPS_MulticastSend took is called back
\* exactly once and never forgotten, whatever fails and whenever the transport stops;
\* only a message for an incoming DTLS connection whose peer was heard again after
\* its handles began to close may stay in a queue.
THEOREM SendsOnceHolds == Spec => []SendsOnce
<1>1. TInv => SendsOnce
  BY DtlsCounted, StreamCounted, MulticastCounted DEF TInv, SendsOnce
<1> QED BY <1>1, TransportsInductive, PTL

\* OwnersCountedHolds: the reference counts of DTLS and stream connections are exact,
\* also while a connection closes, no assert on the counts fails, a connection begins
\* to close only when nobody owns it, and the net context outlives the connections of
\* its list.
THEOREM OwnersCountedHolds == Spec => []OwnersCounted
<1>1. TInv => OwnersCounted
  BY DtlsCounted, StreamCounted DEF TInv, OwnersCounted
<1> QED BY <1>1, TransportsInductive, PTL

\* ResolvedOnceHolds: DPS_ResolveAddress is answered at most once, and a request
\* linked before StopNode closes the async is answered before the node is stopped,
\* also when libuv refuses it or the other address family is tried.
THEOREM ResolvedOnceHolds == Spec => []ResolvedOnce
<1>1. TInv => ResolvedOnce
  BY ResolverCounted DEF TInv, ResolvedOnce
<1> QED BY <1>1, TransportsInductive, PTL

\* MessagesIntactHolds: whatever the lengths of the messages and wherever the reads of
\* the pipe and TCP transports cut the stream, OnData passes up the messages written,
\* whole, in order and no later than their last byte, and meets no broken length.
THEOREM MessagesIntactHolds == Spec => []MessagesIntact
<1>1. TInv => MessagesIntact
  BY FramingCounted DEF TInv, MessagesIntact
<1> QED BY <1>1, TransportsInductive, PTL

================================================================================
